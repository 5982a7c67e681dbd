----------------------------- MODULE LoopProofs -----------------------------
(***************************************************************************)
(* Proofs about the two loops of runtime/concurrent.rs that fetch assets:  *)
(* the scan's (AssetScan, over BoundedUnordered), for any references,      *)
(* sites, concurrency and caps, and the search's (Search, over             *)
(* bounded_map), for any page, assets, pattern and options.                *)
(*                                                                         *)
(* A search goes through texts by folds, and what a fold amounts to is     *)
(* stated by its values after each element (StartsTraced, FoundTraced,     *)
(* SortTraced, MergedTraced, AllTraced, FilesTraced). Lines are where line *)
(* ends are counted (LineStartsAre), a window is what is left of the lines *)
(* of a hit (SnippetWindowIs), merging prints the first hits of two lists  *)
(* one after the other (MergeChunkIs), and so the files that were read     *)
(* print the hits of the page in its order: sorted, those up to any file   *)
(* come first (GrepAssetsIs).                                              *)
(***************************************************************************)
EXTENDS AssetScan, Search, Induction

UrlsDistinct(s) == \A i, j \in DOMAIN s : s[i].url = s[j].url => i = j

(* Inserting by priority adds exactly the new reference, once. *)
LEMMA InsertLemma ==
  ASSUME NEW s \in Seq(Ref), NEW r \in Ref
  PROVE  LET t == InsertByPriority(s, r)
         IN  /\ t \in Seq(Ref)
             /\ RefsIn(t) = RefsIn(s) \cup {r}
             /\ UrlsDistinct(s) /\ r.url \notin Urls(s) => UrlsDistinct(t)
<1> DEFINE P == {i \in DOMAIN s : Priority(s[i]) <= Priority(r)}
           k == Cardinality(P)
           t == InsertByPriority(s, r)
<1>1. Len(s) \in Nat /\ DOMAIN s = 1 .. Len(s) /\ s \in [1 .. Len(s) -> Ref]
  BY LenProperties
<1>2. k \in 0 .. Len(s)
  <2>1. IsFiniteSet(1 .. Len(s)) /\ Cardinality(1 .. Len(s)) = Len(s)
    BY <1>1, FS_Interval
  <2>2. P \in SUBSET (1 .. Len(s))
    BY <1>1
  <2>3. IsFiniteSet(P) /\ Cardinality(P) <= Cardinality(1 .. Len(s))
    BY <2>1, <2>2, FS_Subset
  <2> QED
    BY <2>1, <2>3, FS_CardinalityType, <1>1
<1> HIDE DEF P, k
<1>3. t = [i \in 1 .. Len(s) + 1 |->
             IF i <= k THEN s[i] ELSE IF i = k + 1 THEN r ELSE s[i - 1]]
  BY DEF InsertByPriority, k, P
<1> HIDE DEF t
<1>4. \A i \in 1 .. Len(s) + 1 : t[i] \in Ref
  BY <1>1, <1>2, <1>3
<1>5. t \in Seq(Ref) /\ DOMAIN t = 1 .. Len(s) + 1
  <2>1. t \in [1 .. Len(s) + 1 -> Ref]
    BY <1>3, <1>4
  <2> QED
    BY <2>1, <1>1, SeqDef
<1>6. RefsIn(t) = RefsIn(s) \cup {r}
  <2>1. ASSUME NEW x \in RefsIn(t) PROVE x \in RefsIn(s) \cup {r}
    <3>1. PICK i \in 1 .. Len(s) + 1 : x = t[i]
      BY <1>5 DEF RefsIn
    <3>2. CASE i <= k
      BY <3>1, <3>2, <1>1, <1>2, <1>3 DEF RefsIn
    <3>3. CASE i = k + 1
      BY <3>1, <3>3, <1>1, <1>2, <1>3 DEF RefsIn
    <3>4. CASE i > k + 1
      <4>1. i - 1 \in DOMAIN s /\ x = s[i - 1]
        BY <3>1, <3>4, <1>1, <1>2, <1>3
      <4> QED BY <4>1 DEF RefsIn
    <3> QED BY <3>2, <3>3, <3>4, <1>2
  <2>2. ASSUME NEW x \in RefsIn(s) PROVE x \in RefsIn(t)
    <3>1. PICK i \in 1 .. Len(s) : x = s[i]
      BY <1>1 DEF RefsIn
    <3>2. CASE i <= k
      <4>1. i \in DOMAIN t /\ t[i] = x
        BY <3>1, <3>2, <1>1, <1>2, <1>3, <1>5
      <4> QED BY <4>1 DEF RefsIn
    <3>3. CASE i > k
      <4>1. i + 1 \in DOMAIN t /\ t[i + 1] = x
        BY <3>1, <3>3, <1>1, <1>2, <1>3, <1>5
      <4> QED BY <4>1 DEF RefsIn
    <3> QED BY <3>2, <3>3, <1>2
  <2>3. r \in RefsIn(t)
    <3>1. k + 1 \in DOMAIN t /\ t[k + 1] = r
      BY <1>1, <1>2, <1>3, <1>5
    <3> QED BY <3>1 DEF RefsIn
  <2> QED BY <2>1, <2>2, <2>3
<1>7. ASSUME UrlsDistinct(s), r.url \notin Urls(s) PROVE UrlsDistinct(t)
  <2>1. \A i \in 1 .. Len(s) : s[i].url # r.url
    BY <1>1, <1>7 DEF Urls, UrlsOf, RefsIn
  <2>2. \A i, j \in 1 .. Len(s) : s[i].url = s[j].url => i = j
    BY <1>1, <1>7 DEF UrlsDistinct
  <2> SUFFICES ASSUME NEW i \in 1 .. Len(s) + 1, NEW j \in 1 .. Len(s) + 1,
                      t[i].url = t[j].url
               PROVE  i = j
    BY <1>5 DEF UrlsDistinct
  <2> QED BY <2>1, <2>2, <1>1, <1>2, <1>3
<1> QED
  BY <1>5, <1>6, <1>7 DEF t

(* The references of a sequence are its head's and its tail's. *)
LEMMA TailLemma ==
  ASSUME NEW s \in Seq(Ref), s # <<>>
  PROVE  /\ Head(s) \in Ref /\ Tail(s) \in Seq(Ref)
         /\ RefsIn(s) = RefsIn(Tail(s)) \cup {Head(s)}
         /\ UrlsDistinct(s) => UrlsDistinct(Tail(s)) /\ Head(s).url \notin Urls(Tail(s))
         /\ Len(s) = 1 <=> Tail(s) = <<>>
<1>1. /\ Len(s) \in Nat \ {0} /\ DOMAIN s = 1 .. Len(s)
      /\ Head(s) = s[1] /\ Head(s) \in Ref
      /\ Tail(s) \in Seq(Ref) /\ Len(Tail(s)) = Len(s) - 1
      /\ DOMAIN Tail(s) = 1 .. Len(s) - 1
      /\ \A i \in 1 .. Len(s) - 1 : Tail(s)[i] = s[i + 1]
  BY HeadTailProperties, LenProperties, EmptySeq
<1>2. RefsIn(s) = RefsIn(Tail(s)) \cup {Head(s)}
  <2>1. ASSUME NEW i \in 1 .. Len(s) PROVE s[i] \in RefsIn(Tail(s)) \cup {Head(s)}
    <3>1. CASE i = 1
      BY <3>1, <1>1
    <3>2. CASE i # 1
      <4>1. i - 1 \in DOMAIN Tail(s) /\ Tail(s)[i - 1] = s[i]
        BY <3>2, <1>1
      <4> QED BY <4>1 DEF RefsIn
    <3> QED BY <3>1, <3>2
  <2>2. \A i \in 1 .. Len(s) - 1 : Tail(s)[i] \in RefsIn(s)
    BY <1>1 DEF RefsIn
  <2>3. Head(s) \in RefsIn(s)
    BY <1>1 DEF RefsIn
  <2> QED BY <2>1, <2>2, <2>3, <1>1 DEF RefsIn
<1>3. ASSUME UrlsDistinct(s)
      PROVE  UrlsDistinct(Tail(s)) /\ Head(s).url \notin Urls(Tail(s))
  <2>1. \A i, j \in 1 .. Len(s) : s[i].url = s[j].url => i = j
    BY <1>1, <1>3 DEF UrlsDistinct
  <2>2. UrlsDistinct(Tail(s))
    BY <2>1, <1>1 DEF UrlsDistinct
  <2>3. \A i \in 1 .. Len(s) - 1 : Tail(s)[i].url # Head(s).url
    BY <2>1, <1>1
  <2> QED BY <2>2, <2>3, <1>1 DEF Urls, UrlsOf, RefsIn
<1>4. Len(s) = 1 <=> Tail(s) = <<>>
  <2>1. ASSUME Tail(s) = <<>> PROVE Len(s) = 1
    <3>1. Len(Tail(s)) = 0
      BY <2>1, EmptySeq
    <3> QED BY <3>1, <1>1
  <2>2. ASSUME Len(s) = 1 PROVE Tail(s) = <<>>
    <3>1. Len(Tail(s)) = 0
      BY <2>2, <1>1
    <3>2. Tail(s) \in Seq(Ref)
      BY <1>1
    <3>3. Tail(s) # <<>> => Len(Tail(s)) \in Nat \ {0}
      BY <3>2, EmptySeq
    <3> QED BY <3>1, <3>3
  <2> QED BY <2>1, <2>2
<1> QED BY <1>1, <1>2, <1>3, <1>4

(* Appending a batch of new URLs to the queue adds them and keeps it free *)
(* of duplicates. *)
LEMMA ConcatLemma ==
  ASSUME NEW s \in Seq(Ref), NEW t \in Seq(Ref)
  PROVE  /\ s \o t \in Seq(Ref)
         /\ RefsIn(s \o t) = RefsIn(s) \cup RefsIn(t)
         /\ UrlsDistinct(s) /\ UrlsDistinct(t) /\ Urls(s) \cap Urls(t) = {}
              => UrlsDistinct(s \o t)
<1>1. /\ s \o t \in Seq(Ref)
      /\ Len(s) \in Nat /\ Len(t) \in Nat
      /\ DOMAIN s = 1 .. Len(s) /\ DOMAIN t = 1 .. Len(t)
      /\ DOMAIN (s \o t) = 1 .. Len(s) + Len(t)
      /\ \A i \in 1 .. Len(s) + Len(t) :
            (s \o t)[i] = IF i <= Len(s) THEN s[i] ELSE t[i - Len(s)]
  BY ConcatProperties, LenProperties
<1>2. RefsIn(s \o t) = RefsIn(s) \cup RefsIn(t)
  <2>1. ASSUME NEW i \in 1 .. Len(s) + Len(t)
        PROVE  (s \o t)[i] \in RefsIn(s) \cup RefsIn(t)
    <3>1. CASE i <= Len(s)
      BY <3>1, <1>1 DEF RefsIn
    <3>2. CASE i > Len(s)
      <4>1. i - Len(s) \in DOMAIN t /\ (s \o t)[i] = t[i - Len(s)]
        BY <3>2, <1>1
      <4> QED BY <4>1 DEF RefsIn
    <3> QED BY <3>1, <3>2, <1>1
  <2>2. \A i \in DOMAIN s : s[i] \in RefsIn(s \o t)
    <3> TAKE i \in DOMAIN s
    <3>1. i \in DOMAIN (s \o t) /\ (s \o t)[i] = s[i]
      BY <1>1
    <3> QED BY <3>1 DEF RefsIn
  <2>3. \A i \in DOMAIN t : t[i] \in RefsIn(s \o t)
    <3> TAKE i \in DOMAIN t
    <3>1. i + Len(s) \in DOMAIN (s \o t) /\ (s \o t)[i + Len(s)] = t[i]
      BY <1>1
    <3> QED BY <3>1 DEF RefsIn
  <2> QED BY <2>1, <2>2, <2>3, <1>1 DEF RefsIn
<1>3. ASSUME UrlsDistinct(s), UrlsDistinct(t), Urls(s) \cap Urls(t) = {}
      PROVE  UrlsDistinct(s \o t)
  <2>1. \A i, j \in 1 .. Len(s) : s[i].url = s[j].url => i = j
    BY <1>1, <1>3 DEF UrlsDistinct
  <2>2. \A i, j \in 1 .. Len(t) : t[i].url = t[j].url => i = j
    BY <1>1, <1>3 DEF UrlsDistinct
  <2>3. \A i \in 1 .. Len(s), j \in 1 .. Len(t) : s[i].url # t[j].url
    BY <1>1, <1>3 DEF Urls, UrlsOf, RefsIn
  <2> DEFINE q == s \o t
  <2>4. \A i \in 1 .. Len(s) + Len(t) :
            q[i] = IF i <= Len(s) THEN s[i] ELSE t[i - Len(s)]
    BY <1>1
  <2>5. DOMAIN q = 1 .. Len(s) + Len(t)
    BY <1>1
  <2> HIDE DEF q
  <2> SUFFICES ASSUME NEW i \in 1 .. Len(s) + Len(t), NEW j \in 1 .. Len(s) + Len(t),
                      q[i].url = q[j].url
               PROVE  i = j
    BY <2>5 DEF UrlsDistinct, q
  <2>6. CASE i <= Len(s) /\ j <= Len(s)
    BY <2>6, <2>1, <2>4, <1>1
  <2>7. CASE i <= Len(s) /\ j > Len(s)
    <3>1. q[i] = s[i] /\ q[j] = t[j - Len(s)] /\ j - Len(s) \in 1 .. Len(t)
      BY <2>7, <2>4, <1>1
    <3> QED BY <3>1, <2>7, <2>3, <1>1
  <2>8. CASE i > Len(s) /\ j <= Len(s)
    <3>1. q[j] = s[j] /\ q[i] = t[i - Len(s)] /\ i - Len(s) \in 1 .. Len(t)
      BY <2>8, <2>4, <1>1
    <3> QED BY <3>1, <2>8, <2>3, <1>1
  <2>9. CASE i > Len(s) /\ j > Len(s)
    <3>1. /\ q[i] = t[i - Len(s)] /\ i - Len(s) \in 1 .. Len(t)
          /\ q[j] = t[j - Len(s)] /\ j - Len(s) \in 1 .. Len(t)
      BY <2>9, <2>4, <1>1
    <3>2. i - Len(s) = j - Len(s)
      BY <3>1, <2>2
    <3> QED BY <3>2, <1>1
  <2> QED BY <2>6, <2>7, <2>8, <2>9, <1>1
<1> QED BY <1>1, <1>2, <1>3

-----------------------------------------------------------------------------
(* The scan: its inductive invariant                                       *)

Finite ==
  /\ IsFiniteSet(visited) /\ IsFiniteSet(inFlight)
  /\ IsFiniteSet(asked) /\ IsFiniteSet(scanned)

\* A URL waits in one place of one sequence and has not been asked for.
WaitingOnce ==
  /\ UrlsDistinct(queue) /\ UrlsDistinct(pending)
  /\ Urls(queue) \cap Urls(pending) = {}
  /\ (Urls(queue) \cup Urls(pending)) \cap asked = {}

\* A URL that was asked for is fetched or scanned under one reference.
AskedOnce ==
  /\ UrlsOf(inFlight) \subseteq asked /\ UrlsOf(scanned) \subseteq asked
  /\ UrlsOf(inFlight) \cap UrlsOf(scanned) = {}
  /\ \A r, q \in inFlight \cup scanned : r.url = q.url => r = q

\* Only what was reported is considered and visited, and a batch lasts as long as the call.
Batch ==
  /\ RefsIn(incoming) \subseteq Reported
  /\ visited \subseteq UrlsOf(Reported)
  /\ incoming = <<>> => pending = <<>>

\* Once the scan has returned nothing is left to do.
Stopped == returned => incoming = <<>> /\ queue = <<>> /\ inFlight = {}

IInv ==
  /\ TypeOK /\ Finite /\ WaitingOnce /\ AskedOnce /\ Batch
  /\ NothingForgotten /\ CapIsHonest /\ Accounting /\ Stopped

(* Limit is a positive number whatever the requested concurrency is. *)
LEMMA LimitType == Limit \in Nat \ {0}
BY BoundAssumption DEF Limit

(* What a site refers to is made of references. *)
LEMMA SiteType ==
  ASSUME site \in Sites
  PROVE  /\ site.root \in Seq(Ref)
         /\ \A r \in Ref : site.links[r] \in Seq(Ref)
BY SiteAssumption DEF Site

(* Sequences of references contain references. *)
LEMMA RefsInType ==
  ASSUME NEW s \in Seq(Ref)
  PROVE  RefsIn(s) \subseteq Ref /\ Urls(s) \subseteq Url
<1>1. \A i \in DOMAIN s : s[i] \in Ref
  BY LenProperties
<1>2. \A r \in Ref : r.url \in Url
  BY RefAssumption
<1> QED BY <1>1, <1>2 DEF RefsIn, Urls, UrlsOf

(* The empty sequence refers to nothing. *)
LEMMA EmptyRefs == RefsIn(<<>>) = {} /\ Urls(<<>>) = {} /\ UrlsDistinct(<<>>)
BY DEF RefsIn, Urls, UrlsOf, UrlsDistinct

(* The scan starts in the invariant. *)
LEMMA InitIInv == Init => IInv
<1> SUFFICES ASSUME Init PROVE IInv
  OBVIOUS
<1> USE DEF Init
<1>1. TypeOK
  <2>1. Cardinality(visited) <= MaxAssets /\ Cardinality(inFlight) <= Limit
    BY FS_EmptySet, LimitType, BoundAssumption
  <2>2. site.root \in Seq(Ref) /\ <<>> \in Seq(Ref)
    BY SiteType, EmptySeq
  <2>3. lowSignal \in 0 .. MaxLowSignal
    BY BoundAssumption
  <2>4. site \in Sites /\ incoming \in Seq(Ref) /\ pending \in Seq(Ref) /\ queue \in Seq(Ref)
    BY <2>2
  <2>5. visited \in SUBSET Url /\ inFlight \in SUBSET Ref /\ asked \in SUBSET Url
        /\ scanned \in SUBSET Ref
    OBVIOUS
  <2>6. failed \in Nat /\ unauthorized \in Nat /\ unauthorized <= failed /\ discovered \in Nat
    OBVIOUS
  <2>7. capped \in BOOLEAN /\ returned \in BOOLEAN
    OBVIOUS
  <2> QED BY <2>1, <2>3, <2>4, <2>5, <2>6, <2>7 DEF TypeOK
<1>2. Finite
  BY FS_EmptySet DEF Finite
<1>3. WaitingOnce
  BY EmptyRefs DEF WaitingOnce
<1>4. AskedOnce
  BY DEF AskedOnce, UrlsOf
<1>5. Batch
  BY DEF Batch, Reported, UrlsOf
<1>6. NothingForgotten
  BY DEF NothingForgotten, Reported
<1>7. CapIsHonest
  BY DEF CapIsHonest
<1>8. Accounting
  BY FS_EmptySet, EmptyRefs DEF Accounting, Admitted
<1>9. Stopped
  BY DEF Stopped
<1> QED BY <1>1, <1>2, <1>3, <1>4, <1>5, <1>6, <1>7, <1>8, <1>9 DEF IInv

(* What looking at one reference does to the URLs that wait. *)
LEMMA EnqueueWaiting ==
  ASSUME IInv, Enqueue
  PROVE  LET r == Head(incoming)
             accepted == Fresh(r) /\ ~SkipLowSignal(r)
         IN  /\ queue' \in Seq(Ref) /\ pending' \in Seq(Ref)
             /\ UrlsDistinct(queue') /\ UrlsDistinct(pending')
             /\ Urls(queue') \cup Urls(pending')
                  = Urls(queue) \cup Urls(pending) \cup (IF accepted THEN {r.url} ELSE {})
             /\ Urls(queue') \cap Urls(pending') = {}
             /\ Tail(incoming) = <<>> => pending' = <<>>
<1> DEFINE r == Head(incoming)
           accepted == Fresh(r) /\ ~SkipLowSignal(r)
           batch == IF accepted THEN InsertByPriority(pending, r) ELSE pending
           last == Len(incoming) = 1
<1>1. /\ incoming # <<>>
      /\ capped' = (capped \/ CapNotice(r))
      /\ visited' = IF Fresh(r) THEN visited \cup {r.url} ELSE visited
      /\ lowSignal' = IF accepted /\ IsLowSignal(r) THEN lowSignal + 1 ELSE lowSignal
      /\ queue' = IF last THEN queue \o batch ELSE queue
      /\ pending' = IF last THEN <<>> ELSE batch
      /\ incoming' = Tail(incoming)
      /\ UNCHANGED <<site, inFlight, asked, scanned, failed, unauthorized,
                     discovered, returned>>
  BY DEF Enqueue
<1>2. /\ TypeOK /\ Finite /\ WaitingOnce /\ AskedOnce /\ Batch
      /\ NothingForgotten /\ CapIsHonest /\ Accounting /\ Stopped
  BY DEF IInv
<1>3. /\ r \in Ref /\ Tail(incoming) \in Seq(Ref)
      /\ RefsIn(incoming) = RefsIn(Tail(incoming)) \cup {r}
      /\ last <=> Tail(incoming) = <<>>
  BY <1>1, <1>2, TailLemma DEF TypeOK
<1>4. r.url \in Url
  BY <1>3, RefAssumption
<1>5. accepted => r.url \notin visited
  BY DEF Fresh
<1>6. Urls(queue) \subseteq visited /\ Urls(pending) \subseteq visited /\ asked \subseteq visited
  BY <1>2 DEF Accounting, Admitted
<1>7. /\ batch \in Seq(Ref)
      /\ RefsIn(batch) = IF accepted THEN RefsIn(pending) \cup {r} ELSE RefsIn(pending)
      /\ UrlsDistinct(batch)
  <2>1. pending \in Seq(Ref) /\ UrlsDistinct(pending)
    BY <1>2 DEF TypeOK, WaitingOnce
  <2>2. CASE accepted
    BY <2>1, <2>2, <1>3, <1>5, <1>6, InsertLemma
  <2>3. CASE ~accepted
    BY <2>1, <2>3
  <2> QED BY <2>2, <2>3
<1>8. Urls(batch) = IF accepted THEN Urls(pending) \cup {r.url} ELSE Urls(pending)
  BY <1>7 DEF Urls, UrlsOf
<1>9. Urls(queue) \cap Urls(batch) = {} /\ (Urls(queue) \cup Urls(batch)) \cap asked = {}
  BY <1>8, <1>5, <1>6, <1>2 DEF WaitingOnce
<1>10. /\ queue' \in Seq(Ref) /\ pending' \in Seq(Ref)
       /\ UrlsDistinct(queue') /\ UrlsDistinct(pending')
       /\ Urls(queue') \cup Urls(pending') = Urls(queue) \cup Urls(batch)
       /\ Urls(queue') \cap Urls(pending') = {}
  <2>1. queue \in Seq(Ref) /\ UrlsDistinct(queue)
    BY <1>2 DEF TypeOK, WaitingOnce
  <2>2. CASE last
    <3>1. queue' = queue \o batch /\ pending' = <<>>
      BY <2>2, <1>1
    <3>2. /\ queue \o batch \in Seq(Ref) /\ UrlsDistinct(queue \o batch)
          /\ RefsIn(queue \o batch) = RefsIn(queue) \cup RefsIn(batch)
      BY <2>1, <1>7, <1>9, ConcatLemma
    <3>3. Urls(queue \o batch) = Urls(queue) \cup Urls(batch)
      BY <3>2 DEF Urls, UrlsOf
    <3> HIDE DEF batch, last
    <3> QED BY <3>1, <3>2, <3>3, EmptyRefs, EmptySeq
  <2>3. CASE ~last
    <3>1. queue' = queue /\ pending' = batch
      BY <2>3, <1>1
    <3> HIDE DEF batch, last
    <3> QED BY <3>1, <2>1, <1>7, <1>9
  <2> QED BY <2>2, <2>3
<1>11. Tail(incoming) = <<>> => pending' = <<>>
  BY <1>1, <1>3
<1>12. Urls(queue') \cup Urls(pending')
         = Urls(queue) \cup Urls(pending) \cup (IF accepted THEN {r.url} ELSE {})
  <2> HIDE DEF r, batch, accepted
  <2> QED BY <1>8, <1>10
<1> HIDE DEF batch, last
<1> QED BY <1>10, <1>11, <1>12

(* Looking at one reference keeps the invariant. *)
LEMMA EnqueueIInv == IInv /\ Enqueue => IInv'
<1> SUFFICES ASSUME IInv, Enqueue PROVE IInv'
  OBVIOUS
<1> DEFINE r == Head(incoming)
           accepted == Fresh(r) /\ ~SkipLowSignal(r)
<1>1. /\ incoming # <<>>
      /\ capped' = (capped \/ CapNotice(r))
      /\ visited' = IF Fresh(r) THEN visited \cup {r.url} ELSE visited
      /\ lowSignal' = IF accepted /\ IsLowSignal(r) THEN lowSignal + 1 ELSE lowSignal
      /\ incoming' = Tail(incoming)
      /\ UNCHANGED <<site, inFlight, asked, scanned, failed, unauthorized,
                     discovered, returned>>
  BY DEF Enqueue
<1>2. /\ TypeOK /\ Finite /\ WaitingOnce /\ AskedOnce /\ Batch
      /\ NothingForgotten /\ CapIsHonest /\ Accounting /\ Stopped
  BY DEF IInv
<1>3. /\ r \in Ref /\ Tail(incoming) \in Seq(Ref)
      /\ RefsIn(incoming) = RefsIn(Tail(incoming)) \cup {r}
  BY <1>1, <1>2, TailLemma DEF TypeOK
<1>4. r.url \in Url
  BY <1>3, RefAssumption
<1>6. asked \subseteq visited
  BY <1>2 DEF Accounting, Admitted
<1>10. /\ queue' \in Seq(Ref) /\ pending' \in Seq(Ref)
       /\ UrlsDistinct(queue') /\ UrlsDistinct(pending')
       /\ Urls(queue') \cup Urls(pending')
            = Urls(queue) \cup Urls(pending) \cup (IF accepted THEN {r.url} ELSE {})
       /\ Urls(queue') \cap Urls(pending') = {}
       /\ Tail(incoming) = <<>> => pending' = <<>>
  BY EnqueueWaiting
<1>11. Reported' = Reported
  BY <1>1 DEF Reported
<1>12. r \in Reported
  BY <1>3, <1>2 DEF Batch
<1>13. /\ Cardinality(visited) \in Nat /\ Cardinality(visited) <= MaxAssets
       /\ IsFiniteSet(visited') /\ Cardinality(visited') <= MaxAssets
       /\ AtCap => Cardinality(visited) = MaxAssets
  <2>1. IsFiniteSet(visited) /\ Cardinality(visited) <= MaxAssets
    BY <1>2 DEF Finite, TypeOK
  <2>2. Cardinality(visited) \in Nat
    BY <2>1, FS_CardinalityType
  <2>3. CASE Fresh(r)
    <3>1. Cardinality(visited) < MaxAssets
      BY <2>3, <2>2, BoundAssumption DEF Fresh, AtCap
    <3>2. /\ IsFiniteSet(visited \cup {r.url})
          /\ Cardinality(visited \cup {r.url}) <= Cardinality(visited) + 1
      BY <2>1, <2>2, FS_AddElement
    <3>3. visited' = visited \cup {r.url}
      BY <2>3, <1>1
    <3>4. Cardinality(visited') \in Nat
      BY <3>2, <3>3, FS_CardinalityType
    <3> QED BY <3>1, <3>2, <3>3, <3>4, <2>1, <2>2, BoundAssumption DEF AtCap
  <2>4. CASE ~Fresh(r)
    BY <2>4, <2>1, <2>2, <1>1, BoundAssumption DEF AtCap
  <2> QED BY <2>3, <2>4
<1>14. TypeOK'
  <2>1. incoming' \in Seq(Ref) /\ queue' \in Seq(Ref) /\ pending' \in Seq(Ref)
    BY <1>1, <1>3, <1>10
  <2>2. visited' \in SUBSET Url /\ Cardinality(visited') <= MaxAssets
    BY <1>13, <1>1, <1>2, <1>4 DEF TypeOK
  <2>3. lowSignal' \in 0 .. MaxLowSignal
    BY <1>1, <1>2, BoundAssumption DEF TypeOK, SkipLowSignal
  <2>4. capped' \in BOOLEAN
    BY <1>1, <1>2, Zenon DEF TypeOK, CapNotice
  <2> HIDE DEF r, accepted
  <2> QED BY <2>1, <2>2, <2>3, <2>4, <1>1, <1>2 DEF TypeOK, Limit
<1>15. Finite'
  BY <1>13, <1>1, <1>2 DEF Finite
<1>16. WaitingOnce'
  <2>1. accepted => r.url \notin asked
    BY <1>6 DEF Fresh
  <2>2. (Urls(queue') \cup Urls(pending')) \cap asked = {}
    BY <2>1, <1>2, <1>10 DEF WaitingOnce
  <2> QED BY <2>2, <1>1, <1>10 DEF WaitingOnce
<1>17. AskedOnce'
  BY <1>1, <1>2 DEF AskedOnce
<1>18. Batch'
  <2>1. RefsIn(incoming') \subseteq Reported'
    BY <1>1, <1>2, <1>3, <1>11 DEF Batch
  <2>2. incoming' = <<>> => pending' = <<>>
    BY <1>1, <1>10
  <2>3. visited' \subseteq UrlsOf(Reported')
    BY <1>1, <1>2, <1>11, <1>12 DEF Batch, UrlsOf
  <2> QED BY <2>1, <2>2, <2>3 DEF Batch, UrlsOf
<1>19. visited \subseteq visited' /\ (r.url \in visited' \/ capped')
  BY <1>1 DEF Fresh, CapNotice
<1>20. NothingForgotten'
  <2>1. ASSUME NEW q \in Reported
        PROVE  q.url \in visited' \/ q \in RefsIn(incoming') \/ capped'
    BY <1>1, <1>2, <1>3, <1>19 DEF NothingForgotten
  <2> QED BY <2>1, <1>11 DEF NothingForgotten
<1>21. CapIsHonest'
  <2>1. CASE CapNotice(r)
    <3>1. AtCap /\ r.url \notin visited /\ visited' = visited
      BY <2>1, <1>1 DEF CapNotice, Fresh
    <3> QED BY <3>1, <1>11, <1>12, <1>13 DEF CapIsHonest
  <2>2. CASE ~CapNotice(r)
    <3>1. capped' = capped
      BY <2>2, <1>1, <1>2 DEF TypeOK
    <3>2. capped => AtCap
      BY <1>2, <1>13, BoundAssumption DEF CapIsHonest, AtCap
    <3>3. capped => visited' = visited
      BY <3>2, <1>1 DEF Fresh
    <3> QED BY <3>1, <3>3, <1>2, <1>11 DEF CapIsHonest
  <2> QED BY <2>1, <2>2
<1>22. Accounting'
  <2>1. Admitted' = Admitted \cup (IF accepted THEN {r.url} ELSE {})
    BY <1>10, <1>1 DEF Admitted
  <2>2. Admitted' \subseteq visited'
    BY <2>1, <1>1, <1>2 DEF Accounting
  <2>3. ASSUME NEW u \in visited', u \notin Admitted'
        PROVE  /\ lowSignal' = MaxLowSignal
               /\ \E q \in Reported : q.url = u /\ IsLowSignal(q)
    <3>1. CASE u \in visited
      <4>1. u \notin Admitted
        BY <2>1, <2>3
      <4>2. lowSignal = MaxLowSignal /\ \E q \in Reported : q.url = u /\ IsLowSignal(q)
        BY <4>1, <3>1, <1>2 DEF Accounting
      <4>3. ~(accepted /\ IsLowSignal(r))
        BY <4>2, BoundAssumption DEF SkipLowSignal
      <4> QED BY <4>2, <4>3, <1>1
    <3>2. CASE u \notin visited
      <4>1. u = r.url /\ Fresh(r) /\ ~accepted
        BY <3>2, <2>1, <2>3, <1>1
      <4>2. IsLowSignal(r) /\ lowSignal >= MaxLowSignal
        BY <4>1 DEF SkipLowSignal
      <4>3. lowSignal' = MaxLowSignal
        BY <4>1, <4>2, <1>1, <1>2, BoundAssumption DEF TypeOK
      <4> QED BY <4>1, <4>2, <4>3, <1>12
    <3> QED BY <3>1, <3>2
  <2> HIDE DEF accepted, r
  <2> QED BY <2>2, <2>3, <1>1, <1>2, <1>11 DEF Accounting, IsLowSignal
<1>23. Stopped'
  BY <1>1, <1>2 DEF Stopped
<1> QED BY <1>14, <1>15, <1>16, <1>17, <1>18, <1>20, <1>21, <1>22, <1>23 DEF IInv

(* Starting the fetch at the front of the queue keeps the invariant. *)
LEMMA StartFetchIInv == IInv /\ StartFetch => IInv'
<1> SUFFICES ASSUME IInv, StartFetch PROVE IInv'
  OBVIOUS
<1> DEFINE r == Head(queue)
<1>1. /\ incoming = <<>> /\ HasRoom /\ queue # <<>>
      /\ queue' = Tail(queue)
      /\ inFlight' = inFlight \cup {r}
      /\ asked' = asked \cup {r.url}
      /\ UNCHANGED <<site, incoming, pending, visited, lowSignal, scanned,
                     failed, unauthorized, capped, discovered, returned>>
  BY DEF StartFetch, stats
<1>2. /\ TypeOK /\ Finite /\ WaitingOnce /\ AskedOnce /\ Batch
      /\ NothingForgotten /\ CapIsHonest /\ Accounting /\ Stopped
  BY DEF IInv
<1>3. /\ r \in Ref /\ Tail(queue) \in Seq(Ref)
      /\ RefsIn(queue) = RefsIn(Tail(queue)) \cup {r}
      /\ UrlsDistinct(Tail(queue)) /\ r.url \notin Urls(Tail(queue))
  BY <1>1, <1>2, TailLemma DEF TypeOK, WaitingOnce
<1>4. Urls(queue) = Urls(Tail(queue)) \cup {r.url}
  BY <1>3 DEF Urls, UrlsOf
<1>5. r.url \in Url /\ r.url \in Urls(queue)
  BY <1>3, <1>4, RefAssumption
<1>6. r.url \notin asked
  BY <1>5, <1>2 DEF WaitingOnce
<1>7. r \notin inFlight /\ r.url \notin UrlsOf(inFlight) /\ r.url \notin UrlsOf(scanned)
  BY <1>6, <1>2 DEF AskedOnce, UrlsOf
<1>8. /\ Cardinality(inFlight') = Cardinality(inFlight) + 1
      /\ Cardinality(asked') = Cardinality(asked) + 1
      /\ IsFiniteSet(inFlight') /\ IsFiniteSet(asked')
      /\ Cardinality(inFlight) \in Nat /\ Cardinality(asked) \in Nat
      /\ Cardinality(scanned) \in Nat
  BY <1>1, <1>2, <1>6, <1>7, FS_AddElement, FS_CardinalityType DEF Finite
<1>9. Reported' = Reported /\ Admitted' = Admitted
  <2>1. Reported' = Reported
    BY <1>1 DEF Reported
  <2>2. Urls(queue') = Urls(Tail(queue)) /\ Urls(pending') = Urls(pending)
    BY <1>1
  <2> HIDE DEF r
  <2> QED BY <2>1, <2>2, <1>1, <1>4 DEF Admitted
<1>10. TypeOK'
  <2>1. Cardinality(inFlight') <= Limit
    BY <1>1, <1>8, LimitType DEF HasRoom
  <2> HIDE DEF r
  <2> QED BY <2>1, <1>1, <1>2, <1>3, <1>5 DEF TypeOK, Limit
<1>11. Finite'
  BY <1>8, <1>1, <1>2 DEF Finite
<1>12. WaitingOnce'
  <2>1. Urls(queue') \cap Urls(pending') = {}
    BY <1>1, <1>2, <1>4 DEF WaitingOnce
  <2>2. r.url \notin Urls(pending)
    BY <1>5, <1>2 DEF WaitingOnce
  <2> HIDE DEF r
  <2> QED BY <2>1, <2>2, <1>1, <1>2, <1>3, <1>4 DEF WaitingOnce
<1>13. AskedOnce'
  <2>1. UrlsOf(inFlight') = UrlsOf(inFlight) \cup {r.url}
    BY <1>1 DEF UrlsOf
  <2>2. \A p, q \in inFlight' \cup scanned' : p.url = q.url => p = q
    BY <1>1, <1>2, <1>7 DEF AskedOnce, UrlsOf
  <2> HIDE DEF r
  <2> QED BY <2>1, <2>2, <1>1, <1>2, <1>7 DEF AskedOnce
<1>14. Batch'
  BY <1>1, <1>2, <1>9 DEF Batch, UrlsOf
<1>15. NothingForgotten'
  BY <1>1, <1>2, <1>9 DEF NothingForgotten
<1>16. CapIsHonest'
  BY <1>1, <1>2, <1>9 DEF CapIsHonest
<1>17. Accounting'
  <2>1. failed \in Nat
    BY <1>2 DEF TypeOK
  <2>2. Cardinality(asked') = Cardinality(inFlight') + Cardinality(scanned') + failed'
    <3>1. Cardinality(asked) = Cardinality(inFlight) + Cardinality(scanned) + failed
      BY <1>2 DEF Accounting
    <3>2. scanned' = scanned /\ failed' = failed
      BY <1>1
    <3> QED BY <3>1, <3>2, <2>1, <1>8
  <2> QED BY <2>2, <1>1, <1>2, <1>9 DEF Accounting, IsLowSignal
<1>18. Stopped'
  BY <1>1, <1>2 DEF Stopped
<1> QED BY <1>10, <1>11, <1>12, <1>13, <1>14, <1>15, <1>16, <1>17, <1>18 DEF IInv

(* Finishing a fetch, whichever one, keeps the invariant. *)
LEMMA ResolveIInv ==
  ASSUME NEW r \in Ref, IInv, Resolve(r)
  PROVE  IInv'
<1>1. /\ TypeOK /\ Finite /\ WaitingOnce /\ AskedOnce /\ Batch
      /\ NothingForgotten /\ CapIsHonest /\ Accounting /\ Stopped
  BY DEF IInv
<1>2. /\ incoming = <<>> /\ pending = <<>> /\ r \in inFlight
      /\ inFlight' = inFlight \ {r}
      /\ UNCHANGED <<site, pending, visited, queue, lowSignal, asked, capped,
                     discovered, returned>>
  BY <1>1 DEF Resolve, FetchOk, FetchErr, Awaiting, stats, Batch
<1>3. /\ \/ /\ scanned' = scanned \cup {r} /\ incoming' = site.links[r]
            /\ failed' = failed /\ unauthorized' = unauthorized
         \/ /\ scanned' = scanned /\ incoming' = incoming
            /\ failed' = failed + 1
            /\ unauthorized' \in {unauthorized, unauthorized + 1}
  BY DEF Resolve, FetchOk, FetchErr, stats
<1>4. r.url \notin UrlsOf(scanned) /\ r \notin scanned /\ r.url \in asked
  BY <1>1, <1>2 DEF AskedOnce, UrlsOf
<1>5. /\ Cardinality(inFlight') = Cardinality(inFlight) - 1
      /\ IsFiniteSet(inFlight') /\ Cardinality(inFlight) \in Nat
      /\ IsFiniteSet(scanned) /\ Cardinality(scanned) \in Nat
      /\ IsFiniteSet(scanned \cup {r})
      /\ Cardinality(scanned \cup {r}) = Cardinality(scanned) + 1
  BY <1>1, <1>2, <1>4, FS_AddElement, FS_RemoveElement, FS_CardinalityType DEF Finite
<1>6. Reported \subseteq Reported'
      /\ Reported' = IF scanned' = scanned THEN Reported ELSE Reported \cup RefsIn(incoming')
  <2>1. CASE scanned' = scanned
    BY <2>1, <1>2 DEF Reported
  <2>2. CASE scanned' = scanned \cup {r} /\ incoming' = site.links[r] /\ scanned' # scanned
    BY <2>2, <1>2 DEF Reported
  <2> QED BY <2>1, <2>2, <1>3
<1>7. Admitted' = Admitted
  BY <1>2 DEF Admitted
<1>8. TypeOK'
  <2>1. incoming' \in Seq(Ref)
    BY <1>1, <1>3, SiteType DEF TypeOK
  <2>2. Cardinality(inFlight') <= Limit
    BY <1>1, <1>5, LimitType DEF TypeOK
  <2>3. failed' \in Nat /\ unauthorized' \in Nat /\ unauthorized' <= failed'
    BY <1>1, <1>3 DEF TypeOK
  <2>4. scanned' \in SUBSET Ref /\ inFlight' \in SUBSET Ref
    BY <1>1, <1>2, <1>3 DEF TypeOK
  <2> QED BY <2>1, <2>2, <2>3, <2>4, <1>1, <1>2 DEF TypeOK, Limit
<1>9. Finite'
  BY <1>1, <1>2, <1>3, <1>5 DEF Finite
<1>10. WaitingOnce'
  BY <1>1, <1>2 DEF WaitingOnce
<1>11. AskedOnce'
  <2>1. UrlsOf(inFlight') \subseteq UrlsOf(inFlight) /\ r.url \notin UrlsOf(inFlight')
    BY <1>1, <1>2 DEF AskedOnce, UrlsOf
  <2>2. UrlsOf(scanned') \subseteq UrlsOf(scanned) \cup {r.url}
    BY <1>3 DEF UrlsOf
  <2>3. inFlight' \cup scanned' \subseteq inFlight \cup scanned
    BY <1>2, <1>3
  <2> QED BY <2>1, <2>2, <2>3, <1>1, <1>2, <1>4 DEF AskedOnce
<1>12. Batch'
  <2>1. RefsIn(incoming') \subseteq Reported'
    <3>1. CASE incoming' = incoming
      BY <3>1, <1>1, <1>6 DEF Batch
    <3>2. CASE incoming' = site.links[r] /\ scanned' = scanned \cup {r}
      BY <3>2, <1>2 DEF Reported
    <3> QED BY <3>1, <3>2, <1>3
  <2>2. visited' \subseteq UrlsOf(Reported')
    BY <1>1, <1>2, <1>6 DEF Batch, UrlsOf
  <2> QED BY <2>1, <2>2, <1>2 DEF Batch, UrlsOf
<1>13. NothingForgotten'
  <2>1. \A q \in Reported : q.url \in visited \/ capped
    BY <1>1, <1>2, EmptyRefs DEF NothingForgotten
  <2> QED BY <2>1, <1>2, <1>6 DEF NothingForgotten
<1>14. CapIsHonest'
  BY <1>1, <1>2, <1>6 DEF CapIsHonest
<1>15. Accounting'
  <2>1. Cardinality(asked') = Cardinality(inFlight') + Cardinality(scanned') + failed'
    <3>1. /\ Cardinality(asked) = Cardinality(inFlight) + Cardinality(scanned) + failed
          /\ failed \in Nat
      BY <1>1 DEF Accounting, TypeOK
    <3>2. asked' = asked
      BY <1>2
    <3>3. CASE scanned' = scanned \cup {r} /\ failed' = failed
      <4>1. Cardinality(scanned') = Cardinality(scanned) + 1
        BY <3>3, <1>5
      <4> QED BY <4>1, <3>1, <3>2, <3>3, <1>5
    <3>4. CASE scanned' = scanned /\ failed' = failed + 1
      <4>1. Cardinality(scanned') = Cardinality(scanned)
        BY <3>4
      <4> QED BY <4>1, <3>1, <3>2, <3>4, <1>5
    <3> QED BY <3>3, <3>4, <1>3
  <2>2. ASSUME NEW u \in visited', u \notin Admitted'
        PROVE  /\ lowSignal' = MaxLowSignal
               /\ \E q \in Reported' : q.url = u /\ IsLowSignal(q)
    BY <2>2, <1>1, <1>2, <1>6, <1>7 DEF Accounting
  <2> QED BY <2>1, <2>2, <1>1, <1>2, <1>7 DEF Accounting, IsLowSignal
<1>16. Stopped'
  BY <1>1, <1>2 DEF Stopped
<1> QED BY <1>8, <1>9, <1>10, <1>11, <1>12, <1>13, <1>14, <1>15, <1>16 DEF IInv

(* Returning changes no more than the count that is reported. *)
LEMMA ReturnIInv == IInv /\ Return => IInv'
<1> SUFFICES ASSUME IInv, Return PROVE IInv'
  OBVIOUS
<1>1. /\ UNCHANGED <<site, incoming, pending, visited, queue, lowSignal, inFlight,
                     asked, scanned, failed, unauthorized, capped>>
      /\ discovered' = Cardinality(visited) /\ returned' = TRUE
  BY DEF Return
<1>2. TypeOK'
  BY <1>1, FS_CardinalityType DEF IInv, TypeOK, Finite, Limit
<1>3. /\ Finite' /\ WaitingOnce' /\ AskedOnce' /\ Batch'
      /\ NothingForgotten' /\ CapIsHonest' /\ Accounting'
  BY <1>1 DEF IInv, Finite, WaitingOnce, AskedOnce, Batch, NothingForgotten,
     CapIsHonest, Accounting, Reported, Admitted, IsLowSignal
<1>4. Stopped'
  <2>1. incoming = <<>> /\ inFlight = {} /\ (~HasRoom \/ queue = <<>>)
    BY DEF Return, Drained, Awaiting
  <2>2. HasRoom
    BY <2>1, FS_EmptySet, LimitType DEF HasRoom
  <2> QED BY <2>1, <2>2, <1>1 DEF Stopped
<1> QED BY <1>2, <1>3, <1>4 DEF IInv

(* No step leaves the invariant. *)
LEMMA NextIInv == IInv /\ [Next]_vars => IInv'
<1> SUFFICES ASSUME IInv, [Next]_vars PROVE IInv'
  OBVIOUS
<1>1. CASE Enqueue
  BY <1>1, EnqueueIInv
<1>2. CASE StartFetch
  BY <1>2, StartFetchIInv
<1>3. CASE Return
  BY <1>3, ReturnIInv
<1>4. ASSUME NEW r \in Ref, Resolve(r) PROVE IInv'
  BY <1>4, ResolveIInv
<1>5. CASE UNCHANGED vars
  BY <1>5 DEF vars, stats, IInv, TypeOK, Limit, Finite, WaitingOnce, AskedOnce,
     Batch, NothingForgotten, CapIsHonest, Accounting, Stopped, Reported, Admitted, IsLowSignal
<1> QED BY <1>1, <1>2, <1>3, <1>4, <1>5 DEF Next, Loop

(* The invariant holds throughout every scan. *)
LEMMA SpecIInv == Spec => []IInv
BY InitIInv, NextIInv, PTL DEF Spec

-----------------------------------------------------------------------------
(* The scan: theorems                                                      *)

(* The scan never holds more fetches than its concurrency, visits more     *)
(* URLs than the cap or queues more low-signal assets than their budget.   *)
THEOREM ScanTypeOK == Spec => []TypeOK
<1>1. IInv => TypeOK
  BY DEF IInv
<1> QED BY <1>1, SpecIInv, PTL

(* No reference of the root document or of a scanned asset is lost.        *)
THEOREM ScanForgetsNothing == Spec => []NothingForgotten
<1>1. IInv => NothingForgotten
  BY DEF IInv
<1> QED BY <1>1, SpecIInv, PTL

(* The cap warning is never a false alarm.                                 *)
THEOREM ScanCapIsHonest == Spec => []CapIsHonest
<1>1. IInv => CapIsHonest
  BY DEF IInv
<1> QED BY <1>1, SpecIInv, PTL

(* The statistics of a scan add up.                                        *)
THEOREM ScanAccounting == Spec => []Accounting
<1>1. IInv => Accounting
  BY DEF IInv
<1> QED BY <1>1, SpecIInv, PTL

(* References with distinct URLs have as many URLs.                        *)
LEMMA UrlCount ==
  ASSUME NEW S \in SUBSET Ref, IsFiniteSet(S),
         \A r, q \in S : r.url = q.url => r = q
  PROVE  IsFiniteSet(UrlsOf(S)) /\ Cardinality(UrlsOf(S)) = Cardinality(S)
<1> DEFINE f == [r \in S |-> r.url]
<1>1. f \in Bijection(S, UrlsOf(S))
  <2>1. f \in [S -> UrlsOf(S)]
    BY DEF UrlsOf
  <2>2. \A r, q \in S : f[r] = f[q] => r = q
    OBVIOUS
  <2>3. \A u \in UrlsOf(S) : \E r \in S : f[r] = u
    BY DEF UrlsOf
  <2> HIDE DEF f
  <2>4. IsInjective(f)
    BY <2>1, <2>2 DEF IsInjective
  <2> QED BY <2>1, <2>3, <2>4 DEF Bijection, Injection, Surjection
<1> QED BY <1>1, FS_Bijection DEF ExistsBijection

(* A scan that gives no warning and stays within the low-signal budget has *)
(* scanned exactly what the root and the scanned assets refer to.          *)
THEOREM ScanQuietIsComplete == Spec => []QuietScanIsComplete
<1>1. IInv => QuietScanIsComplete
  <2> SUFFICES ASSUME IInv, returned, ~capped, failed = 0, lowSignal < MaxLowSignal
               PROVE  UrlsOf(Reported) = UrlsOf(scanned)
    BY DEF QuietScanIsComplete
  <2>1. incoming = <<>> /\ queue = <<>> /\ pending = <<>> /\ inFlight = {}
    BY DEF IInv, Stopped, Batch
  <2>2. visited = asked
    <3>1. Admitted = asked
      BY <2>1, EmptyRefs DEF Admitted
    <3>2. lowSignal # MaxLowSignal
      BY BoundAssumption DEF IInv, TypeOK
    <3> QED BY <3>1, <3>2 DEF IInv, Accounting
  <2>3. Cardinality(asked) = Cardinality(scanned)
    BY <2>1, FS_EmptySet, FS_CardinalityType DEF IInv, Accounting, Finite
  <2>4. Cardinality(UrlsOf(scanned)) = Cardinality(scanned)
    BY UrlCount DEF IInv, Finite, TypeOK, AskedOnce
  <2>5. UrlsOf(scanned) = asked
    BY <2>3, <2>4, FS_Subset DEF IInv, Finite, AskedOnce
  <2>6. UrlsOf(Reported) \subseteq visited
    BY <2>1, EmptyRefs DEF IInv, NothingForgotten, UrlsOf
  <2>7. visited \subseteq UrlsOf(Reported)
    BY DEF IInv, Batch
  <2> QED BY <2>2, <2>5, <2>6, <2>7
<1> QED BY <1>1, SpecIInv, PTL

(* No asset is fetched twice in a scan.                                    *)
THEOREM ScanFetchesOnce == Spec => FetchedOnce
<1>1. IInv /\ [Next]_vars => [\A r \in inFlight' \ inFlight : r.url \notin asked]_vars
  <2> SUFFICES ASSUME IInv, Next, NEW r \in inFlight' \ inFlight
               PROVE  r.url \notin asked
    OBVIOUS
  <2>1. CASE StartFetch
    <3>1. r = Head(queue)
      BY <2>1 DEF StartFetch
    <3>2. r \in RefsIn(queue)
      BY <2>1, <3>1, TailLemma DEF StartFetch, IInv, TypeOK
    <3>3. r.url \in Urls(queue)
      BY <3>2 DEF Urls, UrlsOf
    <3> QED BY <3>3 DEF IInv, WaitingOnce
  <2>2. CASE Enqueue \/ Return
    BY <2>2 DEF Enqueue, Return
  <2>3. ASSUME NEW q \in Ref, Resolve(q) PROVE FALSE
    BY <2>3 DEF Resolve, FetchOk, FetchErr
  <2> QED BY <2>1, <2>2, <2>3 DEF Next, Loop
<1> QED BY <1>1, SpecIInv, PTL DEF Spec, FetchedOnce

-----------------------------------------------------------------------------
(* The scan implements the abstract crawl                                  *)

(* The abstract crawl counts the way the scan does. *)
LEMMA SameCardinality == \A S : C!Cardinality(S) = Cardinality(S)
BY DEF C!Cardinality, Cardinality

(* Looking at a reference finds its URL or does nothing. *)
LEMMA EnqueueRefines ==
  ASSUME IInv, Enqueue
  PROVE  (\E u \in Url : C!Find(u)) \/ UNCHANGED C!vars
<1> DEFINE r == Head(incoming)
           accepted == Fresh(r) /\ ~SkipLowSignal(r)
           waiting == Urls(queue) \cup Urls(pending)
<1>1. r \in Ref /\ r.url \in Url
  BY TailLemma, RefAssumption DEF IInv, TypeOK, Enqueue
<1>2. /\ visited' = IF Fresh(r) THEN visited \cup {r.url} ELSE visited
      /\ inFlight' = inFlight
  BY DEF Enqueue
<1>3. waiting' = waiting \cup (IF accepted THEN {r.url} ELSE {})
  BY EnqueueWaiting
<1>4. UrlsOf(inFlight') = UrlsOf(inFlight)
  BY <1>2
<1>5. CASE Fresh(r)
  <2>1. r.url \notin visited /\ Cardinality(visited) < MaxAssets
    <3>1. Cardinality(visited) \in Nat
      BY FS_CardinalityType DEF IInv, Finite
    <3> QED BY <3>1, <1>5, BoundAssumption DEF Fresh, AtCap
  <2>2. waiting' \in {waiting, waiting \cup {r.url}}
    BY <1>3
  <2> HIDE DEF accepted
  <2>3. C!Find(r.url)
    BY <2>1, <2>2, <1>2, <1>4, <1>5, SameCardinality DEF C!Find
  <2> QED BY <2>3, <1>1
<1>6. CASE ~Fresh(r)
  <2>1. waiting' = waiting
    BY <1>3, <1>6
  <2> QED BY <2>1, <1>2, <1>4, <1>6 DEF C!vars, UrlsOf
<1> QED BY <1>5, <1>6

(* Starting a fetch moves one URL from the waiting to the busy ones. *)
LEMMA StartFetchRefines ==
  ASSUME IInv, StartFetch
  PROVE  \E u \in Url : C!Start(u)
<1> DEFINE r == Head(queue)
           waiting == Urls(queue) \cup Urls(pending)
<1>1. /\ HasRoom /\ queue' = Tail(queue) /\ inFlight' = inFlight \cup {r}
      /\ pending' = pending /\ visited' = visited /\ queue # <<>>
  BY DEF StartFetch
<1>2. /\ r \in Ref /\ RefsIn(queue) = RefsIn(Tail(queue)) \cup {r}
      /\ r.url \notin Urls(Tail(queue))
  BY <1>1, TailLemma DEF IInv, TypeOK, WaitingOnce
<1>3. r.url \in Url /\ r.url \in Urls(queue) /\ Urls(Tail(queue)) = Urls(queue) \ {r.url}
  BY <1>2, RefAssumption DEF Urls, UrlsOf
<1>4. r.url \notin Urls(pending)
  BY <1>3 DEF IInv, WaitingOnce
<1>5. waiting' = waiting \ {r.url}
  <2>1. Urls(queue') = Urls(Tail(queue)) /\ Urls(pending') = Urls(pending)
    BY <1>1
  <2> HIDE DEF r
  <2> QED BY <2>1, <1>3, <1>4
<1>6. UrlsOf(inFlight') = UrlsOf(inFlight) \cup {r.url}
  BY <1>1 DEF UrlsOf
<1>7. Cardinality(UrlsOf(inFlight)) < Limit
  <2>1. Cardinality(UrlsOf(inFlight)) = Cardinality(inFlight)
    BY UrlCount DEF IInv, Finite, TypeOK, AskedOnce
  <2> QED BY <2>1, <1>1 DEF HasRoom
<1>8. C!Start(r.url)
  BY <1>1, <1>3, <1>4, <1>5, <1>6, <1>7, SameCardinality DEF C!Start
<1> QED BY <1>8, <1>3

(* Resolving a fetch finishes its URL. *)
LEMMA ResolveRefines ==
  ASSUME IInv, NEW r \in Ref, Resolve(r)
  PROVE  \E u \in Url : C!Finish(u)
<1>1. /\ r \in inFlight /\ inFlight' = inFlight \ {r}
      /\ UNCHANGED <<visited, queue, pending>>
  BY DEF Resolve, FetchOk, FetchErr
<1>2. r.url \in Url /\ r.url \in UrlsOf(inFlight)
  BY <1>1, RefAssumption DEF UrlsOf
<1>3. UrlsOf(inFlight') = UrlsOf(inFlight) \ {r.url}
  BY <1>1 DEF UrlsOf, IInv, AskedOnce
<1>4. Urls(queue') = Urls(queue) /\ Urls(pending') = Urls(pending)
  BY <1>1
<1>5. C!Finish(r.url)
  BY <1>1, <1>2, <1>3, <1>4 DEF C!Finish, UrlsOf
<1> QED BY <1>2, <1>5

(* For every set of sites, cap and concurrency, the loop of scan_assets is *)
(* a bounded crawl that finds and fetches every URL at most once.          *)
THEOREM ScanImplementsCrawl == Spec => C!Safe
<1>1. Init => C!Init
  BY EmptyRefs DEF Init, C!Init, UrlsOf
<1>2. IInv /\ [Next]_vars => [C!Next]_(C!vars)
  <2> SUFFICES ASSUME IInv, [Next]_vars PROVE C!Next \/ UNCHANGED C!vars
    OBVIOUS
  <2>1. CASE Enqueue
    BY <2>1, EnqueueRefines DEF C!Next
  <2>2. CASE StartFetch
    BY <2>2, StartFetchRefines DEF C!Next
  <2>3. ASSUME NEW r \in Ref, Resolve(r) PROVE C!Next
    BY <2>3, ResolveRefines DEF C!Next
  <2>4. CASE Return
    BY <2>4 DEF Return, C!vars, Urls, RefsIn, UrlsOf
  <2>5. CASE UNCHANGED vars
    BY <2>5 DEF vars, C!vars, Urls, RefsIn, UrlsOf
  <2> QED BY <2>1, <2>2, <2>3, <2>4, <2>5 DEF Next, Loop
<1> QED BY <1>1, <1>2, SpecIInv, PTL DEF Spec, C!Safe

-----------------------------------------------------------------------------
(* The search: lines                                                       *)

\* The offset of the k-th byte is k - 1.
LEMMA OffsetsAre ==
  ASSUME NEW bytes \in Seq(Byte)
  PROVE  /\ Len(bytes) \in Nat /\ DOMAIN Offsets(bytes) = 1..Len(bytes)
         /\ \A k \in 1..Len(bytes) : Offsets(bytes)[k] = k - 1 /\ At(bytes, k - 1) = bytes[k]
<1>1. Len(bytes) \in Nat
  OBVIOUS
<1>2. ASSUME NEW k \in 1..Len(bytes) PROVE Offsets(bytes)[k] = k - 1 /\ At(bytes, k - 1) = bytes[k]
  <2>1. (k - 1) + 1 = k
    BY <1>1
  <2> QED BY <2>1 DEF Offsets, At
<1> QED BY <1>1, <1>2 DEF Offsets

\* The starts with that of the line after the i-th byte.
Started(bytes, v, i) ==
  IF At(bytes, Offsets(bytes)[i]) = NL THEN Append(v, Offsets(bytes)[i] + 1) ELSE v

\* The starts of lines, byte by byte.
StartsTraced(bytes) ==
  \E x \in [0..Len(bytes) -> Seq(Int)] :
    /\ x[0] = <<0>>
    /\ \A k \in 1..Len(bytes) :
         x[k] = IF bytes[k] = NL THEN Append(x[k - 1], k) ELSE x[k - 1]
    /\ LineStarts(bytes) = x[Len(bytes)]

(* The fold over line ends has its values. *)
LEMMA LineStartsTraced ==
  ASSUME NEW bytes \in Seq(Byte)
  PROVE  StartsTraced(bytes)
<1> DEFINE n == Len(bytes)
           V == Seq(Int)
           D == 1..n
           F == [y \in V \X D |-> Started(bytes, y[1], y[2])]
<1>1. n \in Nat /\ DOMAIN Offsets(bytes) = D /\ <<0>> \in V
  <2>1. 0 \in Int /\ <<0>> \in Seq(Int)
    OBVIOUS
  <2> QED BY <2>1, OffsetsAre
<1>2. F \in [V \X D -> V]
  <2> SUFFICES ASSUME NEW v \in V, NEW k \in D PROVE Started(bytes, v, k) \in V
    OBVIOUS
  <2>1. k \in Int
    OBVIOUS
  <2>2. Started(bytes, v, k) = IF bytes[k] = NL THEN Append(v, k) ELSE v
    BY OffsetsAre DEF Started
  <2> QED BY <2>1, <2>2
<1>3. PICK it : it = CHOOSE h : h = [s \in SUBSET D |->
                      IF s = {} THEN <<0>>
                      ELSE Started(bytes, h[s \ {Max(s)}], Max(s))]
  OBVIOUS
<1>4. LineStarts(bytes) = it[D]
  BY <1>1, <1>3 DEF LineStarts, Started, FoldLeft, MapThenFoldSet
<1>5. ASSUME NEW s \in SUBSET D, s # {}, NEW v \in V
      PROVE  F[<<v, Max(s)>>] = Started(bytes, v, Max(s))
  BY <1>1, <1>5, MaxTaken
<1>6. PICK g \in [SUBSET D -> V] : IsFold(g, n, <<0>>, F)
  BY <1>1, <1>2, FoldExists
<1>7. g = [s \in SUBSET D |-> IF s = {} THEN <<0>>
                              ELSE Started(bytes, g[s \ {Max(s)}], Max(s))]
  <2>1. ASSUME NEW s \in SUBSET D
        PROVE  g[s] = IF s = {} THEN <<0>>
                      ELSE Started(bytes, g[s \ {Max(s)}], Max(s))
    BY <1>1, <1>5, <1>6, MaxTaken DEF IsFold
  <2> HIDE DEF F, n, D, V
  <2> QED BY <1>6, <2>1
<1>8. it = [s \in SUBSET D |-> IF s = {} THEN <<0>>
                               ELSE Started(bytes, it[s \ {Max(s)}], Max(s))]
  BY <1>3, <1>7
<1> HIDE DEF F
<1>9. PICK x : IsTrace(x, n, V, <<0>>, F) /\ it[D] = x[n]
  <2>1. Folds(it, n, V, <<0>>, F)
    BY <1>5, <1>8 DEF Folds
  <2>2. HasTrace(it, n, V, <<0>>, F)
    BY <1>1, <1>2, <2>1, FoldTrace
  <2> QED BY <2>2 DEF HasTrace
<1>10. ASSUME NEW k \in D
       PROVE  x[k] = IF bytes[k] = NL THEN Append(x[k - 1], k) ELSE x[k - 1]
  <2>1. x[k] = F[<<x[k - 1], k>>] /\ x \in [0..n -> V]
    BY <1>9 DEF IsTrace
  <2>2. k - 1 \in 0..n
    BY <1>1
  <2>3. x[k - 1] \in V
    BY <2>1, <2>2
  <2>4. x[k] = Started(bytes, x[k - 1], k)
    BY <2>1, <2>3 DEF F
  <2> QED BY <2>4, OffsetsAre DEF Started
<1>11. /\ x \in [0..Len(bytes) -> Seq(Int)]
       /\ x[0] = <<0>>
       /\ LineStarts(bytes) = x[Len(bytes)]
  BY <1>4, <1>9 DEF IsTrace
<1> QED BY <1>10, <1>11 DEF StartsTraced

\* Line ends are counted byte by byte.
LEMMA BreaksAre ==
  ASSUME NEW bytes \in Seq(Byte), NEW i \in 0..Len(bytes)
  PROVE  /\ Breaks(bytes, i) \in Nat
         /\ i = 0 => Breaks(bytes, i) = 0
         /\ i # 0 => Breaks(bytes, i) = Breaks(bytes, i - 1) + IF bytes[i] = NL THEN 1 ELSE 0
<1> DEFINE B(j) == {k \in 0..j - 1 : At(bytes, k) = NL}
<1>1. i \in Nat
  OBVIOUS
<1>2. \A j \in 0..i : IsFiniteSet(B(j)) /\ Cardinality(B(j)) \in Nat
  <2> SUFFICES ASSUME NEW j \in 0..i PROVE IsFiniteSet(B(j)) /\ Cardinality(B(j)) \in Nat
    OBVIOUS
  <2>1. IsFiniteSet(0..j - 1) /\ B(j) \in SUBSET (0..j - 1)
    BY <1>1, FS_Interval
  <2>2. IsFiniteSet(B(j))
    BY <2>1, FS_Subset
  <2> HIDE DEF B
  <2> QED BY <2>2, FS_CardinalityType
<1>3. ASSUME i = 0 PROVE Cardinality(B(i)) = 0
  <2>1. B(i) = {}
    BY <1>3
  <2> QED BY <2>1, FS_EmptySet
<1>4. ASSUME i # 0
      PROVE  Cardinality(B(i)) = Cardinality(B(i - 1)) + IF bytes[i] = NL THEN 1 ELSE 0
  <2>1. i - 1 \in 0..i /\ (i - 1) + 1 = i /\ i - 1 \notin B(i - 1)
    BY <1>1, <1>4
  <2>2. At(bytes, i - 1) = bytes[i]
    BY <2>1 DEF At
  <2>3. CASE bytes[i] = NL
    <3>1. B(i) = B(i - 1) \cup {i - 1}
      BY <1>1, <2>1, <2>2, <2>3
    <3> HIDE DEF B
    <3> QED BY <1>2, <2>1, <2>3, <3>1, FS_AddElement
  <2>4. CASE bytes[i] # NL
    <3>1. B(i) = B(i - 1)
      BY <1>1, <2>1, <2>2, <2>4
    <3>2. Cardinality(B(i - 1)) \in Nat
      BY <1>2, <2>1
    <3> HIDE DEF B
    <3> QED BY <2>4, <3>1, <3>2
  <2> QED BY <2>3, <2>4
<1>5. i \in 0..i
  BY <1>1
<1> QED BY <1>2, <1>3, <1>4, <1>5 DEF Breaks

\* The starts of the lines in the first m bytes.
StartsUpTo(s, bytes, m) ==
  /\ s \in Seq(Int) /\ Len(s) = Breaks(bytes, m) + 1
  /\ \A k \in 1..Len(s) : s[k] \in 0..m /\ BeginsLine(bytes, s[k]) /\ Breaks(bytes, s[k]) = k - 1
  /\ \A i, k \in 1..Len(s) : i < k => s[i] < s[k]
  /\ \A i \in 0..m : BeginsLine(bytes, i) => \E k \in 1..Len(s) : s[k] = i

\* LineStarts says where each line begins, in order.
LEMMA LineStartsAre ==
  ASSUME NEW bytes \in Seq(Byte)
  PROVE  StartsUpTo(LineStarts(bytes), bytes, Len(bytes))
<1>1. PICK x \in [0..Len(bytes) -> Seq(Int)] :
        /\ x[0] = <<0>>
        /\ \A k \in 1..Len(bytes) : x[k] = IF bytes[k] = NL THEN Append(x[k - 1], k) ELSE x[k - 1]
        /\ LineStarts(bytes) = x[Len(bytes)]
  BY LineStartsTraced DEF StartsTraced
<1>2. Len(bytes) \in Nat
  OBVIOUS
<1> DEFINE T == {k \in 0..Len(bytes) : StartsUpTo(x[k], bytes, k)}
<1>3. 0 \in T
  <2>1. 0 \in 0..Len(bytes)
    BY <1>2
  <2>2. Breaks(bytes, 0) = 0 /\ BeginsLine(bytes, 0)
    BY <2>1, BreaksAre DEF BeginsLine
  <2>3. PICK s : s = <<0>>
    OBVIOUS
  <2>4. s \in Seq(Int) /\ Len(s) = 1 /\ s[1] = 0
    BY <2>3
  <2>5. StartsUpTo(s, bytes, 0)
    BY <2>2, <2>4 DEF StartsUpTo
  <2> QED BY <1>1, <2>1, <2>3, <2>5
<1>4. ASSUME NEW m \in 1..Len(bytes), m - 1 \in T PROVE m \in T
  <2>1. PICK s : s = x[m - 1]
    OBVIOUS
  <2>2. StartsUpTo(s, bytes, m - 1) /\ m - 1 \in 0..Len(bytes) /\ m \in 0..Len(bytes) /\ m \in Int
    BY <1>4, <2>1
  <2>3. s \in Seq(Int) /\ Len(s) \in Nat /\ Len(s) = Breaks(bytes, m - 1) + 1
    BY <2>2 DEF StartsUpTo
  <2>4. Breaks(bytes, m) = Breaks(bytes, m - 1) + IF bytes[m] = NL THEN 1 ELSE 0
    BY <2>2, BreaksAre
  <2>5. At(bytes, m - 1) = bytes[m]
    BY OffsetsAre
  <2>6. CASE bytes[m] = NL
    <3>1. PICK r : r = Append(s, m)
      OBVIOUS
    <3>2. x[m] = r
      BY <1>1, <2>1, <2>6, <3>1
    <3>3. /\ r \in Seq(Int) /\ Len(r) = Len(s) + 1 /\ r[Len(s) + 1] = m
          /\ \A k \in 1..Len(s) : r[k] = s[k]
      BY <2>2, <2>3, <3>1
    <3>4. BeginsLine(bytes, m) /\ Breaks(bytes, m) = Len(s)
      BY <2>2, <2>3, <2>4, <2>5, <2>6, BreaksAre DEF BeginsLine
    <3>5. ASSUME NEW k \in 1..Len(r)
          PROVE  r[k] \in 0..m /\ BeginsLine(bytes, r[k]) /\ Breaks(bytes, r[k]) = k - 1
      <4>1. CASE k \in 1..Len(s)
        <5>1. s[k] \in 0..m - 1 /\ BeginsLine(bytes, s[k]) /\ Breaks(bytes, s[k]) = k - 1
          BY <2>2, <4>1 DEF StartsUpTo
        <5> QED BY <2>2, <3>3, <4>1, <5>1
      <4>2. CASE k \notin 1..Len(s)
        <5>1. k = Len(s) + 1 /\ m \in 0..m
          BY <2>2, <2>3, <3>3, <4>2
        <5> QED BY <2>3, <3>3, <3>4, <5>1
      <4> QED BY <4>1, <4>2
    <3>6. ASSUME NEW i \in 1..Len(r), NEW k \in 1..Len(r), i < k PROVE r[i] < r[k]
      <4>1. i \in 1..Len(s)
        BY <2>3, <3>3, <3>6
      <4>2. s[i] \in 0..m - 1
        BY <2>2, <4>1 DEF StartsUpTo
      <4>3. CASE k \in 1..Len(s)
        <5>1. s[i] < s[k]
          BY <2>2, <3>6, <4>1, <4>3 DEF StartsUpTo
        <5> QED BY <3>3, <4>1, <4>3, <5>1
      <4>4. CASE k \notin 1..Len(s)
        <5>1. r[k] = m
          <6>1. k = Len(s) + 1
            BY <2>3, <3>3, <4>4
          <6> QED BY <3>3, <6>1
        <5> QED BY <2>2, <3>3, <4>1, <4>2, <5>1
      <4> QED BY <4>3, <4>4
    <3>7. ASSUME NEW i \in 0..m, BeginsLine(bytes, i) PROVE \E k \in 1..Len(r) : r[k] = i
      <4>1. CASE i = m
        <5>1. Len(s) + 1 \in 1..Len(r)
          BY <2>3, <3>3
        <5> QED BY <3>3, <4>1, <5>1
      <4>2. CASE i # m
        <5>1. i \in 0..m - 1
          BY <4>2
        <5>2. PICK k \in 1..Len(s) : s[k] = i
          BY <2>2, <3>7, <5>1 DEF StartsUpTo
        <5>3. k \in 1..Len(r) /\ r[k] = i
          BY <2>3, <3>3, <5>2
        <5> QED BY <5>3
      <4> QED BY <4>1, <4>2
    <3>8. Len(r) = Breaks(bytes, m) + 1
      BY <3>3, <3>4
    <3>9. StartsUpTo(r, bytes, m)
      BY <3>3, <3>5, <3>6, <3>7, <3>8 DEF StartsUpTo
    <3> QED BY <2>2, <3>2, <3>9
  <2>7. CASE bytes[m] # NL
    <3>1. x[m] = s
      BY <1>1, <2>1, <2>7
    <3>2. ~BeginsLine(bytes, m) /\ Breaks(bytes, m) = Breaks(bytes, m - 1)
      <4>1. m # 0
        BY <2>2
      <4>2. Breaks(bytes, m - 1) \in Nat
        BY <2>2, BreaksAre
      <4> QED BY <2>4, <2>5, <2>7, <4>1, <4>2 DEF BeginsLine
    <3>3. \A k \in 1..Len(s) : s[k] \in 0..m - 1 => s[k] \in 0..m
      BY <2>2
    <3>4. \A i \in 0..m : i = m \/ i \in 0..m - 1
      BY <2>2
    <3>5. StartsUpTo(s, bytes, m)
      BY <2>2, <3>2, <3>3, <3>4 DEF StartsUpTo
    <3> QED BY <2>2, <3>1, <3>5
  <2> QED BY <2>6, <2>7
<1> HIDE DEF T
<1>5. \A k \in 0..Len(bytes) : k \in T
  BY <1>2, <1>3, <1>4, UpTo
<1>6. Len(bytes) \in T
  BY <1>2, <1>5
<1> QED BY <1>1, <1>6 DEF T

\* Where there is no line end there is no break.
LEMMA SameBreaks ==
  ASSUME NEW bytes \in Seq(Byte), NEW a \in 0..Len(bytes), NEW b \in 0..Len(bytes), a <= b,
         \A k \in a + 1..b : ~BeginsLine(bytes, k)
  PROVE  Breaks(bytes, a) = Breaks(bytes, b)
<1>1. ASSUME NEW k \in 0..b - 1, At(bytes, k) = NL PROVE k \in 0..a - 1
  <2> SUFFICES ASSUME ~(k \in 0..a - 1) PROVE FALSE
    OBVIOUS
  <2>1. k + 1 \in a + 1..b /\ k + 1 \in 1..Len(bytes) /\ (k + 1) - 1 = k
    OBVIOUS
  <2> QED BY <1>1, <2>1 DEF BeginsLine
<1>2. {k \in 0..a - 1 : At(bytes, k) = NL} = {k \in 0..b - 1 : At(bytes, k) = NL}
  BY <1>1
<1> QED BY <1>2 DEF Breaks

-----------------------------------------------------------------------------
(* The search: matches                                                     *)

\* Where a pattern is.
Matches(bytes, pat) == {i \in 0..Len(bytes) - 1 : MatchesAt(bytes, pat, i)}

\* What is found with the match that begins at the i-th byte, if any.
Found(bytes, pat, v, i) ==
  IF MatchesAt(bytes, pat, Offsets(bytes)[i])
       /\ (v = <<>> \/ Last(v) + Len(pat) <= Offsets(bytes)[i])
  THEN Append(v, Offsets(bytes)[i]) ELSE v

\* What is found, byte by byte.
FoundTraced(bytes, pat) ==
  \E x \in [0..Len(bytes) -> Seq(Matches(bytes, pat))] :
    /\ x[0] = <<>>
    /\ \A k \in 1..Len(bytes) :
         x[k] = Found(bytes, pat, x[k - 1], k)
    /\ FindIter(bytes, pat) = x[Len(bytes)]

(* So has the fold over places of a pattern, and what it finds are matches. *)
LEMMA FindIterTraced ==
  ASSUME NEW bytes \in Seq(Byte), NEW pat
  PROVE  FoundTraced(bytes, pat)
<1> DEFINE n == Len(bytes)
           V == Seq(Matches(bytes, pat))
           D == 1..n
           F == [y \in V \X D |-> Found(bytes, pat, y[1], y[2])]
<1>1. n \in Nat /\ DOMAIN Offsets(bytes) = D /\ <<>> \in V
  <2>1. <<>> \in Seq(Matches(bytes, pat))
    OBVIOUS
  <2> QED BY <2>1, OffsetsAre
<1>2. F \in [V \X D -> V]
  <2> SUFFICES ASSUME NEW v \in V, NEW k \in D PROVE Found(bytes, pat, v, k) \in V
    OBVIOUS
  <2>1. Offsets(bytes)[k] = k - 1
    BY OffsetsAre
  <2>2. MatchesAt(bytes, pat, k - 1) => k - 1 \in Matches(bytes, pat)
    BY <1>1 DEF Matches
  <2> QED BY <2>1, <2>2 DEF Found
<1>3. PICK it : it = CHOOSE h : h = [s \in SUBSET D |->
                      IF s = {} THEN <<>>
                      ELSE Found(bytes, pat, h[s \ {Max(s)}], Max(s))]
  OBVIOUS
<1>4. FindIter(bytes, pat) = it[D]
  BY <1>1, <1>3 DEF FindIter, Found, FoldLeft, MapThenFoldSet
<1>5. ASSUME NEW s \in SUBSET D, s # {}, NEW v \in V
      PROVE  F[<<v, Max(s)>>] = Found(bytes, pat, v, Max(s))
  BY <1>1, <1>5, MaxTaken
<1>6. PICK g \in [SUBSET D -> V] : IsFold(g, n, <<>>, F)
  BY <1>1, <1>2, FoldExists
<1>7. g = [s \in SUBSET D |-> IF s = {} THEN <<>>
                              ELSE Found(bytes, pat, g[s \ {Max(s)}], Max(s))]
  <2>1. ASSUME NEW s \in SUBSET D
        PROVE  g[s] = IF s = {} THEN <<>>
                      ELSE Found(bytes, pat, g[s \ {Max(s)}], Max(s))
    BY <1>1, <1>5, <1>6, MaxTaken DEF IsFold
  <2> HIDE DEF F, n, D, V
  <2> QED BY <1>6, <2>1
<1>8. it = [s \in SUBSET D |-> IF s = {} THEN <<>>
                               ELSE Found(bytes, pat, it[s \ {Max(s)}], Max(s))]
  BY <1>3, <1>7
<1> HIDE DEF F
<1>9. PICK x : IsTrace(x, n, V, <<>>, F) /\ it[D] = x[n]
  <2>1. Folds(it, n, V, <<>>, F)
    BY <1>5, <1>8 DEF Folds
  <2>2. HasTrace(it, n, V, <<>>, F)
    BY <1>1, <1>2, <2>1, FoldTrace
  <2> QED BY <2>2 DEF HasTrace
<1>10. ASSUME NEW k \in D
       PROVE  x[k] = Found(bytes, pat, x[k - 1], k)
  <2>1. x[k] = F[<<x[k - 1], k>>] /\ x \in [0..n -> V]
    BY <1>9 DEF IsTrace
  <2>2. k - 1 \in 0..n
    BY <1>1
  <2>3. x[k - 1] \in V
    BY <2>1, <2>2
  <2>4. x[k] = Found(bytes, pat, x[k - 1], k)
    BY <2>1, <2>3 DEF F
  <2> QED BY <2>4
<1>11. /\ x \in [0..Len(bytes) -> Seq(Matches(bytes, pat))]
       /\ x[0] = <<>>
       /\ FindIter(bytes, pat) = x[Len(bytes)]
  BY <1>4, <1>9 DEF IsTrace
<1> QED BY <1>10, <1>11 DEF FoundTraced

\* What is found is where the pattern is.
LEMMA FoundMatch ==
  ASSUME NEW bytes \in Seq(Byte), NEW pat
  PROVE  FindIter(bytes, pat) \in Seq(Matches(bytes, pat))
<1>1. Len(bytes) \in 0..Len(bytes)
  OBVIOUS
<1> QED BY <1>1, FindIterTraced DEF FoundTraced

-----------------------------------------------------------------------------
(* The search: windows                                                     *)

\* The nearest boundary below.
LEMMA SnapDownIs ==
  ASSUME NEW bytes, NEW i \in Nat, NEW floor \in Nat, NEW r, r = SnapDown(bytes, i, floor)
  PROVE  /\ i <= floor => r = i
         /\ i > floor => r \in floor..i /\ (r = floor \/ ~IsContinuation(bytes, r))
                         /\ \A k \in r + 1..i : IsContinuation(bytes, k)
<1>1. CASE i <= floor
  BY <1>1 DEF SnapDown
<1>2. CASE i > floor
  <2> DEFINE S == {k \in floor..i : k = floor \/ ~IsContinuation(bytes, k)}
  <2>1. S \in SUBSET (0..i) /\ floor \in S
    BY <1>2
  <2>2. r = Max(S)
    BY <1>2 DEF SnapDown
  <2>3. r \in S /\ \A y \in S : r >= y
    BY <2>1, <2>2, MaxIs
  <2>4. r \in floor..i /\ (r = floor \/ ~IsContinuation(bytes, r))
    BY <2>3
  <2>5. ASSUME NEW k \in r + 1..i PROVE IsContinuation(bytes, k)
    <3>1. k \in floor..i /\ ~(r >= k)
      BY <2>4
    <3>2. k \notin S
      BY <2>3, <3>1
    <3> QED BY <3>1, <3>2
  <2> QED BY <1>2, <2>4, <2>5
<1> QED BY <1>1, <1>2

\* The nearest boundary above.
LEMMA SnapUpIs ==
  ASSUME NEW bytes, NEW i \in Nat, NEW ceil \in Nat, NEW r, r = SnapUp(bytes, i, ceil)
  PROVE  /\ i >= ceil => r = i
         /\ i < ceil => r \in i..ceil /\ (r = ceil \/ ~IsContinuation(bytes, r))
                        /\ \A k \in i..r - 1 : IsContinuation(bytes, k)
<1>1. CASE i >= ceil
  BY <1>1 DEF SnapUp
<1>2. CASE i < ceil
  <2> DEFINE S == {k \in i..ceil : k = ceil \/ ~IsContinuation(bytes, k)}
  <2>1. S \in SUBSET Nat /\ ceil \in S
    BY <1>2
  <2>2. r = Min(S)
    BY <1>2 DEF SnapUp
  <2>3. r \in S /\ \A y \in S : r <= y
    BY <2>1, <2>2, MinIs
  <2>4. r \in i..ceil /\ (r = ceil \/ ~IsContinuation(bytes, r))
    BY <2>3
  <2>5. ASSUME NEW k \in i..r - 1 PROVE IsContinuation(bytes, k)
    <3>1. k \in i..ceil /\ ~(r <= k)
      BY <2>4
    <3>2. k \notin S
      BY <2>3, <3>1
    <3> QED BY <3>1, <3>2
  <2> QED BY <1>2, <2>4, <2>5
<1> QED BY <1>1, <1>2

\* No more than Trail bytes in a row continue a character.
LEMMA TextRuns ==
  ASSUME NEW bytes \in Seq(Byte), IsText(bytes), NEW r \in Int, NEW i \in Int,
         r <= i, i < Len(bytes), -1 <= r, \A k \in r + 1..i : IsContinuation(bytes, k)
  PROVE  i - r <= Trail
<1>1. Len(bytes) \in Nat /\ DOMAIN bytes = 1..Len(bytes) /\ Trail \in Nat
  BY ByteAssumption
<1>2. CASE r = i
  BY <1>1, <1>2
<1>3. CASE r < i
  <2>1. i + 1 \in DOMAIN bytes /\ bytes[i + 1] \in Continuation
    BY <1>1, <1>3 DEF IsContinuation, At
  <2>2. PICK k \in 1..Trail : k < i + 1 /\ bytes[(i + 1) - k] \notin Continuation
    BY <2>1 DEF IsText
  <2>3. ~(i - k \in r + 1..i)
    <3> SUFFICES ASSUME i - k \in r + 1..i PROVE FALSE
      OBVIOUS
    <3>1. (i - k) + 1 = (i + 1) - k
      BY <1>1
    <3> QED BY <2>2, <3>1 DEF IsContinuation, At
  <2> QED BY <1>1, <1>3, <2>2, <2>3
<1> QED BY <1>2, <1>3

\* A line of a text begins with a character.
LEMMA LineIsBoundary ==
  ASSUME NEW bytes \in Seq(Byte), IsText(bytes), NEW i \in 0..Len(bytes),
         BeginsLine(bytes, i) \/ i = Len(bytes)
  PROVE  IsBoundary(bytes, i)
<1> SUFFICES ASSUME i < Len(bytes), IsContinuation(bytes, i) PROVE FALSE
  BY DEF IsBoundary
<1>1. Len(bytes) \in Nat
  OBVIOUS
<1>8. NL \notin Continuation /\ Trail \in Nat
  BY ByteAssumption
<1>9. i \in Int /\ 0 <= i /\ i < Len(bytes)
  OBVIOUS
<1>2. i + 1 \in DOMAIN bytes /\ bytes[i + 1] \in Continuation
  <2>1. i + 1 \in DOMAIN bytes
    BY <1>9
  <2>2. bytes[i + 1] \in Continuation
    BY DEF IsContinuation, At
  <2> QED BY <2>1, <2>2
<1>3. PICK k \in 1..Trail : /\ k < i + 1
                           /\ bytes[(i + 1) - k] \notin Continuation \cup {NL}
                           /\ \A j \in 1..k - 1 : bytes[(i + 1) - j] \in Continuation
  BY <1>2 DEF IsText
<1>4. i \in 1..Len(bytes) /\ bytes[i] = NL
  <2>1. i # 0
    <3>1. k \in Int /\ 1 <= k /\ k < i + 1
      BY <1>8, <1>3
    <3> QED BY <3>1, <1>9
  <2>2. At(bytes, i - 1) = NL
    BY <2>1 DEF BeginsLine
  <2>3. (i - 1) + 1 = i
    OBVIOUS
  <2> QED BY <2>1, <2>2, <2>3 DEF At
<1>5. (i + 1) - 1 = i
  OBVIOUS
<1>6. CASE k = 1
  BY <1>3, <1>4, <1>5, <1>6
<1>7. CASE k # 1
  <2>1. 1 \in 1..k - 1
    BY <1>8, <1>3, <1>7
  <2> QED BY <1>8, <1>3, <1>4, <1>5, <2>1
<1> QED BY <1>6, <1>7

\* The budget is used up, within the lines and around the match.
UnsnappedRight(w, lo, hi, abs, len, max) ==
  /\ w \in Int \X Int /\ w = <<w[1], w[2]>>
  /\ lo <= w[1] /\ w[1] <= abs
  /\ Smaller(abs + len, hi) <= w[2] /\ w[2] <= hi /\ w[2] - w[1] = max

(* Shifting the ends of a window to use the budget does that. *)
LEMMA UnsnappedIs ==
  ASSUME NEW lo \in Int, NEW hi \in Int, NEW abs \in Int, NEW len \in Int, NEW max \in Int,
         0 <= lo, lo <= abs, abs < hi, 1 <= len, len < max, hi - lo > max,
         NEW w, w = Unsnapped(lo, hi, abs, len, max)
  PROVE  UnsnappedRight(w, lo, hi, abs, len, max)
<1> DEFINE before == (max - len) \div 2
           after == max - len - before
           start == Larger(abs - before, lo)
           end == Smaller(abs + len + after, hi)
<1>1. before \in Int /\ 0 <= before /\ before <= max - len
  OBVIOUS
<1> HIDE DEF before
<1>2. after \in Int /\ 0 <= after /\ before + after + len = max
  BY <1>1
<1> HIDE DEF after
<1>3. start \in Int /\ lo <= start /\ start <= abs /\ abs - before <= start
      /\ (start = lo \/ start = abs - before)
  BY <1>1 DEF Larger
<1>4. end \in Int /\ end <= hi /\ end <= abs + len + after /\ (end = hi \/ end = abs + len + after)
  BY <1>2 DEF Smaller
<1>5. w = IF end - start >= max THEN <<start, end>>
          ELSE IF start = lo THEN <<start, Smaller(start + max, hi)>>
          ELSE IF end = hi THEN <<Larger(end - max, lo), end>>
          ELSE <<start, end>>
  BY DEF Unsnapped, before, after
<1> HIDE DEF start, end
<1>6. CASE end - start >= max
  <2>1. w = <<start, end>>
    BY <1>5, <1>6
  <2> QED BY <1>1, <1>2, <1>3, <1>4, <1>6, <2>1 DEF Smaller, UnsnappedRight
<1>7. CASE end - start < max /\ start = lo
  <2>1. Smaller(start + max, hi) = lo + max
    BY <1>7 DEF Smaller
  <2>2. Smaller(abs + len, hi) <= lo + max
    BY <1>1, <1>2, <1>3, <1>7 DEF Smaller
  <2>3. w = <<lo, lo + max>>
    BY <1>3, <1>4, <1>5, <1>7, <2>1
  <2> QED BY <1>7, <2>2, <2>3 DEF UnsnappedRight
<1>8. CASE end - start < max /\ start # lo /\ end = hi
  <2>1. Larger(end - max, lo) = hi - max
    BY <1>8 DEF Larger
  <2>2. hi - max <= abs
    BY <1>2, <1>4, <1>8, <1>1
  <2>3. w = <<hi - max, hi>>
    BY <1>3, <1>4, <1>5, <1>8, <2>1
  <2> QED BY <1>8, <1>3, <2>2, <2>3 DEF Smaller, UnsnappedRight
<1>9. CASE end - start < max /\ start # lo /\ end # hi
  BY <1>1, <1>2, <1>3, <1>4, <1>9
<1> QED BY <1>3, <1>4, <1>6, <1>7, <1>8, <1>9

\* What a window is, for any bytes and for those of a text.
WindowIs(w, bytes, lo, hi, abs, len, max) ==
  /\ w \in Int \X Int
  /\ lo <= w[1] /\ w[1] <= abs /\ w[1] <= w[2] /\ w[2] <= Len(bytes)
  /\ ~(w[1] > lo \/ w[2] < hi) => w[1] = lo /\ w[2] = hi
  /\ w[1] > lo \/ w[2] < hi => w[2] - w[1] >= max
  /\ IF len >= max /\ hi - lo > max THEN w[1] = abs /\ (w[2] > hi => w[2] = abs + max)
     ELSE Smaller(abs + len, hi) <= w[2] /\ w[2] <= hi
  /\ w[1] = lo \/ w[1] = abs \/ ~IsContinuation(bytes, w[1])
  /\ w[2] = hi \/ w[2] > hi \/ ~IsContinuation(bytes, w[2])
  /\ IsText(bytes) /\ (w[1] > lo \/ w[2] < hi) => w[2] - w[1] <= max + 2 * Trail

(* snippet_window: where a window begins and ends, for any lines, match and budget. *)
LEMMA SnippetWindowIs ==
  ASSUME NEW bytes \in Seq(Byte), NEW lo \in Int, NEW hi \in Int, NEW abs \in Int, NEW len \in Int,
         NEW max \in Nat, 0 <= lo, lo <= abs, abs < hi, hi <= Len(bytes), 1 <= len,
         abs + len <= Len(bytes),
         NEW w, w = SnippetWindow(bytes, lo, hi, abs, len, max)
  PROVE  WindowIs(w, bytes, lo, hi, abs, len, max)
<1>1. Len(bytes) \in Nat /\ Trail \in Nat
  BY ByteAssumption
<1>2. CASE hi - lo <= max
  <2>1. w = <<lo, hi>>
    BY <1>2 DEF SnippetWindow
  <2>2. Smaller(abs + len, hi) <= hi
    BY DEF Smaller
  <2> QED BY <1>2, <2>1, <2>2 DEF WindowIs
<1>3. CASE hi - lo > max /\ len >= max
  <2>1. PICK to : to = SnapUp(bytes, abs + max, hi)
    OBVIOUS
  <2>2. w = <<abs, to>>
    BY <1>3, <2>1 DEF SnippetWindow
  <2>3. abs + max \in Nat /\ hi \in Nat
    OBVIOUS
  <2>4. CASE abs + max >= hi
    <3>1. to = abs + max
      BY <2>1, <2>3, <2>4, SnapUpIs
    <3> QED BY <1>1, <1>3, <2>2, <2>4, <3>1 DEF WindowIs
  <2>5. CASE abs + max < hi
    <3>1. /\ to \in abs + max..hi /\ (to = hi \/ ~IsContinuation(bytes, to))
          /\ \A k \in abs + max..to - 1 : IsContinuation(bytes, k)
      BY <2>1, <2>3, <2>5, SnapUpIs
    <3>2. ASSUME IsText(bytes) PROVE to - abs <= max + 2 * Trail
      <4>1. \A k \in (abs + max - 1) + 1..to - 1 : IsContinuation(bytes, k)
        BY <3>1
      <4>2. /\ abs + max - 1 \in Int /\ to - 1 \in Int /\ abs + max - 1 <= to - 1
            /\ to - 1 < Len(bytes) /\ -1 <= abs + max - 1
        BY <1>1, <2>3, <3>1
      <4>3. (to - 1) - (abs + max - 1) <= Trail
        BY <3>2, <4>1, <4>2, TextRuns
      <4> QED BY <1>1, <2>3, <3>1, <4>3
    <3> QED BY <1>1, <1>3, <2>2, <3>1, <3>2 DEF WindowIs
  <2> QED BY <2>3, <2>4, <2>5
<1>4. CASE hi - lo > max /\ len < max
  <2>1. PICK u : u = Unsnapped(lo, hi, abs, len, max)
    OBVIOUS
  <2>2. PICK s \in Int, e \in Int : /\ u = <<s, e>> /\ lo <= s /\ s <= abs
                                   /\ Smaller(abs + len, hi) <= e /\ e <= hi /\ e - s = max
    <3>1. UnsnappedRight(u, lo, hi, abs, len, max)
      BY <1>4, <2>1, UnsnappedIs
    <3> QED BY <3>1 DEF UnsnappedRight
  <2>3. PICK from, to : from = SnapDown(bytes, s, lo) /\ to = SnapUp(bytes, e, hi)
    OBVIOUS
  <2>4. w = <<from, to>>
    <3>1. u[1] = s /\ u[2] = e
      BY <2>2
    <3>2. w = <<SnapDown(bytes, u[1], lo), SnapUp(bytes, u[2], hi)>>
      BY <1>4, <2>1 DEF SnippetWindow
    <3> QED BY <2>3, <3>1, <3>2
  <2>5. s \in Nat /\ e \in Nat /\ lo \in Nat /\ hi \in Nat /\ Smaller(abs + len, hi) \in Int
    BY <2>2 DEF Smaller
  <2>6. /\ from \in lo..s /\ (from = lo \/ ~IsContinuation(bytes, from))
        /\ \A k \in from + 1..s : IsContinuation(bytes, k)
    <3>1. CASE s <= lo
      <4>1. from = s
        BY <2>3, <2>5, <3>1, SnapDownIs
      <4> QED BY <2>2, <3>1, <4>1
    <3>2. CASE s > lo
      BY <2>3, <2>5, <3>2, SnapDownIs
    <3> QED BY <3>1, <3>2, <2>5
  <2>7. /\ to \in e..hi /\ (to = hi \/ ~IsContinuation(bytes, to))
        /\ \A k \in e..to - 1 : IsContinuation(bytes, k)
    <3>1. CASE e >= hi
      <4>1. to = e
        BY <2>3, <2>5, <3>1, SnapUpIs
      <4> QED BY <2>2, <3>1, <4>1
    <3>2. CASE e < hi
      BY <2>3, <2>5, <3>2, SnapUpIs
    <3> QED BY <3>1, <3>2, <2>5
  <2>8. ASSUME IsText(bytes) PROVE to - from <= max + 2 * Trail
    <3>1. s - from <= Trail
      <4>1. from \in Int /\ from <= s /\ -1 <= from /\ s < Len(bytes)
        BY <1>1, <2>2, <2>5, <2>6
      <4> QED BY <2>6, <2>8, <4>1, TextRuns
    <3>2. to - e <= Trail
      <4>1. e - 1 \in Int /\ to - 1 \in Int /\ e - 1 <= to - 1 /\ -1 <= e - 1 /\ to - 1 < Len(bytes)
        BY <1>1, <2>5, <2>7
      <4>2. \A k \in (e - 1) + 1..to - 1 : IsContinuation(bytes, k)
        BY <2>5, <2>7
      <4>3. (to - 1) - (e - 1) <= Trail
        BY <2>8, <4>1, <4>2, TextRuns
      <4> QED BY <2>5, <2>7, <4>3
    <3> QED BY <1>1, <2>2, <2>5, <2>6, <2>7, <3>1, <3>2
  <2>9. from \in Int /\ to \in Int /\ lo <= from /\ from <= s /\ e <= to /\ to <= hi
    BY <2>5, <2>6, <2>7
  <2>10. /\ w[1] = from /\ w[2] = to /\ w \in Int \X Int
         /\ from <= abs /\ from <= to /\ to <= Len(bytes) /\ to - from >= max
         /\ Smaller(abs + len, hi) <= to
    BY <1>1, <2>2, <2>4, <2>5, <2>9
  <2>11. ~(len >= max)
    BY <1>4
  <2> HIDE DEF WindowIs
  <2>12. \/ from > lo \/ to < hi
         \/ from = lo /\ to = hi
    BY <2>9
  <2> QED BY <2>6, <2>7, <2>8, <2>9, <2>10, <2>11, <2>12 DEF WindowIs
<1> QED BY <1>2, <1>3, <1>4

Pattern == {p \in Seq(Byte) : p # <<>> /\ IsText(p)}

Hit == [file : Nat, line : Int, column : Int, lo : Int, hi : Int, window : Int \X Int]

\* The hits that a file may have.
RightHits(file, bytes, pat, options) ==
  {hit \in Hit : hit.file = file /\ HitIsRight(bytes, pat, options, hit)}

(* A match of a text begins with a character. *)
LEMMA MatchIs ==
  ASSUME NEW bytes \in Seq(Byte), NEW pat \in Pattern, NEW abs \in Matches(bytes, pat)
  PROVE  /\ abs \in 0..Len(bytes) - 1 /\ MatchesAt(bytes, pat, abs)
         /\ Len(pat) \in Nat /\ 1 <= Len(pat) /\ abs + Len(pat) <= Len(bytes)
         /\ ~IsContinuation(bytes, abs)
<1>1. abs \in 0..Len(bytes) - 1 /\ MatchesAt(bytes, pat, abs)
  BY DEF Matches
<1>2. pat \in Seq(Byte) /\ pat # <<>> /\ IsText(pat)
  BY DEF Pattern
<1>3. Len(bytes) \in Nat /\ Len(pat) \in Nat /\ 1 <= Len(pat)
  <2>1. Len(pat) \in Nat \ {0}
    BY <1>2, EmptySeq
  <2> QED BY <2>1
<1>4. abs + Len(pat) <= Len(bytes) /\ SubSeq(bytes, abs + 1, abs + Len(pat)) = pat
  BY <1>1 DEF MatchesAt
<1>5. pat[1] = bytes[abs + 1]
  <2>1. PICK m, n : m = abs + 1 /\ n = abs + Len(pat)
    OBVIOUS
  <2>2. m \in Int /\ n \in Int /\ \A i \in m..n : bytes[i] \in Byte
    BY <1>1, <1>3, <1>4, <2>1
  <2>3. \A i \in 1..n - m + 1 : SubSeq(bytes, m, n)[i] = bytes[m + i - 1]
    BY <2>2, SubSeqProperties
  <2>4. 1 \in 1..n - m + 1 /\ m + 1 - 1 = abs + 1
    BY <1>1, <1>3, <2>1
  <2>5. SubSeq(bytes, m, n)[1] = bytes[abs + 1]
    BY <2>3, <2>4
  <2> QED BY <1>4, <2>1, <2>5
<1>6. pat[1] \notin Continuation
  <2> SUFFICES ASSUME pat[1] \in Continuation PROVE FALSE
    OBVIOUS
  <2>1. 1 \in DOMAIN pat
    BY <1>2, <1>3
  <2>2. PICK k \in 1..Trail : k < 1
    BY <1>2, <2>1 DEF IsText
  <2> QED BY <2>2, ByteAssumption
<1> QED BY <1>1, <1>3, <1>4, <1>5, <1>6 DEF IsContinuation, At

\* Which line a match is in.
LineOf(starts, bytes, abs, line) ==
  /\ line \in 1..Len(starts) /\ starts[line] <= abs /\ Breaks(bytes, abs) = line - 1
  /\ \A k \in line + 1..Len(starts) : starts[k] > abs

(* partition_point finds the line that as many line ends precede. *)
LEMMA LineIs ==
  ASSUME NEW bytes \in Seq(Byte), NEW abs \in 0..Len(bytes) - 1,
         NEW starts, starts = LineStarts(bytes),
         NEW line, line = Max({k \in DOMAIN starts : starts[k] <= abs})
  PROVE  LineOf(starts, bytes, abs, line)
<1>1. StartsUpTo(starts, bytes, Len(bytes)) /\ Len(bytes) \in Nat
  BY LineStartsAre
<1>2. /\ starts \in Seq(Int) /\ Len(starts) \in Nat /\ DOMAIN starts = 1..Len(starts)
      /\ \A k \in 1..Len(starts) : starts[k] \in 0..Len(bytes)
      /\ \A i, k \in 1..Len(starts) : i < k => starts[i] < starts[k]
      /\ \A i \in 0..Len(bytes) : BeginsLine(bytes, i) => \E k \in 1..Len(starts) : starts[k] = i
      /\ \A k \in 1..Len(starts) : Breaks(bytes, starts[k]) = k - 1
  BY <1>1 DEF StartsUpTo
<1> DEFINE S == {k \in DOMAIN starts : starts[k] <= abs}
<1>3. S \in SUBSET (0..Len(starts)) /\ S # {}
  <2>1. BeginsLine(bytes, 0) /\ 0 \in 0..Len(bytes)
    BY <1>1 DEF BeginsLine
  <2>2. PICK k \in 1..Len(starts) : starts[k] = 0
    BY <1>2, <2>1
  <2>3. k \in S
    BY <1>2, <2>2
  <2> QED BY <1>2, <2>3
<1>4. line \in S /\ \A y \in S : line >= y
  BY <1>2, <1>3, MaxIs
<1>5. line \in 1..Len(starts) /\ starts[line] <= abs /\ starts[line] \in 0..Len(bytes)
  BY <1>2, <1>4
<1>6. ASSUME NEW k \in line + 1..Len(starts) PROVE starts[k] > abs
  <2>1. k \in 1..Len(starts) /\ ~(line >= k)
    BY <1>2, <1>5
  <2>2. ~(starts[k] <= abs)
    BY <1>2, <1>4, <2>1
  <2> QED BY <1>2, <2>1, <2>2
<1>7. ASSUME NEW k \in starts[line] + 1..abs, BeginsLine(bytes, k) PROVE FALSE
  <2>1. k \in 0..Len(bytes)
    BY <1>5
  <2>2. PICK m \in 1..Len(starts) : starts[m] = k
    BY <1>2, <1>7, <2>1
  <2>3. m \in S
    BY <1>2, <2>2
  <2>4. m <= line
    BY <1>2, <1>4, <1>5, <2>3
  <2>5. m = line \/ starts[m] < starts[line]
    BY <1>2, <1>5, <2>4
  <2> QED BY <1>5, <2>2, <2>5
<1>8. Breaks(bytes, abs) = line - 1
  <2>1. abs \in 0..Len(bytes)
    OBVIOUS
  <2>2. Breaks(bytes, starts[line]) = Breaks(bytes, abs)
    BY <1>5, <1>7, <2>1, SameBreaks
  <2> QED BY <1>2, <1>5, <2>2
<1> QED BY <1>5, <1>6, <1>8 DEF LineOf

\* A match becomes a hit that is right.
LEMMA HitAtIs ==
  ASSUME NEW file \in Nat, NEW bytes \in Seq(Byte), NEW pat \in Pattern, NEW options \in Option,
         NEW abs \in Matches(bytes, pat)
  PROVE  HitAt(file, bytes, pat, options, abs, LineStarts(bytes))
           \in RightHits(file, bytes, pat, options)
<1>1. PICK starts : starts = LineStarts(bytes)
  OBVIOUS
<1>2. PICK line : line = Max({k \in DOMAIN starts : starts[k] <= abs})
  OBVIOUS
<1>3. /\ abs \in 0..Len(bytes) - 1 /\ MatchesAt(bytes, pat, abs) /\ ~IsContinuation(bytes, abs)
      /\ Len(pat) \in Int /\ 1 <= Len(pat) /\ abs + Len(pat) <= Len(bytes)
  BY MatchIs
<1>4. LineOf(starts, bytes, abs, line)
  BY <1>1, <1>2, <1>3, LineIs
<1>5. StartsUpTo(starts, bytes, Len(bytes)) /\ Len(bytes) \in Nat
  BY <1>1, LineStartsAre
<1>6. /\ Len(starts) \in Nat /\ DOMAIN starts = 1..Len(starts)
      /\ Len(starts) = Breaks(bytes, Len(bytes)) + 1
      /\ \A k \in 1..Len(starts) : starts[k] \in 0..Len(bytes)
      /\ \A k \in 1..Len(starts) : BeginsLine(bytes, starts[k]) /\ Breaks(bytes, starts[k]) = k - 1
      /\ \A i, k \in 1..Len(starts) : i < k => starts[i] < starts[k]
  BY <1>5 DEF StartsUpTo
<1>7. /\ line \in 1..Len(starts) /\ starts[line] \in 0..Len(bytes) /\ starts[line] <= abs
      /\ Breaks(bytes, abs) = line - 1
      /\ \A k \in line + 1..Len(starts) : starts[k] > abs
  BY <1>4, <1>6 DEF LineOf
<1>8. options.context \in Nat /\ options.maxBytes \in Nat
  BY DEF Option
<1> DEFINE first == Larger(line - options.context, 1)
           nxt == line + options.context + 1
           lo == starts[first]
           hi == IF nxt \in DOMAIN starts THEN starts[nxt] ELSE Len(bytes)
           w == SnippetWindow(bytes, lo, hi, abs, Len(pat), options.maxBytes)
           hit == HitAt(file, bytes, pat, options, abs, starts)
<1>9. first \in 1..line /\ first - 1 = Larger((line - 1) - options.context, 0)
  BY <1>7, <1>8 DEF Larger
<1>10. /\ lo \in Nat /\ lo <= abs /\ lo \in 0..Len(bytes)
       /\ BeginsLine(bytes, lo) /\ Breaks(bytes, lo) = Larger((line - 1) - options.context, 0)
  <2> HIDE DEF first
  <2>1. first \in 1..Len(starts)
    BY <1>6, <1>7, <1>9
  <2>2. starts[first] \in 0..Len(bytes) /\ BeginsLine(bytes, starts[first])
        /\ Breaks(bytes, starts[first]) = first - 1
    BY <1>6, <2>1
  <2>3. starts[first] <= starts[line]
    BY <1>6, <1>7, <1>9, <2>1
  <2> QED BY <1>3, <1>5, <1>7, <1>9, <2>2, <2>3
<1>11. /\ hi \in Nat /\ hi <= Len(bytes) /\ abs < hi
       /\ \/ BeginsLine(bytes, hi) /\ Breaks(bytes, hi) = (line - 1) + options.context + 1
          \/ hi = Len(bytes) /\ Breaks(bytes, hi) <= (line - 1) + options.context
  <2>1. nxt \in Int /\ line < nxt
    BY <1>6, <1>7, <1>8
  <2>2. CASE nxt \in DOMAIN starts
    <3>1. nxt \in 1..Len(starts) /\ nxt \in line + 1..Len(starts) /\ hi = starts[nxt]
      BY <1>6, <1>7, <2>1, <2>2
    <3>2. starts[nxt] > abs /\ starts[nxt] \in 0..Len(bytes) /\ BeginsLine(bytes, starts[nxt])
          /\ Breaks(bytes, starts[nxt]) = nxt - 1
      BY <1>6, <1>7, <3>1
    <3>3. nxt - 1 = (line - 1) + options.context + 1
      BY <1>6, <1>7, <1>8
    <3> HIDE DEF nxt
    <3> QED BY <1>3, <1>5, <3>1, <3>2, <3>3
  <2>3. CASE nxt \notin DOMAIN starts
    <3>1. Len(starts) < nxt /\ hi = Len(bytes)
      BY <1>6, <1>7, <2>1, <2>3
    <3>2. Breaks(bytes, Len(bytes)) = Len(starts) - 1
      <4>1. Len(bytes) \in 0..Len(bytes)
        BY <1>5
      <4>2. Breaks(bytes, Len(bytes)) \in Nat
        BY <4>1, BreaksAre
      <4> QED BY <1>6, <4>2
    <3>3. Breaks(bytes, Len(bytes)) <= (line - 1) + options.context
      BY <1>6, <1>7, <1>8, <3>1, <3>2
    <3> QED BY <1>3, <1>5, <3>1, <3>3
  <2> QED BY <2>2, <2>3
<1>12. hit = [file |-> file, line |-> line - 1, column |-> abs - starts[line], lo |-> lo, hi |-> hi,
              window |-> w]
  BY <1>2 DEF HitAt, HitInLine
<1> HIDE DEF lo, hi, first, nxt, hit
<1>13. WindowIs(w, bytes, lo, hi, abs, Len(pat), options.maxBytes)
  <2>1. lo \in Int /\ hi \in Int /\ abs \in Int /\ 0 <= lo
    BY <1>3, <1>10, <1>11
  <2> QED BY <1>3, <1>8, <1>10, <1>11, <2>1, SnippetWindowIs
<1> HIDE DEF w
<1>14. w \in Int \X Int
  BY <1>13 DEF WindowIs
<1>15. hit \in Hit /\ hit.file = file
  BY <1>3, <1>7, <1>10, <1>11, <1>12, <1>14 DEF Hit
<1>16. /\ hit.line = line - 1 /\ hit.column = abs - starts[line] /\ hit.lo = lo /\ hit.hi = hi
       /\ hit.window = w
  BY <1>12
<1>17. PlaceIsRight(bytes, options, abs, hit)
  <2>1. abs - (abs - starts[line]) = starts[line]
    BY <1>3, <1>7
  <2> QED BY <1>6, <1>7, <1>10, <1>11, <1>16, <2>1 DEF PlaceIsRight
<1>18. Shortened(hit) <=> w[1] > lo \/ w[2] < hi
  BY <1>16 DEF Shortened
<1>19. ASSUME IsText(bytes)
       PROVE  /\ IsBoundary(bytes, w[1])
              /\ IsBoundary(bytes, w[2]) \/ w[2] > hi
  <2>1. lo \in 0..Len(bytes) /\ hi \in 0..Len(bytes)
    BY <1>5, <1>10, <1>11
  <2>2. IsBoundary(bytes, lo) /\ IsBoundary(bytes, hi)
    BY <1>10, <1>11, <1>19, <2>1, LineIsBoundary
  <2>3. /\ w[1] = lo \/ w[1] = abs \/ ~IsContinuation(bytes, w[1])
        /\ w[2] = hi \/ w[2] > hi \/ ~IsContinuation(bytes, w[2])
    BY <1>13 DEF WindowIs
  <2> QED BY <1>3, <2>2, <2>3 DEF IsBoundary
<1>20. WindowIsRight(bytes, pat, options, abs, hit)
  BY <1>13, <1>16, <1>18, <1>19 DEF WindowIsRight, WindowIs
<1>21. HitIsRight(bytes, pat, options, hit)
  BY <1>3, <1>17, <1>20 DEF HitIsRight
<1> QED BY <1>1, <1>15, <1>21 DEF RightHits, hit

-----------------------------------------------------------------------------
(* The search: results                                                     *)

\* Results with such hits.
Results(R) ==
  [hits : Seq(R), filesFailed : Nat, notPrinted : Nat, filesNotPrinted : Nat, shortened : Nat]

\* No more hits are kept than there are.
LEMMA KeptIs ==
  ASSUME NEW R, NEW s \in Seq(R), NEW options \in Option
  PROVE  /\ Kept(s, options) \in 0..Len(s) /\ Len(s) \in Nat
         /\ options.maxHits \in Int
         /\ options.maxHits # Unlimited => options.maxHits \in Nat
BY DEF Kept, Smaller, Option, Unlimited

(* grep_bytes prints the first hits of a file and counts the others. *)
LEMMA GrepBytesIs ==
  ASSUME NEW file \in Nat, NEW bytes \in Seq(Byte), NEW pat \in Pattern, NEW options \in Option,
         NEW chunk, chunk = GrepBytes(file, bytes, pat, options),
         NEW all, all = HitsOf(file, bytes, pat, options)
  PROVE  /\ chunk \in Results(RightHits(file, bytes, pat, options))
         /\ all \in Seq(RightHits(file, bytes, pat, options))
         /\ Prints(chunk, all, options) /\ chunk.filesFailed = 0
<1> DEFINE R == RightHits(file, bytes, pat, options)
           found == FindIter(bytes, pat)
           starts == LineStarts(bytes)
           h(k) == HitAt(file, bytes, pat, options, found[k], starts)
           unlimited == [options EXCEPT !.maxHits = Unlimited]
           K == Kept(found, options)
           hits == [k \in 1..K |-> h(k)]
<1>1. found \in Seq(Matches(bytes, pat))
  BY FoundMatch
<1>2. Len(found) \in Nat /\ K \in 0..Len(found)
  BY <1>1, KeptIs
<1>3. \A k \in 1..Len(found) : h(k) \in R
  <2> SUFFICES ASSUME NEW k \in 1..Len(found) PROVE h(k) \in R
    OBVIOUS
  <2>1. found[k] \in Matches(bytes, pat)
    BY <1>1
  <2> QED BY <2>1, HitAtIs
<1>4. all = [k \in 1..Len(found) |-> h(k)]
  <2>1. unlimited.maxHits = Unlimited /\ unlimited.context = options.context
        /\ unlimited.maxBytes = options.maxBytes
    BY DEF Option
  <2>2. \A k : HitAt(file, bytes, pat, unlimited, found[k], starts) = h(k)
    BY <2>1 DEF HitAt, HitInLine
  <2>3. Kept(found, unlimited) = Len(found)
    BY <2>1 DEF Kept
  <2>4. all = GrepBytes(file, bytes, pat, unlimited).hits
    BY DEF HitsOf
  <2>5. GrepBytes(file, bytes, pat, unlimited).hits =
          [k \in 1..Kept(found, unlimited) |-> HitAt(file, bytes, pat, unlimited, found[k], starts)]
    BY DEF GrepBytes, HitsAt, ChunkOf
  <2> HIDE DEF unlimited, h, starts, found
  <2> QED BY <2>2, <2>3, <2>4, <2>5
<1>5. /\ chunk.hits = hits /\ chunk.filesFailed = 0 /\ chunk.notPrinted = Len(found) - K
      /\ chunk.filesNotPrinted = IF Len(found) - K > 0 THEN 1 ELSE 0
      /\ chunk = [hits |-> hits, filesFailed |-> 0, notPrinted |-> chunk.notPrinted,
                  filesNotPrinted |-> chunk.filesNotPrinted, shortened |-> chunk.shortened]
  BY DEF GrepBytes, HitsAt, ChunkOf
<1>6. chunk.shortened = Cardinality({k \in DOMAIN hits : Shortened(hits[k])})
  BY DEF GrepBytes, HitsAt, ChunkOf
<1> HIDE DEF h, found, R
<1>7. hits \in Seq(R) /\ Len(hits) = K /\ DOMAIN hits = 1..K
  <2>1. K \in Nat
    BY <1>2
  <2>2. hits \in [1..K -> R]
    BY <1>2, <1>3
  <2> HIDE DEF hits, K
  <2> QED BY <2>1, <2>2, SeqDef
<1>8. all \in Seq(R) /\ Len(all) = Len(found) /\ \A k \in 1..K : hits[k] = all[k]
  <2>1. all \in [1..Len(found) -> R]
    BY <1>3, <1>4
  <2>2. \A k \in 1..K : hits[k] = all[k]
    BY <1>2, <1>4
  <2> HIDE DEF hits, K
  <2> QED BY <1>2, <2>1, <2>2, SeqDef
<1> HIDE DEF hits
<1>9. Kept(all, options) = K
  BY <1>8 DEF Kept
<1> HIDE DEF K
<1>10. hits = SubSeq(all, 1, K)
  BY <1>2, <1>7, <1>8, FirstIs
<1>11. chunk.shortened \in Nat
  <2>1. {k \in DOMAIN hits : Shortened(hits[k])} \in SUBSET (1..K)
    BY <1>7
  <2>2. IsFiniteSet(1..K)
    BY <1>2, FS_Interval
  <2> QED BY <1>6, <2>1, <2>2, FS_Subset, FS_CardinalityType
<1>12. chunk \in Results(R)
  BY <1>2, <1>5, <1>7, <1>11 DEF Results
<1>13. Prints(chunk, all, options)
  BY <1>2, <1>5, <1>7, <1>8, <1>9, <1>10 DEF Prints
<1> QED BY <1>5, <1>8, <1>12, <1>13 DEF R

\* What is taken of a chunk of k2 where k1 are printed.
RoomRight(max, n1, n2, k1, k2, room, q) ==
  /\ room \in Nat /\ q \in 0..k2 /\ Larger(0, k2 - room) = k2 - q
  /\ Smaller(max, n1 + n2) = k1 + q /\ (q # 0 => k1 = n1) /\ k1 + q \in 0..n1 + n2

(* What a full result has no room for is what a limit on both together cuts. *)
LEMMA RoomIs ==
  ASSUME NEW max \in Nat, NEW n1 \in Nat, NEW n2 \in Nat,
         NEW k1, k1 = Smaller(max, n1), NEW k2, k2 = Smaller(max, n2),
         NEW room, room = Larger(0, max - k1), NEW q, q = Smaller(room, k2)
  PROVE  RoomRight(max, n1, n2, k1, k2, room, q)
<1>1. k1 \in Nat /\ k2 \in Nat /\ room \in Nat
  BY DEF Smaller, Larger
<1>2. CASE max <= n1
  <2>1. k1 = max /\ room = 0 /\ q = 0
    BY <1>1, <1>2 DEF Smaller, Larger
  <2> QED BY <1>1, <1>2, <2>1 DEF Smaller, Larger, RoomRight
<1>3. CASE max > n1
  <2>1. k1 = n1 /\ room = max - n1
    BY <1>1, <1>3 DEF Smaller, Larger
  <2>2. k2 <= n2 /\ k2 <= max /\ (k2 = n2 \/ k2 = max)
    BY DEF Smaller
  <2>3. q \in Nat /\ q <= room /\ q <= k2 /\ (q = room \/ q = k2)
    BY <1>1 DEF Smaller
  <2>4. Larger(0, k2 - room) = k2 - q
    BY <1>1, <2>3 DEF Larger, Smaller
  <2>5. Smaller(max, n1 + n2) = k1 + q
    BY <1>1, <1>3, <2>1, <2>2, <2>3 DEF Smaller
  <2> QED BY <1>1, <2>1, <2>2, <2>3, <2>4, <2>5 DEF RoomRight
<1> QED BY <1>2, <1>3

\* Files are counted where hits are.
LEMMA CountsAre ==
  ASSUME NEW rn \in Nat, NEW rf \in Nat, NEW cn \in Nat, NEW cf \in Nat, NEW o \in Nat,
         rf = 0 <=> rn = 0, cf = 0 <=> cn = 0,
         NEW n, n = rn + cn + o, NEW f, f = rf + cf + (IF o > 0 /\ cf = 0 THEN 1 ELSE 0)
  PROVE  n \in Nat /\ f \in Nat /\ (f = 0 <=> n = 0)
OBVIOUS

\* Merging prints what comes first and counts the rest.
LEMMA MergeChunkIs ==
  ASSUME NEW R, NEW options \in Option, NEW r \in Results(R), NEW c \in Results(R),
         NEW a \in Seq(R), NEW b \in Seq(R), Prints(r, a, options), Prints(c, b, options),
         NEW m, m = MergeChunk(r, c, options.maxHits)
  PROVE  /\ m \in Results(R) /\ a \o b \in Seq(R) /\ Prints(m, a \o b, options)
         /\ m.filesFailed = r.filesFailed + c.filesFailed
<1> DEFINE max == options.maxHits
           room == IF max = Unlimited THEN Len(c.hits) ELSE Larger(0, max - Len(r.hits))
           q == Smaller(room, Len(c.hits))
           omitted == Larger(0, Len(c.hits) - room)
           k1 == Kept(a, options)
           k2 == Kept(b, options)
<1>1. PICK ab : ab = a \o b
  OBVIOUS
<1>2. /\ ab \in Seq(R) /\ Len(ab) = Len(a) + Len(b)
      /\ \A i \in 1..Len(a) + Len(b) : ab[i] = IF i <= Len(a) THEN a[i] ELSE b[i - Len(a)]
  <2>1. /\ a \o b \in Seq(R) /\ Len(a \o b) = Len(a) + Len(b)
        /\ \A i \in 1..Len(a) + Len(b) : (a \o b)[i] = IF i <= Len(a) THEN a[i] ELSE b[i - Len(a)]
    BY ConcatProperties
  <2> QED BY <1>1, <2>1
<1>3. /\ k1 \in 0..Len(a) /\ Len(a) \in Nat /\ k2 \in 0..Len(b) /\ Len(b) \in Nat
      /\ max \in Int /\ (max # Unlimited => max \in Nat)
  BY KeptIs
<1>4. r.hits \in Seq(R) /\ Len(r.hits) = k1 /\ \A i \in 1..k1 : r.hits[i] = a[i]
  <2>1. r.hits = SubSeq(a, 1, k1)
    BY DEF Prints
  <2> HIDE DEF k1
  <2> QED BY <1>3, <2>1, FirstAre
<1>5. c.hits \in Seq(R) /\ Len(c.hits) = k2 /\ \A i \in 1..k2 : c.hits[i] = b[i]
  <2>1. c.hits = SubSeq(b, 1, k2)
    BY DEF Prints
  <2> HIDE DEF k2
  <2> QED BY <1>3, <2>1, FirstAre
<1>6. /\ k1 = IF max = Unlimited THEN Len(a) ELSE Smaller(max, Len(a))
      /\ k2 = IF max = Unlimited THEN Len(b) ELSE Smaller(max, Len(b))
      /\ Kept(ab, options) = IF max = Unlimited THEN Len(a) + Len(b) ELSE Smaller(max, Len(a) + Len(b))
  BY <1>2 DEF Kept
<1> HIDE DEF k1, k2
<1>7. room \in Nat /\ q \in 0..k2 /\ omitted = k2 - q /\ Kept(ab, options) = k1 + q
      /\ (q # 0 => k1 = Len(a)) /\ k1 + q \in 0..Len(a) + Len(b)
  <2>1. CASE max = Unlimited
    <3>1. room = k2
      BY <1>5, <2>1
    <3> HIDE DEF room, max
    <3> QED BY <1>3, <1>5, <1>6, <2>1, <3>1 DEF Smaller, Larger
  <2>2. CASE max # Unlimited
    <3>1. room = Larger(0, max - k1)
      BY <1>4, <2>2
    <3>2. max \in Nat /\ q = Smaller(room, k2) /\ omitted = Larger(0, k2 - room)
      BY <1>3, <1>5, <2>2
    <3> HIDE DEF room, max, q, omitted
    <3>3. k1 = Smaller(max, Len(a)) /\ k2 = Smaller(max, Len(b))
          /\ Kept(ab, options) = Smaller(max, Len(a) + Len(b))
      BY <1>6, <2>2
    <3>4. Len(a) \in Nat /\ Len(b) \in Nat
      BY <1>3
    <3>5. PICK n1, n2, x1, x2, y, z :
            /\ n1 = Len(a) /\ n2 = Len(b) /\ x1 = k1 /\ x2 = k2 /\ y = room /\ z = q
      OBVIOUS
    <3>6. PICK M : M = max
      OBVIOUS
    <3>7. /\ y \in Nat /\ z \in 0..x2 /\ Larger(0, x2 - y) = x2 - z
          /\ Smaller(M, n1 + n2) = x1 + z /\ (z # 0 => x1 = n1) /\ x1 + z \in 0..n1 + n2
      <4>1. M \in Nat /\ n1 \in Nat /\ n2 \in Nat /\ x1 = Smaller(M, n1) /\ x2 = Smaller(M, n2)
            /\ y = Larger(0, M - x1) /\ z = Smaller(y, x2)
        BY <3>1, <3>2, <3>3, <3>4, <3>5, <3>6
      <4>2. RoomRight(M, n1, n2, x1, x2, y, z)
        BY <4>1, RoomIs
      <4> QED BY <4>2 DEF RoomRight
    <3> QED BY <3>2, <3>3, <3>5, <3>6, <3>7
  <2> QED BY <2>1, <2>2
<1>8. /\ m.hits = r.hits \o SubSeq(c.hits, 1, q)
      /\ m.filesFailed = r.filesFailed + c.filesFailed
      /\ m.notPrinted = r.notPrinted + c.notPrinted + omitted
      /\ m.filesNotPrinted = r.filesNotPrinted + c.filesNotPrinted
                               + (IF omitted > 0 /\ c.filesNotPrinted = 0 THEN 1 ELSE 0)
      /\ m.shortened = r.shortened + c.shortened
  BY DEF MergeChunk
<1>21. m = [hits |-> m.hits, filesFailed |-> m.filesFailed, notPrinted |-> m.notPrinted,
              filesNotPrinted |-> m.filesNotPrinted, shortened |-> m.shortened]
  BY DEF MergeChunk
<1> HIDE DEF q, omitted, room, max
<1>9. PICK d : d = SubSeq(c.hits, 1, q)
  OBVIOUS
<1>10. d \in Seq(R) /\ Len(d) = q /\ \A i \in 1..q : d[i] = b[i]
  <2>1. q \in 0..Len(c.hits)
    BY <1>5, <1>7
  <2>2. d \in Seq(R) /\ Len(d) = q /\ \A i \in 1..q : d[i] = c.hits[i]
    BY <1>5, <1>9, <2>1, FirstAre
  <2>3. \A i \in 1..q : i \in 1..k2
    BY <1>3, <1>7
  <2>4. \A i \in 1..q : c.hits[i] = b[i]
    BY <1>5, <2>3
  <2> QED BY <2>2, <2>4
<1>11. PICK t : t = r.hits \o d
  OBVIOUS
<1>12. /\ t \in Seq(R) /\ Len(t) = k1 + q
       /\ \A i \in 1..k1 + q : t[i] = IF i <= k1 THEN r.hits[i] ELSE d[i - k1]
  <2>1. /\ r.hits \o d \in Seq(R) /\ Len(r.hits \o d) = Len(r.hits) + Len(d)
        /\ \A i \in 1..Len(r.hits) + Len(d) :
             (r.hits \o d)[i] = IF i <= Len(r.hits) THEN r.hits[i] ELSE d[i - Len(r.hits)]
    BY <1>4, <1>10, ConcatProperties
  <2> QED BY <1>4, <1>10, <1>11, <2>1
<1>13. ASSUME NEW i \in 1..k1 + q PROVE t[i] = ab[i]
  <2>1. i \in 1..Len(a) + Len(b)
    BY <1>3, <1>7
  <2>2. CASE i <= k1
    <3>1. t[i] = a[i]
      BY <1>3, <1>4, <1>12, <2>2
    <3>2. ab[i] = a[i]
      BY <1>2, <1>3, <2>1, <2>2
    <3> QED BY <3>1, <3>2
  <2>3. CASE i > k1
    <3>1. q # 0 /\ k1 = Len(a) /\ i - k1 \in 1..q
      BY <1>3, <1>7, <2>3
    <3>2. t[i] = b[i - k1]
      BY <1>3, <1>10, <1>12, <2>3, <3>1
    <3>3. ab[i] = b[i - k1]
      BY <1>2, <1>3, <2>1, <2>3, <3>1
    <3> QED BY <3>2, <3>3
  <2> QED BY <1>3, <2>2, <2>3
<1>14. t = SubSeq(ab, 1, k1 + q)
  <2>1. k1 + q \in 0..Len(ab)
    BY <1>2, <1>7
  <2> QED BY <1>2, <1>12, <1>13, <2>1, FirstIs
<1>15. m.hits = t
  BY <1>8, <1>9, <1>11
<1>16. /\ r.notPrinted = Len(a) - k1 /\ (r.filesNotPrinted = 0 <=> r.notPrinted = 0)
       /\ c.notPrinted = Len(b) - k2 /\ (c.filesNotPrinted = 0 <=> c.notPrinted = 0)
  BY <1>4, <1>5 DEF Prints
<1>17. /\ r.notPrinted \in Nat /\ r.filesNotPrinted \in Nat
       /\ r.filesFailed \in Nat /\ r.shortened \in Nat
       /\ c.notPrinted \in Nat /\ c.filesNotPrinted \in Nat
       /\ c.filesFailed \in Nat /\ c.shortened \in Nat
  BY DEF Results
<1>18. omitted \in Nat
  BY <1>3, <1>7
<1>22. m.notPrinted \in Nat /\ m.filesNotPrinted \in Nat /\ (m.filesNotPrinted = 0 <=> m.notPrinted = 0)
  <2>1. PICK rn, rf, cn, cf, o, n, f :
          /\ rn = r.notPrinted /\ rf = r.filesNotPrinted /\ cn = c.notPrinted /\ cf = c.filesNotPrinted
          /\ o = omitted /\ n = m.notPrinted /\ f = m.filesNotPrinted
    OBVIOUS
  <2>2. /\ rn \in Nat /\ rf \in Nat /\ cn \in Nat /\ cf \in Nat /\ o \in Nat
        /\ (rf = 0 <=> rn = 0) /\ (cf = 0 <=> cn = 0)
    BY <1>16, <1>17, <1>18, <2>1
  <2>3. n = rn + cn + o /\ f = rf + cf + (IF o > 0 /\ cf = 0 THEN 1 ELSE 0)
    BY <1>8, <2>1
  <2>4. n \in Nat /\ f \in Nat /\ (f = 0 <=> n = 0)
    BY <2>2, <2>3, CountsAre
  <2> QED BY <2>1, <2>4
<1>19. m \in Results(R)
  <2>1. m.notPrinted \in Nat /\ m.filesNotPrinted \in Nat
    BY <1>22
  <2>4. \A i, j \in Nat : i + j \in Nat
    OBVIOUS
  <2>2. m.filesFailed \in Nat
    <3>1. m.filesFailed = r.filesFailed + c.filesFailed
      BY <1>8
    <3> QED BY <1>17, <2>4, <3>1
  <2>3. m.shortened \in Nat
    <3>1. m.shortened = r.shortened + c.shortened
      BY <1>8
    <3> QED BY <1>17, <2>4, <3>1
  <2> QED BY <1>12, <1>15, <1>21, <2>1, <2>2, <2>3 DEF Results
<1>20. Prints(m, ab, options)
  <2>1. m.hits = SubSeq(ab, 1, Kept(ab, options))
    BY <1>7, <1>14, <1>15
  <2>2. m.notPrinted = Len(ab) - Len(m.hits)
    <3>1. m.notPrinted = (Len(a) - k1) + (Len(b) - k2) + (k2 - q)
      BY <1>7, <1>8, <1>16
    <3>2. Len(ab) - Len(m.hits) = (Len(a) + Len(b)) - (k1 + q)
      BY <1>2, <1>12, <1>15
    <3>3. k1 \in Int /\ k2 \in Int /\ q \in Int /\ Len(a) \in Int /\ Len(b) \in Int
      BY <1>3, <1>7
    <3>4. PICK x1, x2, z, n1, n2 : x1 = k1 /\ x2 = k2 /\ z = q /\ n1 = Len(a) /\ n2 = Len(b)
      OBVIOUS
    <3>5. (n1 - x1) + (n2 - x2) + (x2 - z) = (n1 + n2) - (x1 + z)
      BY <3>3, <3>4
    <3> QED BY <3>1, <3>2, <3>4, <3>5
  <2>3. m.filesNotPrinted = 0 <=> m.notPrinted = 0
    BY <1>22
  <2> QED BY <2>1, <2>2, <2>3 DEF Prints
<1> QED BY <1>1, <1>2, <1>8, <1>19, <1>20

Ascending(s) == \A i, j \in 1..Len(s) : i < j => s[i] < s[j]

\* The index goes where it belongs.
LEMMA InsertByIndexIs ==
  ASSUME NEW s \in Seq(Nat), NEW e \in Nat, NEW t, t = InsertByIndex(s, e)
  PROVE  /\ t \in Seq(Nat)
         /\ Ascending(s) /\ e \notin Range(s) => Ascending(t) /\ Range(t) = Range(s) \cup {e}
<1> DEFINE n == Len(s)
           I == {0} \cup {i \in DOMAIN s : s[i] <= e}
<1>1. n \in Nat /\ DOMAIN s = 1..n /\ \A i \in 1..n : s[i] \in Nat
  OBVIOUS
<1>2. I \in SUBSET (0..n) /\ I # {}
  BY <1>1
<1>3. PICK m : m = Max(I)
  OBVIOUS
<1>4. m \in I /\ m \in 0..n /\ \A y \in I : m >= y
  BY <1>1, <1>2, <1>3, MaxIs
<1>5. t = InsertAt(s, m + 1, e)
  BY <1>3 DEF InsertByIndex
<1>6. /\ t \in Seq(Nat) /\ Len(t) = n + 1
      /\ \A i \in 1..m : t[i] = s[i]
      /\ t[m + 1] = e
      /\ \A i \in m + 2..n + 1 : t[i] = s[i - 1]
  <2>1. m \in 0..Len(s)
    BY <1>4
  <2>2. Inserted(t, s, m, e, Nat)
    BY <1>1, <1>5, <2>1, InsertAtIs
  <2> QED BY <2>2 DEF Inserted
<1>7. ASSUME Ascending(s), e \notin Range(s)
      PROVE  Ascending(t) /\ Range(t) = Range(s) \cup {e}
  <2>1. /\ \A i \in 1..n : s[i] # e
        /\ \A i, j \in 1..n : i < j => s[i] < s[j]
    BY <1>1, <1>7 DEF Ascending, Range
  <2>5. \A i \in 1..m : s[i] < e
    <3> SUFFICES ASSUME NEW i \in 1..m PROVE s[i] < e
      OBVIOUS
    <3>1. i \in 1..n /\ m \in 1..n
      BY <1>1, <1>4
    <3>2. s[m] <= e /\ s[m] # e
      BY <1>4, <2>1, <3>1
    <3>3. i = m \/ s[i] < s[m]
      BY <1>4, <2>1, <3>1
    <3> QED BY <1>1, <3>1, <3>2, <3>3
  <2>6. \A i \in m + 1..n : e < s[i]
    BY <1>1, <2>1, <1>4
  <2>10. DOMAIN t = 1..n + 1
    BY <1>6
  <2>11. ASSUME NEW i \in 1..n + 1, NEW j \in 1..n + 1, i < j PROVE t[i] < t[j]
    <3>1. CASE j <= m
      <4>1. i \in 1..m /\ j \in 1..m /\ i \in 1..n /\ j \in 1..n
        BY <1>1, <1>4, <2>11, <3>1
      <4> QED BY <2>1, <1>6, <2>11, <4>1
    <3>2. CASE j = m + 1
      <4>1. i \in 1..m
        BY <1>4, <2>11, <3>2
      <4> QED BY <2>5, <1>6, <3>2, <4>1
    <3>3. CASE j > m + 1
      <4>1. j \in m + 2..n + 1 /\ j - 1 \in m + 1..n /\ j - 1 \in 1..n
        BY <1>1, <1>4, <3>3
      <4>2. CASE i <= m
        <5>1. i \in 1..m /\ i \in 1..n /\ i < j - 1
          BY <1>1, <1>4, <3>3, <4>2
        <5> QED BY <2>1, <1>6, <4>1, <5>1
      <4>3. CASE i = m + 1
        BY <2>6, <1>6, <4>1, <4>3
      <4>4. CASE i > m + 1
        <5>1. i \in m + 2..n + 1 /\ i - 1 \in 1..n /\ i - 1 < j - 1
          BY <1>1, <1>4, <2>11, <4>4
        <5> QED BY <2>1, <1>6, <4>1, <5>1
      <4> QED BY <1>4, <4>2, <4>3, <4>4
    <3> QED BY <1>4, <3>1, <3>2, <3>3
  <2>13. ASSUME NEW x \in Range(t) PROVE x \in Range(s) \cup {e}
    <3>1. PICK i \in 1..n + 1 : x = t[i]
      BY <2>10 DEF Range
    <3>2. CASE i <= m
      <4>1. i \in 1..m /\ i \in 1..n
        BY <1>1, <1>4, <3>2
      <4> QED BY <1>1, <1>6, <3>1, <4>1 DEF Range
    <3>3. CASE i = m + 1
      BY <1>6, <3>1, <3>3
    <3>4. CASE i > m + 1
      <4>1. i \in m + 2..n + 1 /\ i - 1 \in 1..n
        BY <1>1, <1>4, <3>4
      <4> QED BY <1>1, <1>6, <3>1, <4>1 DEF Range
    <3> QED BY <1>4, <3>2, <3>3, <3>4
  <2>14. ASSUME NEW x \in Range(s) PROVE x \in Range(t)
    <3>1. PICK i \in 1..n : x = s[i]
      BY <1>1 DEF Range
    <3>2. CASE i <= m
      <4>1. i \in 1..m /\ i \in 1..n + 1
        BY <1>1, <1>4, <3>2
      <4> QED BY <1>6, <2>10, <3>1, <4>1 DEF Range
    <3>3. CASE i > m
      <4>1. i + 1 \in m + 2..n + 1 /\ i + 1 \in 1..n + 1 /\ (i + 1) - 1 = i
        BY <1>1, <1>4, <3>3
      <4>2. t[i + 1] = x
        BY <1>6, <3>1, <4>1
      <4> QED BY <2>10, <4>1, <4>2 DEF Range
    <3> QED BY <1>4, <3>2, <3>3
  <2>15. e \in Range(t)
    <3>1. m + 1 \in 1..n + 1
      BY <1>1, <1>4
    <3> QED BY <1>6, <2>10, <3>1 DEF Range
  <2>16. Ascending(t)
    BY <1>6, <2>11 DEF Ascending
  <2> QED BY <2>13, <2>14, <2>15, <2>16
<1> QED BY <1>6, <1>7

\* Sorting, file by file.
SortTraced(read) ==
  \E x \in [0..Len(read) -> Seq(Nat)] :
    /\ x[0] = <<>>
    /\ \A k \in 1..Len(read) : x[k] = InsertByIndex(x[k - 1], read[k])
    /\ Sorted(read) = x[Len(read)]

(* Sorting has its values after each file. *)
LEMMA SortedTraced ==
  ASSUME NEW read \in Seq(Nat)
  PROVE  SortTraced(read)
<1> DEFINE n == Len(read)
           V == Seq(Nat)
           D == 1..n
           F == [y \in V \X D |-> InsertByIndex(y[1], read[y[2]])]
<1>1. n \in Nat /\ DOMAIN read = D /\ <<>> \in V
  <2>1. <<>> \in Seq(Nat)
    OBVIOUS
  <2> QED BY <2>1
<1>2. F \in [V \X D -> V]
  <2> SUFFICES ASSUME NEW v \in V, NEW k \in D PROVE InsertByIndex(v, read[k]) \in V
    OBVIOUS
  <2>1. read[k] \in Nat
    OBVIOUS
  <2> QED BY <2>1, InsertByIndexIs
<1>3. PICK it : it = CHOOSE h : h = [s \in SUBSET D |-> IF s = {} THEN <<>>
                         ELSE InsertByIndex(h[s \ {Max(s)}], read[Max(s)])]
  OBVIOUS
<1>4. Sorted(read) = it[D]
  BY <1>1, <1>3 DEF Sorted, FoldLeft, MapThenFoldSet
<1>5. ASSUME NEW s \in SUBSET D, s # {}, NEW v \in V
      PROVE  F[<<v, Max(s)>>] = InsertByIndex(v, read[Max(s)])
  BY <1>1, <1>5, MaxTaken
<1>6. PICK g \in [SUBSET D -> V] : IsFold(g, n, <<>>, F)
  BY <1>1, <1>2, FoldExists
<1>7. g = [s \in SUBSET D |-> IF s = {} THEN <<>>
                              ELSE InsertByIndex(g[s \ {Max(s)}], read[Max(s)])]
  <2>1. ASSUME NEW s \in SUBSET D
        PROVE  g[s] = IF s = {} THEN <<>>
                      ELSE InsertByIndex(g[s \ {Max(s)}], read[Max(s)])
    BY <1>1, <1>5, <1>6, MaxTaken DEF IsFold
  <2> HIDE DEF F, n, D, V
  <2> QED BY <1>6, <2>1
<1>8. it = [s \in SUBSET D |-> IF s = {} THEN <<>>
                               ELSE InsertByIndex(it[s \ {Max(s)}], read[Max(s)])]
  BY <1>3, <1>7
<1> HIDE DEF F
<1>9. PICK x : IsTrace(x, n, V, <<>>, F) /\ it[D] = x[n]
  <2>1. Folds(it, n, V, <<>>, F)
    BY <1>5, <1>8 DEF Folds
  <2>2. HasTrace(it, n, V, <<>>, F)
    BY <1>1, <1>2, <2>1, FoldTrace
  <2> QED BY <2>2 DEF HasTrace
<1>10. ASSUME NEW k \in D PROVE x[k] = InsertByIndex(x[k - 1], read[k])
  <2>1. x[k] = F[<<x[k - 1], k>>] /\ x \in [0..n -> V]
    BY <1>9 DEF IsTrace
  <2>2. k - 1 \in 0..n
    BY <1>1
  <2>3. x[k - 1] \in V
    BY <2>1, <2>2
  <2> QED BY <2>1, <2>3 DEF F
<1>11. x \in [0..Len(read) -> Seq(Nat)] /\ x[0] = <<>> /\ Sorted(read) = x[Len(read)]
  BY <1>4, <1>9 DEF IsTrace
<1> QED BY <1>10, <1>11 DEF SortTraced

\* Sorting leaves the same files, in ascending order.
LEMMA SortedIs ==
  ASSUME NEW read \in Seq(Nat), IsInjective(read), NEW order, order = Sorted(read)
  PROVE  order \in Seq(Nat) /\ Ascending(order) /\ Range(order) = Range(read)
<1>1. PICK x \in [0..Len(read) -> Seq(Nat)] :
        /\ x[0] = <<>>
        /\ \A k \in 1..Len(read) : x[k] = InsertByIndex(x[k - 1], read[k])
        /\ Sorted(read) = x[Len(read)]
  BY SortedTraced DEF SortTraced
<1>2. /\ Len(read) \in Nat /\ DOMAIN read = 1..Len(read)
      /\ \A k \in 1..Len(read) : read[k] \in Nat
      /\ \A i, j \in 1..Len(read) : read[i] = read[j] => i = j
  BY DEF IsInjective
<1> DEFINE Before(k) == {read[i] : i \in 1..k}
           T == {k \in 0..Len(read) : Ascending(x[k]) /\ Range(x[k]) = Before(k)}
<1>3. 0 \in T
  <2>1. PICK s : s = <<>>
    OBVIOUS
  <2>2. Len(s) = 0 /\ DOMAIN s = 1..0
    BY <2>1
  <2>3. Ascending(s) /\ Range(s) = Before(0)
    BY <2>2 DEF Ascending, Range
  <2> QED BY <1>1, <1>2, <2>1, <2>3
<1>4. ASSUME NEW k \in 1..Len(read), k - 1 \in T PROVE k \in T
  <2>1. k - 1 \in 0..Len(read)
    BY <1>2
  <2>2. x[k - 1] \in Seq(Nat) /\ Ascending(x[k - 1]) /\ Range(x[k - 1]) = Before(k - 1)
    BY <1>1, <1>4, <2>1
  <2>3. read[k] \in Nat /\ read[k] \notin Before(k - 1)
    BY <1>2
  <2>4. Ascending(x[k]) /\ Range(x[k]) = Before(k - 1) \cup {read[k]}
    <3> DEFINE B == Before(k - 1)
    <3>1. PICK s, e, t : s = x[k - 1] /\ e = read[k] /\ t = x[k]
      OBVIOUS
    <3>2. t = InsertByIndex(s, e)
      BY <1>1, <3>1
    <3>3. s \in Seq(Nat) /\ Ascending(s) /\ Range(s) = B /\ e \in Nat /\ e \notin B
      BY <2>2, <2>3, <3>1
    <3> HIDE DEF B
    <3>4. Ascending(t) /\ Range(t) = B \cup {e}
      BY <3>2, <3>3, InsertByIndexIs
    <3> QED BY <3>1, <3>4 DEF B
  <2>5. Before(k) = Before(k - 1) \cup {read[k]}
    OBVIOUS
  <2>6. k \in 0..Len(read)
    BY <1>2
  <2> HIDE DEF Before
  <2>7. Ascending(x[k]) /\ Range(x[k]) = Before(k)
    BY <2>4, <2>5
  <2> QED BY <2>6, <2>7
<1> HIDE DEF T
<1>5. \A k \in 0..Len(read) : k \in T
  BY <1>2, <1>3, <1>4, UpTo
<1>6. Len(read) \in T /\ Len(read) \in 0..Len(read)
  BY <1>2, <1>5
<1>7. Ascending(order) /\ Range(order) = Before(Len(read)) /\ order \in Seq(Nat)
  BY <1>1, <1>6 DEF T
<1>8. Range(read) = Before(Len(read))
  BY <1>2 DEF Range
<1> QED BY <1>7, <1>8

\* The hits that a page and its assets may have.
FileIn(page, assets, i) == IF i = 0 THEN page ELSE assets[i]

PageHits(page, assets, pat, options) ==
  {hit \in Hit : /\ hit.file \in 0..Len(assets)
                 /\ HitIsRight(FileIn(page, assets, hit.file), pat, options, hit)}

\* What is searched, and the hits that there are.
Input(page, assets, pat, options, R) ==
  /\ page \in Seq(Byte) /\ assets \in Seq(Seq(Byte)) /\ pat \in Pattern /\ options \in Option
  /\ R = PageHits(page, assets, pat, options)

\* Results with hits of a set have hits of a larger one.
LEMMA ResultsGrow ==
  ASSUME NEW S, NEW R, S \subseteq R
  PROVE  Results(S) \subseteq Results(R) /\ Seq(S) \subseteq Seq(R)
<1>1. \A s \in Seq(S) : s \in Seq(R)
  BY SeqMonotonic
<1>2. ASSUME NEW r \in Results(S) PROVE r \in Results(R)
  <2>1. /\ r.hits \in Seq(S) /\ r.filesFailed \in Nat /\ r.notPrinted \in Nat
        /\ r.filesNotPrinted \in Nat /\ r.shortened \in Nat
        /\ r = [hits |-> r.hits, filesFailed |-> r.filesFailed, notPrinted |-> r.notPrinted,
                filesNotPrinted |-> r.filesNotPrinted, shortened |-> r.shortened]
    BY DEF Results
  <2>2. r.hits \in Seq(R)
    BY <1>1, <2>1
  <2> QED BY <2>1, <2>2 DEF Results
<1> QED BY <1>1, <1>2

\* What is printed of the page or of an asset.
LEMMA FileIs ==
  ASSUME NEW page, NEW assets, NEW pat, NEW options, NEW R, Input(page, assets, pat, options, R),
         NEW i \in 0..Len(assets), NEW bytes, bytes = FileIn(page, assets, i),
         NEW chunk, chunk = GrepBytes(i, bytes, pat, options),
         NEW all, all = HitsOf(i, bytes, pat, options)
  PROVE  chunk \in Results(R) /\ all \in Seq(R) /\ Prints(chunk, all, options) /\ chunk.filesFailed = 0
<1>1. /\ page \in Seq(Byte) /\ assets \in Seq(Seq(Byte)) /\ pat \in Pattern /\ options \in Option
      /\ R = PageHits(page, assets, pat, options) /\ Len(assets) \in Nat
  BY DEF Input
<1>2. bytes \in Seq(Byte) /\ i \in Nat
  <2>1. i # 0 => i \in 1..Len(assets)
    BY <1>1
  <2>2. i # 0 => assets[i] \in Seq(Byte)
    BY <1>1, <2>1
  <2> QED BY <1>1, <2>2 DEF FileIn
<1>3. /\ chunk \in Results(RightHits(i, bytes, pat, options))
      /\ all \in Seq(RightHits(i, bytes, pat, options))
      /\ Prints(chunk, all, options) /\ chunk.filesFailed = 0
  BY <1>1, <1>2, GrepBytesIs
<1>4. RightHits(i, bytes, pat, options) \subseteq R
  BY <1>1 DEF RightHits, PageHits
<1> QED BY <1>3, <1>4, ResultsGrow

\* What is printed of an asset.
LEMMA AssetIs ==
  ASSUME NEW page, NEW assets, NEW pat, NEW options, NEW R, Input(page, assets, pat, options, R),
         NEW i \in 1..Len(assets),
         NEW chunk, chunk = GrepBytes(i, assets[i], pat, options),
         NEW all, all = HitsOf(i, assets[i], pat, options)
  PROVE  chunk \in Results(R) /\ all \in Seq(R) /\ Prints(chunk, all, options) /\ chunk.filesFailed = 0
<1>1. Len(assets) \in Nat
  BY DEF Input
<1>2. i \in 0..Len(assets) /\ assets[i] = FileIn(page, assets, i)
  BY <1>1 DEF FileIn
<1> QED BY <1>2, FileIs

\* Merging results with such hits gives one.
LEMMA MergeChunkType ==
  ASSUME NEW R, NEW r \in Results(R), NEW c \in Results(R), NEW max \in Int
  PROVE  MergeChunk(r, c, max) \in Results(R)
<1> DEFINE room == IF max = Unlimited THEN Len(c.hits) ELSE Larger(0, max - Len(r.hits))
           q == Smaller(room, Len(c.hits))
           omitted == Larger(0, Len(c.hits) - room)
           m == MergeChunk(r, c, max)
<1>1. /\ r.notPrinted \in Nat /\ r.filesNotPrinted \in Nat
      /\ r.filesFailed \in Nat /\ r.shortened \in Nat
      /\ c.notPrinted \in Nat /\ c.filesNotPrinted \in Nat
      /\ c.filesFailed \in Nat /\ c.shortened \in Nat
  BY DEF Results
<1>2. r.hits \in Seq(R) /\ c.hits \in Seq(R)
  BY DEF Results
<1>3. Len(r.hits) \in Nat /\ Len(c.hits) \in Nat
  BY <1>2
<1>4. room \in Nat
  BY <1>3 DEF Larger
<1> HIDE DEF room
<1>5. q \in 0..Len(c.hits) /\ omitted \in Nat
  BY <1>3, <1>4 DEF Larger, Smaller
<1>6. SubSeq(c.hits, 1, q) \in Seq(R)
  BY <1>2, <1>5, FirstAre
<1>7. r.hits \o SubSeq(c.hits, 1, q) \in Seq(R)
  BY <1>2, <1>6, ConcatProperties
<1>8. m = [hits |-> r.hits \o SubSeq(c.hits, 1, q),
           filesFailed |-> r.filesFailed + c.filesFailed,
           notPrinted |-> r.notPrinted + c.notPrinted + omitted,
           filesNotPrinted |-> r.filesNotPrinted + c.filesNotPrinted
                                 + (IF omitted > 0 /\ c.filesNotPrinted = 0 THEN 1 ELSE 0),
           shortened |-> r.shortened + c.shortened]
  BY DEF MergeChunk, room
<1> HIDE DEF q, omitted, m
<1>9. /\ r.filesFailed + c.filesFailed \in Nat
      /\ r.notPrinted + c.notPrinted + omitted \in Nat
      /\ r.filesNotPrinted + c.filesNotPrinted
           + (IF omitted > 0 /\ c.filesNotPrinted = 0 THEN 1 ELSE 0) \in Nat
      /\ r.shortened + c.shortened \in Nat
  <2>1. \A a, b, d \in Nat : a + b \in Nat /\ a + b + d \in Nat
    OBVIOUS
  <2>2. (IF omitted > 0 /\ c.filesNotPrinted = 0 THEN 1 ELSE 0) \in Nat
    OBVIOUS
  <2>3. r.filesFailed + c.filesFailed \in Nat
    BY <1>1, <2>1
  <2>4. r.notPrinted + c.notPrinted + omitted \in Nat
    BY <1>1, <1>5, <2>1
  <2>5. r.filesNotPrinted + c.filesNotPrinted
           + (IF omitted > 0 /\ c.filesNotPrinted = 0 THEN 1 ELSE 0) \in Nat
    BY <1>1, <2>1, <2>2
  <2>6. r.shortened + c.shortened \in Nat
    BY <1>1, <2>1
  <2> QED BY <2>3, <2>4, <2>5, <2>6
<1>10. m \in Results(R)
  BY <1>7, <1>8, <1>9 DEF Results
<1> QED BY <1>10 DEF m

Files(assets) == [i \in DOMAIN assets |-> i]

\* The hits with those of file i.
Joined(assets, lost, pat, options, v, i) ==
  IF Files(assets)[i] \in lost THEN v
  ELSE v \o HitsOf(Files(assets)[i], assets[Files(assets)[i]], pat, options)

\* All hits of the assets, one by one.
AllTraced(assets, lost, pat, options, R) ==
  \E x \in [0..Len(assets) -> Seq(R)] :
    /\ x[0] = <<>>
    /\ \A k \in 1..Len(assets) :
         x[k] = (IF k \in lost THEN x[k - 1] ELSE x[k - 1] \o HitsOf(k, assets[k], pat, options))
    /\ AssetHits(assets, lost, pat, options) = x[Len(assets)]

(* All hits are those up to each asset, one after the other. *)
LEMMA AssetHitsTraced ==
  ASSUME NEW page, NEW assets, NEW pat, NEW options, NEW R, Input(page, assets, pat, options, R),
         NEW lost
  PROVE  AllTraced(assets, lost, pat, options, R)
<1> DEFINE n == Len(assets)
           V == Seq(R)
           D == 1..n
           F == [y \in V \X D |-> Joined(assets, lost, pat, options, y[1], y[2])]
<1>1. n \in Nat /\ DOMAIN Files(assets) = D /\ <<>> \in V
  <2>1. <<>> \in Seq(R)
    OBVIOUS
  <2>2. assets \in Seq(Seq(Byte))
    BY DEF Input
  <2> QED BY <2>1, <2>2 DEF Files
<1>2. F \in [V \X D -> V]
  <2> SUFFICES ASSUME NEW v \in V, NEW k \in D PROVE Joined(assets, lost, pat, options, v, k) \in V
    OBVIOUS
  <2>1. PICK all : all = HitsOf(k, assets[k], pat, options)
    OBVIOUS
  <2>2. PICK chunk : chunk = GrepBytes(k, assets[k], pat, options)
    OBVIOUS
  <2>3. all \in Seq(R)
    BY <2>1, <2>2, AssetIs
  <2>4. v \o all \in Seq(R)
    BY <2>3, ConcatProperties
  <2>5. Files(assets)[k] = k
    BY <1>1 DEF Files
  <2> QED BY <2>1, <2>4, <2>5 DEF Joined
<1>3. PICK it : it = CHOOSE h : h = [s \in SUBSET D |->
                      IF s = {} THEN <<>>
                      ELSE Joined(assets, lost, pat, options, h[s \ {Max(s)}], Max(s))]
  OBVIOUS
<1>4. AssetHits(assets, lost, pat, options) = it[D]
  BY <1>1, <1>3 DEF AssetHits, Files, Joined, FoldLeft, MapThenFoldSet
<1>5. ASSUME NEW s \in SUBSET D, s # {}, NEW v \in V
      PROVE  F[<<v, Max(s)>>] = Joined(assets, lost, pat, options, v, Max(s))
  BY <1>1, <1>5, MaxTaken
<1>6. PICK g \in [SUBSET D -> V] : IsFold(g, n, <<>>, F)
  BY <1>1, <1>2, FoldExists
<1>7. g = [s \in SUBSET D |-> IF s = {} THEN <<>>
                              ELSE Joined(assets, lost, pat, options, g[s \ {Max(s)}], Max(s))]
  <2>1. ASSUME NEW s \in SUBSET D
        PROVE  g[s] = IF s = {} THEN <<>>
                      ELSE Joined(assets, lost, pat, options, g[s \ {Max(s)}], Max(s))
    BY <1>1, <1>5, <1>6, MaxTaken DEF IsFold
  <2> HIDE DEF F, n, D, V
  <2> QED BY <1>6, <2>1
<1>8. it = [s \in SUBSET D |-> IF s = {} THEN <<>>
                               ELSE Joined(assets, lost, pat, options, it[s \ {Max(s)}], Max(s))]
  BY <1>3, <1>7
<1> HIDE DEF F
<1>9. PICK x : IsTrace(x, n, V, <<>>, F) /\ it[D] = x[n]
  <2>1. Folds(it, n, V, <<>>, F)
    BY <1>5, <1>8 DEF Folds
  <2>2. HasTrace(it, n, V, <<>>, F)
    BY <1>1, <1>2, <2>1, FoldTrace
  <2> QED BY <2>2 DEF HasTrace
<1>10. ASSUME NEW k \in D
       PROVE  x[k] = (IF k \in lost THEN x[k - 1] ELSE x[k - 1] \o HitsOf(k, assets[k], pat, options))
  <2>1. x[k] = F[<<x[k - 1], k>>] /\ x \in [0..n -> V]
    BY <1>9 DEF IsTrace
  <2>2. k - 1 \in 0..n
    BY <1>1
  <2>3. x[k - 1] \in V
    BY <2>1, <2>2
  <2>4. x[k] = Joined(assets, lost, pat, options, x[k - 1], k)
    BY <2>1, <2>3 DEF F
  <2>5. Files(assets)[k] = k
    BY <1>1 DEF Files
  <2> QED BY <2>4, <2>5 DEF Joined
<1>11. /\ x \in [0..Len(assets) -> Seq(R)]
       /\ x[0] = <<>>
       /\ AssetHits(assets, lost, pat, options) = x[Len(assets)]
  BY <1>4, <1>9 DEF IsTrace
<1> QED BY <1>10, <1>11 DEF AllTraced

\* The result with what is found in the i-th file that was read.
Merged(assets, order, pat, options, v, i) ==
  MergeChunk(v, GrepBytes(order[i], assets[order[i]], pat, options), options.maxHits)

\* Merging the files that were read, one by one.
MergedTraced(assets, read, order, failures, pat, options, R) ==
  \E x \in [0..Len(order) -> Results(R)] :
    /\ x[0] = [NoResult EXCEPT !.filesFailed = failures]
    /\ \A k \in 1..Len(order) :
         x[k] = Merged(assets, order, pat, options, x[k - 1], k)
    /\ GrepAssets(assets, read, failures, pat, options) = x[Len(order)]

(* Merging has its values after each file that was read. *)
LEMMA GrepAssetsTraced ==
  ASSUME NEW page, NEW assets, NEW pat, NEW options, NEW R, Input(page, assets, pat, options, R),
         NEW read, NEW order \in Seq(1..Len(assets)), order = Sorted(read), NEW failures \in Nat
  PROVE  MergedTraced(assets, read, order, failures, pat, options, R)
<1> DEFINE n == Len(order)
           V == Results(R)
           D == 1..n
           F == [y \in V \X D |-> Merged(assets, order, pat, options, y[1], y[2])]
<1>1. n \in Nat /\ DOMAIN order = D /\ [NoResult EXCEPT !.filesFailed = failures] \in V
  <2>1. <<>> \in Seq(R)
    OBVIOUS
  <2>2. [NoResult EXCEPT !.filesFailed = failures]
          = [hits |-> <<>>, filesFailed |-> failures, notPrinted |-> 0, filesNotPrinted |-> 0,
             shortened |-> 0]
    BY DEF NoResult
  <2>3. [NoResult EXCEPT !.filesFailed = failures] \in V
    <3>1. PICK e : e = <<>>
      OBVIOUS
    <3>2. e \in Seq(R)
      BY <2>1, <3>1
    <3>3. [hits |-> e, filesFailed |-> failures, notPrinted |-> 0, filesNotPrinted |-> 0,
           shortened |-> 0] \in Results(R)
      BY <3>2 DEF Results
    <3> QED BY <2>2, <3>1, <3>3
  <2>4. n \in Nat /\ DOMAIN order = D
    OBVIOUS
  <2> QED BY <2>3, <2>4
<1>2. F \in [V \X D -> V]
  <2> SUFFICES ASSUME NEW v \in V, NEW k \in D PROVE Merged(assets, order, pat, options, v, k) \in V
    OBVIOUS
  <2>1. PICK i : i = order[k]
    OBVIOUS
  <2>2. i \in 1..Len(assets)
    BY <2>1
  <2>3. PICK all : all = HitsOf(i, assets[i], pat, options)
    OBVIOUS
  <2>4. PICK chunk : chunk = GrepBytes(i, assets[i], pat, options)
    OBVIOUS
  <2>5. chunk \in Results(R)
    BY <2>2, <2>3, <2>4, AssetIs
  <2>6. options.maxHits \in Int
    BY DEF Input, Option, Unlimited
  <2>7. MergeChunk(v, chunk, options.maxHits) \in V
    BY <2>5, <2>6, MergeChunkType
  <2> QED BY <2>1, <2>4, <2>7 DEF Merged
<1>3. PICK it : it = CHOOSE h : h = [s \in SUBSET D |->
                      IF s = {} THEN [NoResult EXCEPT !.filesFailed = failures]
                      ELSE Merged(assets, order, pat, options, h[s \ {Max(s)}], Max(s))]
  OBVIOUS
<1>4. GrepAssets(assets, read, failures, pat, options) = it[D]
  BY <1>1, <1>3 DEF GrepAssets, Merged, FoldLeft, MapThenFoldSet
<1>5. ASSUME NEW s \in SUBSET D, s # {}, NEW v \in V
      PROVE  F[<<v, Max(s)>>] = Merged(assets, order, pat, options, v, Max(s))
  BY <1>1, <1>5, MaxTaken
<1>6. PICK g \in [SUBSET D -> V] : IsFold(g, n, [NoResult EXCEPT !.filesFailed = failures], F)
  BY <1>1, <1>2, FoldExists
<1>7. g = [s \in SUBSET D |-> IF s = {} THEN [NoResult EXCEPT !.filesFailed = failures]
                              ELSE Merged(assets, order, pat, options, g[s \ {Max(s)}], Max(s))]
  <2>1. ASSUME NEW s \in SUBSET D
        PROVE  g[s] = IF s = {} THEN [NoResult EXCEPT !.filesFailed = failures]
                      ELSE Merged(assets, order, pat, options, g[s \ {Max(s)}], Max(s))
    BY <1>1, <1>5, <1>6, MaxTaken DEF IsFold
  <2> HIDE DEF F, n, D, V
  <2> QED BY <1>6, <2>1
<1>8. it = [s \in SUBSET D |-> IF s = {} THEN [NoResult EXCEPT !.filesFailed = failures]
                               ELSE Merged(assets, order, pat, options, it[s \ {Max(s)}], Max(s))]
  BY <1>3, <1>7
<1> HIDE DEF F
<1>9. PICK x : IsTrace(x, n, V, [NoResult EXCEPT !.filesFailed = failures], F) /\ it[D] = x[n]
  <2>1. Folds(it, n, V, [NoResult EXCEPT !.filesFailed = failures], F)
    BY <1>5, <1>8 DEF Folds
  <2>2. HasTrace(it, n, V, [NoResult EXCEPT !.filesFailed = failures], F)
    BY <1>1, <1>2, <2>1, FoldTrace
  <2> QED BY <2>2 DEF HasTrace
<1>10. ASSUME NEW k \in D
       PROVE  x[k] = Merged(assets, order, pat, options, x[k - 1], k)
  <2>1. x[k] = F[<<x[k - 1], k>>] /\ x \in [0..n -> V]
    BY <1>9 DEF IsTrace
  <2>2. k - 1 \in 0..n
    BY <1>1
  <2>3. x[k - 1] \in V
    BY <2>1, <2>2
  <2>4. x[k] = Merged(assets, order, pat, options, x[k - 1], k)
    BY <2>1, <2>3 DEF F
  <2> QED BY <2>4
<1>11. /\ x \in [0..Len(order) -> Results(R)]
       /\ x[0] = [NoResult EXCEPT !.filesFailed = failures]
       /\ GrepAssets(assets, read, failures, pat, options) = x[Len(order)]
  BY <1>4, <1>9 DEF IsTrace
<1> QED BY <1>10, <1>11 DEF MergedTraced

\* The files up to k are the first c of those that are merged.
Cut(order, c, k) == \A j \in 1..Len(order) : order[j] <= k <=> j <= c

\* File k is the next of those that are merged, or is not merged.
LEMMA CutOn ==
  ASSUME NEW order \in Seq(Nat), Ascending(order), NEW k \in Nat \ {0}, NEW c \in 0..Len(order),
         Cut(order, c, k - 1)
  PROVE  /\ k \notin Range(order) => Cut(order, c, k)
         /\ k \in Range(order) => c + 1 \in 1..Len(order) /\ order[c + 1] = k /\ Cut(order, c + 1, k)
<1>1. /\ Len(order) \in Nat /\ DOMAIN order = 1..Len(order)
      /\ \A j \in 1..Len(order) : order[j] \in Nat
  OBVIOUS
<1>2. \A j \in 1..Len(order) : order[j] <= k - 1 <=> j <= c
  BY DEF Cut
<1>3. ASSUME k \notin Range(order) PROVE Cut(order, c, k)
  <2>1. \A j \in 1..Len(order) : order[j] # k
    BY <1>1, <1>3 DEF Range
  <2>2. \A j \in 1..Len(order) : order[j] <= k <=> order[j] <= k - 1
    BY <1>1, <2>1
  <2> QED BY <1>2, <2>2 DEF Cut
<1>4. ASSUME k \in Range(order)
      PROVE  c + 1 \in 1..Len(order) /\ order[c + 1] = k /\ Cut(order, c + 1, k)
  <2>1. PICK j \in 1..Len(order) : order[j] = k
    BY <1>1, <1>4 DEF Range
  <2>2. ~ (j <= c) /\ c + 1 \in 1..Len(order)
    BY <1>1, <1>2, <2>1
  <2>3. ~ (order[c + 1] <= k - 1)
    BY <1>1, <1>2, <2>2
  <2>4. j = c + 1
    <3>1. CASE c + 1 < j
      <4>1. order[c + 1] < order[j]
        BY <2>2, <3>1 DEF Ascending
      <4> QED BY <1>1, <2>1, <2>2, <2>3, <4>1
    <3> QED BY <1>1, <2>2, <3>1
  <2>5. ASSUME NEW i \in 1..Len(order) PROVE order[i] <= k <=> i <= c + 1
    <3>1. CASE i <= c
      BY <1>1, <1>2, <3>1
    <3>2. CASE i = c + 1
      BY <1>1, <2>1, <2>4, <3>2
    <3>3. CASE i > c + 1
      <4>1. order[c + 1] < order[i]
        BY <2>2, <3>3 DEF Ascending
      <4>2. order[i] > k
        BY <1>1, <2>1, <2>4, <4>1
      <4> QED BY <1>1, <3>3, <4>2
    <3> QED BY <1>1, <3>1, <3>2, <3>3
  <2> QED BY <2>1, <2>2, <2>4, <2>5 DEF Cut
<1> QED BY <1>3, <1>4

\* The assets, in whatever order they were read.
LEMMA GrepAssetsIs ==
  ASSUME NEW page, NEW assets, NEW pat, NEW options, NEW R, Input(page, assets, pat, options, R),
         NEW read \in Seq(1..Len(assets)), IsInjective(read), NEW failures \in Nat,
         NEW lost, lost = (1..Len(assets)) \ Range(read),
         NEW printed, printed = GrepAssets(assets, read, failures, pat, options),
         NEW all, all = AssetHits(assets, lost, pat, options)
  PROVE  /\ printed \in Results(R) /\ all \in Seq(R) /\ Prints(printed, all, options)
         /\ printed.filesFailed = failures
<1> DEFINE n == Len(assets)
<1>1. n \in Nat /\ options \in Option
  BY DEF Input
<1>2. PICK order : order = Sorted(read)
  OBVIOUS
<1>3. order \in Seq(Nat) /\ Ascending(order) /\ Range(order) = Range(read)
  <2>1. read \in Seq(Nat)
    <3>1. 1..n \subseteq Nat
      OBVIOUS
    <3> HIDE DEF n
    <3> QED BY <3>1, SeqMonotonic
  <2> QED BY <1>2, <2>1, SortedIs
<1>4. Range(order) \subseteq 1..n /\ DOMAIN order = 1..Len(order) /\ Len(order) \in Nat
  <2>1. Range(read) \subseteq 1..n
    BY DEF Range
  <2> QED BY <1>3, <2>1
<1>5. \A j \in 1..Len(order) : order[j] \in 1..n
  BY <1>4 DEF Range
<1>6. order \in Seq(1..n)
  BY <1>3, <1>5
<1>7. PICK x \in [0..Len(order) -> Results(R)] :
        /\ x[0] = [NoResult EXCEPT !.filesFailed = failures]
        /\ \A k \in 1..Len(order) : x[k] = Merged(assets, order, pat, options, x[k - 1], k)
        /\ printed = x[Len(order)]
  <2>1. MergedTraced(assets, read, order, failures, pat, options, R)
    BY <1>2, <1>6, GrepAssetsTraced
  <2> QED BY <2>1 DEF MergedTraced
<1>8. PICK y \in [0..n -> Seq(R)] :
        /\ y[0] = <<>>
        /\ \A k \in 1..n : y[k] = (IF k \in lost THEN y[k - 1]
                                   ELSE y[k - 1] \o HitsOf(k, assets[k], pat, options))
        /\ all = y[n]
  <2>1. AllTraced(assets, lost, pat, options, R)
    BY AssetHitsTraced
  <2> QED BY <2>1 DEF AllTraced
<1> DEFINE Agree(c, k) == /\ Cut(order, c, k)
                          /\ Prints(x[c], y[k], options) /\ x[c].filesFailed = failures
           T == {k \in 0..n : \E c \in 0..Len(order) : Agree(c, k)}
<1>9. 0 \in T
  <2>1. Cut(order, 0, 0)
    BY <1>4, <1>5 DEF Cut
  <2>2. PICK r, s : r = x[0] /\ s = y[0]
    OBVIOUS
  <2>3. r.hits = <<>> /\ r.filesFailed = failures /\ r.notPrinted = 0 /\ r.filesNotPrinted = 0
    BY <1>7, <2>2 DEF NoResult
  <2>4. s = <<>> /\ s \in Seq(R) /\ Len(s) = 0
    BY <1>1, <1>8, <2>2
  <2>5. Kept(s, options) = 0
    <3>1. Kept(s, options) \in 0..Len(s)
      BY <1>1, <2>4, KeptIs
    <3> QED BY <2>4, <3>1
  <2>6. SubSeq(s, 1, 0) = s
    <3>1. 0 \in 0..Len(s) /\ Len(s) = 0 /\ \A i \in 1..0 : s[i] = s[i]
      BY <2>4
    <3> QED BY <2>4, <3>1, FirstIs
  <2>7. Prints(r, s, options)
    BY <2>3, <2>4, <2>5, <2>6 DEF Prints
  <2>8. 0 \in 0..Len(order) /\ 0 \in 0..n
    BY <1>1, <1>4
  <2> QED BY <2>1, <2>2, <2>3, <2>7, <2>8
<1>10. ASSUME NEW k \in 1..n, k - 1 \in T PROVE k \in T
  <2>1. PICK c \in 0..Len(order) : Agree(c, k - 1)
    BY <1>10
  <2>2. k \in Nat \ {0} /\ k \in 0..n /\ k - 1 \in 0..n
    BY <1>1
  <2>3. /\ k \notin Range(order) => Cut(order, c, k)
        /\ k \in Range(order) => c + 1 \in 1..Len(order) /\ order[c + 1] = k /\ Cut(order, c + 1, k)
    BY <1>3, <2>1, <2>2, CutOn
  <2>4. CASE k \in lost
    <3>1. k \notin Range(order) /\ y[k] = y[k - 1]
      BY <1>3, <1>8, <2>4
    <3>2. Agree(c, k)
      BY <2>1, <2>3, <3>1
    <3> HIDE DEF Agree
    <3> QED BY <2>2, <3>2
  <2>5. CASE k \notin lost
    <3>1. k \in Range(order)
      BY <1>3, <2>5
    <3>2. c + 1 \in 1..Len(order) /\ order[c + 1] = k /\ Cut(order, c + 1, k)
      BY <2>3, <3>1
    <3>3. PICK chunk, hits : /\ chunk = GrepBytes(k, assets[k], pat, options)
                             /\ hits = HitsOf(k, assets[k], pat, options)
      OBVIOUS
    <3>4. /\ chunk \in Results(R) /\ hits \in Seq(R) /\ Prints(chunk, hits, options)
          /\ chunk.filesFailed = 0
      BY <3>3, AssetIs
    <3>5. PICK r, s, m : r = x[c] /\ s = y[k - 1] /\ m = MergeChunk(r, chunk, options.maxHits)
      OBVIOUS
    <3>6. r \in Results(R) /\ s \in Seq(R) /\ Prints(r, s, options) /\ r.filesFailed = failures
      BY <1>7, <1>8, <2>1, <2>2, <3>5
    <3>7. Prints(m, s \o hits, options) /\ m.filesFailed = r.filesFailed + chunk.filesFailed
      BY <1>1, <3>4, <3>5, <3>6, MergeChunkIs
    <3>8. m.filesFailed = failures
      BY <3>4, <3>6, <3>7
    <3>9. x[c + 1] = m
      <4>1. (c + 1) - 1 = c
        BY <1>4
      <4>2. x[c + 1] = Merged(assets, order, pat, options, x[(c + 1) - 1], c + 1)
        BY <1>7, <3>2
      <4> QED BY <3>2, <3>3, <3>5, <4>1, <4>2 DEF Merged
    <3>10. y[k] = s \o hits
      BY <1>8, <2>5, <3>3, <3>5
    <3>11. Agree(c + 1, k) /\ c + 1 \in 0..Len(order)
      BY <1>4, <3>2, <3>7, <3>8, <3>9, <3>10
    <3> HIDE DEF Agree
    <3> QED BY <2>2, <3>11
  <2> QED BY <2>4, <2>5
<1> HIDE DEF T
<1>11. n \in T
  <2>1. \A k \in 0..n : k \in T
    BY <1>1, <1>9, <1>10, UpTo
  <2> QED BY <1>1, <2>1
<1>12. PICK c \in 0..Len(order) : Agree(c, n)
  BY <1>11 DEF T
<1>13. c = Len(order)
  <2>1. CASE c < Len(order)
    <3>1. Len(order) \in 1..Len(order) /\ ~ (Len(order) <= c)
      BY <1>4, <2>1
    <3>2. order[Len(order)] <= n
      BY <1>1, <1>5, <3>1
    <3> QED BY <1>12, <3>1, <3>2 DEF Cut
  <2>2. PICK L : L = Len(order)
    OBVIOUS
  <2>3. L \in Nat /\ c \in 0..L
    BY <1>4, <2>2
  <2>4. c < L \/ c = L
    BY <2>3
  <2> QED BY <2>1, <2>2, <2>4
<1>14. printed \in Results(R) /\ all \in Seq(R)
  BY <1>1, <1>4, <1>7, <1>8
<1> QED BY <1>7, <1>8, <1>12, <1>13, <1>14

\* The page and its assets.
RunRight(printed, page, assets, lost, failures, pat, options, R) ==
  /\ printed \in Results(R) /\ printed.filesFailed = failures
  /\ Prints(printed, AllHits(page, assets, lost, pat, options), options)

(* run prints the first hits of the page and its assets, in their order. *)
LEMMA RunIs ==
  ASSUME NEW page, NEW assets, NEW pat, NEW options, NEW R, Input(page, assets, pat, options, R),
         NEW read \in Seq(1..Len(assets)), IsInjective(read), NEW failures \in Nat,
         NEW lost, lost = (1..Len(assets)) \ Range(read),
         NEW printed, printed = Run(page, assets, read, failures, pat, options)
  PROVE  RunRight(printed, page, assets, lost, failures, pat, options, R)
<1>1. Len(assets) \in Nat /\ options \in Option
  BY DEF Input
<1>2. PICK c, a : c = GrepBytes(0, page, pat, options) /\ a = HitsOf(0, page, pat, options)
  OBVIOUS
<1>3. c \in Results(R) /\ a \in Seq(R) /\ Prints(c, a, options) /\ c.filesFailed = 0
  <2>1. 0 \in 0..Len(assets) /\ page = FileIn(page, assets, 0)
    BY <1>1 DEF FileIn
  <2> QED BY <1>2, <2>1, FileIs
<1>4. PICK d, b : /\ d = GrepAssets(assets, read, failures, pat, options)
                  /\ b = AssetHits(assets, lost, pat, options)
  OBVIOUS
<1>5. d \in Results(R) /\ b \in Seq(R) /\ Prints(d, b, options) /\ d.filesFailed = failures
  BY <1>4, GrepAssetsIs
<1>6. printed = MergeChunk(c, d, options.maxHits)
  BY <1>2, <1>4 DEF Run
<1>7. /\ printed \in Results(R) /\ Prints(printed, a \o b, options)
      /\ printed.filesFailed = c.filesFailed + d.filesFailed
  BY <1>1, <1>3, <1>5, <1>6, MergeChunkIs
<1>8. printed.filesFailed = failures
  BY <1>3, <1>5, <1>7
<1> QED BY <1>2, <1>4, <1>7, <1>8 DEF AllHits, RunRight

-----------------------------------------------------------------------------
(* The search: which files were read                                       *)

\* What `out` may be.
Outcome(n) == [file : 1..n, read : BOOLEAN]

\* The files with the one that ended i-th, if it belongs to them.
Filed(out, read, v, i) ==
  IF out[i].read = read THEN Append(v, out[i].file) ELSE v

\* The files, one by one.
FilesTraced(out, read, n0) ==
  \E x \in [0..Len(out) -> Seq(1..n0)] :
    /\ x[0] = <<>>
    /\ \A k \in 1..Len(out) :
         x[k] = Filed(out, read, x[k - 1], k)
    /\ FilesOf(out, read) = x[Len(out)]

(* The files that were read, or were not, after each result. *)
LEMMA FilesOfTraced ==
  ASSUME NEW n0 \in Nat, NEW out \in Seq(Outcome(n0)), NEW read
  PROVE  FilesTraced(out, read, n0)
<1> DEFINE n == Len(out)
           V == Seq(1..n0)
           D == 1..n
           F == [y \in V \X D |-> Filed(out, read, y[1], y[2])]
<1>1. n \in Nat /\ DOMAIN out = D /\ <<>> \in V
  <2>1. <<>> \in Seq(1..n0)
    OBVIOUS
  <2> QED BY <2>1
<1>2. F \in [V \X D -> V]
  <2> SUFFICES ASSUME NEW v \in V, NEW k \in D PROVE Filed(out, read, v, k) \in V
    OBVIOUS
  <2>1. out[k].file \in 1..n0
    <3>1. out[k] \in Outcome(n0)
      OBVIOUS
    <3> QED BY <3>1 DEF Outcome
  <2>2. Append(v, out[k].file) \in V
    BY <2>1, AppendProperties
  <2> QED BY <2>2 DEF Filed
<1>3. PICK it : it = CHOOSE h : h = [s \in SUBSET D |->
                      IF s = {} THEN <<>>
                      ELSE Filed(out, read, h[s \ {Max(s)}], Max(s))]
  OBVIOUS
<1>4. FilesOf(out, read) = it[D]
  BY <1>1, <1>3 DEF FilesOf, Filed, FoldLeft, MapThenFoldSet
<1>5. ASSUME NEW s \in SUBSET D, s # {}, NEW v \in V
      PROVE  F[<<v, Max(s)>>] = Filed(out, read, v, Max(s))
  BY <1>1, <1>5, MaxTaken
<1>6. PICK g \in [SUBSET D -> V] : IsFold(g, n, <<>>, F)
  BY <1>1, <1>2, FoldExists
<1>7. g = [s \in SUBSET D |-> IF s = {} THEN <<>>
                              ELSE Filed(out, read, g[s \ {Max(s)}], Max(s))]
  <2>1. ASSUME NEW s \in SUBSET D
        PROVE  g[s] = IF s = {} THEN <<>>
                      ELSE Filed(out, read, g[s \ {Max(s)}], Max(s))
    BY <1>1, <1>5, <1>6, MaxTaken DEF IsFold
  <2> HIDE DEF F, n, D, V
  <2> QED BY <1>6, <2>1
<1>8. it = [s \in SUBSET D |-> IF s = {} THEN <<>>
                               ELSE Filed(out, read, it[s \ {Max(s)}], Max(s))]
  BY <1>3, <1>7
<1> HIDE DEF F
<1>9. PICK x : IsTrace(x, n, V, <<>>, F) /\ it[D] = x[n]
  <2>1. Folds(it, n, V, <<>>, F)
    BY <1>5, <1>8 DEF Folds
  <2>2. HasTrace(it, n, V, <<>>, F)
    BY <1>1, <1>2, <2>1, FoldTrace
  <2> QED BY <2>2 DEF HasTrace
<1>10. ASSUME NEW k \in D
       PROVE  x[k] = Filed(out, read, x[k - 1], k)
  <2>1. x[k] = F[<<x[k - 1], k>>] /\ x \in [0..n -> V]
    BY <1>9 DEF IsTrace
  <2>2. k - 1 \in 0..n
    BY <1>1
  <2>3. x[k - 1] \in V
    BY <2>1, <2>2
  <2>4. x[k] = Filed(out, read, x[k - 1], k)
    BY <2>1, <2>3 DEF F
  <2> QED BY <2>4
<1>11. /\ x \in [0..Len(out) -> Seq(1..n0)]
       /\ x[0] = <<>>
       /\ FilesOf(out, read) = x[Len(out)]
  BY <1>4, <1>9 DEF IsTrace
<1> QED BY <1>10, <1>11 DEF FilesTraced

FilesDone(out) == {out[k].file : k \in DOMAIN out}

FilesWhere(out, read) == {out[k].file : k \in {j \in DOMAIN out : out[j].read = read}}

Once(out) == \A j, k \in DOMAIN out : out[j].file = out[k].file => j = k

FilesRight(files, out, read, n) ==
  /\ files \in Seq(1..n) /\ IsInjective(files) /\ Range(files) = FilesWhere(out, read)
  /\ Len(files) = Cardinality(FilesWhere(out, read))

\* The files with an outcome are listed once each.
LEMMA FilesOfIs ==
  ASSUME NEW n \in Nat, NEW out \in Seq(Outcome(n)), Once(out), NEW read,
         NEW files, files = FilesOf(out, read)
  PROVE  FilesRight(files, out, read, n)
<1>1. Len(out) \in Nat /\ DOMAIN out = 1..Len(out)
  OBVIOUS
<1>2. PICK x \in [0..Len(out) -> Seq(1..n)] :
        /\ x[0] = <<>>
        /\ \A k \in 1..Len(out) : x[k] = Filed(out, read, x[k - 1], k)
        /\ files = x[Len(out)]
  BY FilesOfTraced DEF FilesTraced
<1> DEFINE W(k) == {out[j].file : j \in {i \in 1..k : out[i].read = read}}
           Are(s, w) == /\ IsInjective(s) /\ Range(s) = w
                        /\ IsFiniteSet(w) /\ Len(s) = Cardinality(w)
           T == {k \in 0..Len(out) : Are(x[k], W(k))}
<1>3. 0 \in T
  <2>1. PICK s : s = x[0]
    OBVIOUS
  <2>2. Len(s) = 0 /\ DOMAIN s = 1..0
    BY <1>2, <2>1
  <2>3. IsInjective(s) /\ Range(s) = {} /\ W(0) = {}
    BY <2>2 DEF IsInjective, Range
  <2>4. Are(s, W(0))
    BY <2>2, <2>3, FS_EmptySet
  <2> HIDE DEF Are, W
  <2> QED BY <1>1, <2>1, <2>4
<1>4. ASSUME NEW k \in 1..Len(out), k - 1 \in T PROVE k \in T
  <2>1. k - 1 \in 0..Len(out) /\ k \in 0..Len(out)
    BY <1>1
  <2>2. PICK s, e, t, w : s = x[k - 1] /\ e = out[k].file /\ t = x[k] /\ w = W(k - 1)
    OBVIOUS
  <2>3. s \in Seq(1..n) /\ Are(s, w)
    BY <1>2, <1>4, <2>1, <2>2
  <2>4. e \in 1..n
    <3>1. out[k] \in Outcome(n)
      OBVIOUS
    <3> QED BY <2>2, <3>1 DEF Outcome
  <2>5. e \notin w
    <3> SUFFICES ASSUME NEW i \in 1..k - 1, out[i].file = e PROVE FALSE
      BY <2>2
    <3>1. i \in 1..Len(out) /\ i # k
      BY <1>1
    <3> QED BY <1>1, <2>2, <3>1 DEF Once
  <2>6. \A i \in 1..k : i \in 1..k - 1 \/ i = k
    OBVIOUS
  <2>7. 1..k - 1 \subseteq 1..k /\ k \in 1..k
    OBVIOUS
  <2>8. CASE out[k].read = read
    <3>1. t = Append(s, e)
      BY <1>2, <2>2, <2>8 DEF Filed
    <3>2. W(k) = w \cup {e}
      BY <2>2, <2>6, <2>7, <2>8
    <3> HIDE DEF W
    <3>3. IsInjective(t) /\ Range(t) = w \cup {e} /\ Len(t) = Len(s) + 1
      <4>1. s \in Seq(1..n) /\ IsInjective(s) /\ Range(s) = w
        BY <2>3
      <4> HIDE DEF Are
      <4>2. Appended(t, s, e)
        BY <2>4, <3>1, <4>1, AppendNew
      <4> QED BY <2>5, <4>1, <4>2 DEF Appended
    <3>4. IsFiniteSet(w \cup {e}) /\ Cardinality(w \cup {e}) = Cardinality(w) + 1
      BY <2>3, <2>5, FS_AddElement
    <3>5. Are(t, w \cup {e})
      BY <2>3, <3>3, <3>4
    <3> HIDE DEF Are
    <3> QED BY <2>1, <2>2, <3>2, <3>5
  <2>9. CASE out[k].read # read
    <3>1. t = s
      BY <1>2, <2>2, <2>9 DEF Filed
    <3>2. W(k) = w
      BY <2>2, <2>6, <2>7, <2>9
    <3> HIDE DEF Are, W
    <3> QED BY <2>1, <2>2, <2>3, <3>1, <3>2
  <2> QED BY <2>8, <2>9
<1> HIDE DEF T
<1>5. Len(out) \in T
  <2>1. \A k \in 0..Len(out) : k \in T
    BY <1>1, <1>3, <1>4, UpTo
  <2> QED BY <1>1, <2>1
<1>6. Are(x[Len(out)], W(Len(out))) /\ Len(out) \in 0..Len(out)
  BY <1>1, <1>5 DEF T
<1>7. W(Len(out)) = FilesWhere(out, read)
  BY <1>1 DEF FilesWhere
<1> HIDE DEF W
<1> QED BY <1>2, <1>6, <1>7 DEF FilesRight

-----------------------------------------------------------------------------
(* The search: its inductive invariant                                     *)

\* Each asset is fetched once, in the order of the page.
EachOnce ==
  /\ next \in 1..Len(Assets) + 1
  /\ Once(searched)
  /\ running \cup FilesDone(searched) = 1..next - 1
  /\ running \cap FilesDone(searched) = {}
  /\ Cardinality(running) + Len(searched) = next - 1

SearchIInv ==
  /\ SearchTypeOK
  /\ EachOnce
  /\ PoolIsFull
  /\ result # None => running = {}
  /\ HitsAreCounted
  /\ SnippetsHoldHits

\* The assets that are searched are files.
LEMMA AssetsAre ==
  ASSUME search \in Searches
  PROVE  /\ Assets \in Seq(Seq(Byte)) /\ Len(Assets) \in Nat /\ DOMAIN Assets = 1..Len(Assets)
         /\ AtOnce \in Nat \ {0}
<1>1. search.assets \in Seq(Seq(Byte)) /\ MaxTotalAssets \in Nat /\ ChunkConcurrency \in Nat
  BY SearchAssumption
<1>2. Len(search.assets) \in Nat
  BY <1>1
<1>3. Smaller(Len(search.assets), MaxTotalAssets) \in 0..Len(search.assets)
  BY <1>1, <1>2 DEF Smaller
<1>4. Assets \in Seq(Seq(Byte))
  BY <1>1, <1>3, FirstAre DEF Assets
<1>5. AtOnce \in Nat \ {0}
  BY <1>1 DEF AtOnce, Larger
<1> QED BY <1>4, <1>5

\* The types of the state, for short.
LEMMA SearchTyped ==
  ASSUME SearchTypeOK
  PROVE  /\ Len(Assets) \in Nat /\ DOMAIN Assets = 1..Len(Assets) /\ AtOnce \in Nat \ {0}
         /\ next \in Nat /\ running \subseteq 1..Len(Assets) /\ IsFiniteSet(running)
         /\ searched \in Seq(Outcome(Len(Assets))) /\ Len(searched) \in Nat
         /\ DOMAIN searched = 1..Len(searched)
<1>1. Len(Assets) \in Nat /\ DOMAIN Assets = 1..Len(Assets) /\ AtOnce \in Nat \ {0}
  BY AssetsAre DEF SearchTypeOK
<1>2. next \in Nat /\ running \subseteq 1..Len(Assets)
  BY <1>1 DEF SearchTypeOK
<1>3. IsFiniteSet(running)
  <2>1. IsFiniteSet(1..Len(Assets))
    BY <1>1, FS_Interval
  <2> QED BY <1>2, <2>1, FS_Subset
<1>4. searched \in Seq(Outcome(Len(Assets)))
  BY <1>1 DEF SearchTypeOK, Outcome
<1> QED BY <1>1, <1>2, <1>3, <1>4

\* The search starts in the invariant.
LEMMA SearchStarts ==
  ASSUME SearchInit
  PROVE  SearchIInv
<1>1. search \in Searches /\ next = Smaller(AtOnce, Len(Assets)) + 1 /\ running = 1..next - 1
      /\ searched = <<>> /\ result = None
  BY DEF SearchInit
<1>2. Len(Assets) \in Nat /\ DOMAIN Assets = 1..Len(Assets) /\ AtOnce \in Nat \ {0}
  BY <1>1, AssetsAre
<1>3. PICK m : m = Smaller(AtOnce, Len(Assets))
  OBVIOUS
<1>4. m \in Nat /\ m <= Len(Assets) /\ next = m + 1 /\ running = 1..m
  <2>1. PICK n, a : n = Len(Assets) /\ a = AtOnce
    OBVIOUS
  <2>2. n \in Nat /\ a \in Nat /\ m = Smaller(a, n)
    BY <1>2, <1>3, <2>1
  <2>3. m \in Nat /\ m <= n /\ (m + 1) - 1 = m
    BY <2>2 DEF Smaller
  <2> QED BY <1>1, <1>3, <2>1, <2>3
<1>5. Cardinality(running) = m
  BY <1>4, FS_Interval
<1>6. Len(searched) = 0 /\ DOMAIN searched = {}
  BY <1>1
<1>7. searched \in Seq([file : DOMAIN Assets, read : BOOLEAN])
  <2>1. <<>> \in Seq([file : DOMAIN Assets, read : BOOLEAN])
    OBVIOUS
  <2> QED BY <1>1, <2>1
<1>8. SearchTypeOK
  BY <1>1, <1>2, <1>4, <1>7 DEF SearchTypeOK
<1>9. EachOnce
  <2>1. FilesDone(searched) = {} /\ Once(searched)
    BY <1>6 DEF FilesDone, Once
  <2>2. next \in 1..Len(Assets) + 1 /\ next - 1 = m
    BY <1>2, <1>4
  <2>3. Cardinality(running) + Len(searched) = m
    BY <1>4, <1>5, <1>6
  <2> QED BY <1>4, <2>1, <2>2, <2>3 DEF EachOnce
<1>10. PoolIsFull
  <2>1. Len(Assets) - Len(searched) = Len(Assets)
    BY <1>2, <1>6
  <2> QED BY <1>3, <1>5, <2>1 DEF PoolIsFull
<1> QED BY <1>1, <1>8, <1>9, <1>10 DEF SearchIInv, HitsAreCounted, SnippetsHoldHits

\* With c running and L ended, of n, after one more.
PoolRight(n, a, L, c) ==
  /\ c + L < n => c = Smaller(a, n - (L + 1))
  /\ ~ (c + L < n) => c + L = n /\ c - 1 = Smaller(a, n - (L + 1))

(* A pool that is as full as it may be stays so when it is refilled. *)
LEMMA PoolStays ==
  ASSUME NEW n \in Nat, NEW a \in Nat, NEW L \in Nat, NEW c \in Nat, c # 0, c = Smaller(a, n - L)
  PROVE  PoolRight(n, a, L, c)
BY DEF Smaller, PoolRight

\* The end of a fetch keeps the invariant.
LEMMA SearchedKeeps ==
  ASSUME SearchIInv, NEW i \in DOMAIN Assets, NEW read \in BOOLEAN, Searched(i, read)
  PROVE  SearchIInv'
<1> DEFINE done == FilesDone(searched)
           o == [file |-> i, read |-> read]
<1>1. SearchTypeOK /\ EachOnce /\ PoolIsFull
  BY DEF SearchIInv
<1>22. PICK n : n = Len(Assets)
  OBVIOUS
<1>2. /\ n \in Nat /\ DOMAIN Assets = 1..n /\ AtOnce \in Nat \ {0}
      /\ next \in Nat /\ running \subseteq 1..n /\ IsFiniteSet(running)
      /\ searched \in Seq(Outcome(n)) /\ Len(searched) \in Nat
      /\ DOMAIN searched = 1..Len(searched)
  BY <1>1, <1>22, SearchTyped
<1>3. /\ i \in running /\ searched' = Append(searched, o) /\ running' = Refilled(i)
      /\ next' = Smaller(next, n) + 1 /\ search' = search /\ result' = result
  BY <1>22 DEF Searched
<1>4. Assets' = Assets /\ result = None /\ AtOnce' = AtOnce
  BY <1>3 DEF Assets, SearchIInv, AtOnce
<1>5. /\ next \in 1..n + 1 /\ Once(searched)
      /\ running \cup done = 1..next - 1 /\ running \cap done = {}
      /\ Cardinality(running) + Len(searched) = next - 1
      /\ Cardinality(running) = Smaller(AtOnce, n - Len(searched))
  BY <1>1, <1>22 DEF EachOnce, PoolIsFull
<1>6. /\ i \in 1..n /\ i \notin done /\ o \in Outcome(n) /\ o.file = i
  BY <1>2, <1>3, <1>5 DEF Outcome
<1>7. PICK L : L = Len(searched)
  OBVIOUS
<1>8. /\ searched' \in Seq(Outcome(n)) /\ Len(searched') = L + 1 /\ DOMAIN searched' = 1..L + 1
      /\ searched'[L + 1] = o /\ \A k \in 1..L : searched'[k] = searched[k]
  <2>1. PICK t : t = Append(searched, o)
    OBVIOUS
  <2>2. /\ t \in Seq(Outcome(n)) /\ Len(t) = Len(searched) + 1 /\ t[Len(searched) + 1] = o
        /\ \A k \in 1..Len(searched) : t[k] = searched[k]
    BY <1>2, <1>6, <2>1, AppendProperties
  <2> QED BY <1>3, <1>7, <2>1, <2>2
<1> HIDE DEF o
<1>9. L \in Nat /\ DOMAIN searched = 1..L /\ Len(searched) = L
  BY <1>2, <1>7
<1>10. FilesDone(searched') = done \cup {i}
  <2>1. ASSUME NEW f \in FilesDone(searched') PROVE f \in done \cup {i}
    <3>1. PICK k \in 1..L + 1 : f = searched'[k].file
      BY <1>8 DEF FilesDone
    <3>2. k \in 1..L \/ k = L + 1
      BY <1>9
    <3> QED BY <1>6, <1>8, <1>9, <3>1, <3>2 DEF FilesDone
  <2>2. ASSUME NEW f \in done PROVE f \in FilesDone(searched')
    <3>1. PICK k \in 1..L : f = searched[k].file
      BY <1>9 DEF FilesDone
    <3>2. k \in 1..L + 1 /\ f = searched'[k].file
      BY <1>8, <1>9, <3>1
    <3> QED BY <1>8, <3>2 DEF FilesDone
  <2>3. i \in FilesDone(searched')
    <3>1. L + 1 \in 1..L + 1
      BY <1>9
    <3> QED BY <1>6, <1>8, <3>1 DEF FilesDone
  <2> QED BY <2>1, <2>2, <2>3
<1>11. Once(searched')
  <2>1. /\ \A k \in 1..L : searched'[k].file # i
        /\ \A j, k \in 1..L : searched'[j].file = searched'[k].file => j = k
    BY <1>5, <1>6, <1>8, <1>9 DEF Once, FilesDone
  <2> SUFFICES ASSUME NEW j \in 1..L + 1, NEW k \in 1..L + 1, searched'[j].file = searched'[k].file
               PROVE  j = k
    BY <1>8 DEF Once
  <2>2. (j \in 1..L \/ j = L + 1) /\ (k \in 1..L \/ k = L + 1)
    BY <1>9
  <2> QED BY <1>6, <1>8, <2>1, <2>2
<1> HIDE DEF done
<1>12. PICK c : c = Cardinality(running)
  OBVIOUS
<1>13. c \in Nat /\ c + L = next - 1 /\ c = Smaller(AtOnce, n - L) /\ c # 0
  <2>1. c \in Nat
    BY <1>2, <1>12, FS_CardinalityType
  <2>2. c # 0
    BY <1>2, <1>3, <1>12, FS_EmptySet
  <2> QED BY <1>5, <1>9, <1>12, <2>1, <2>2
<1>14. IsFiniteSet(running \ {i}) /\ Cardinality(running \ {i}) = c - 1
  BY <1>2, <1>3, <1>12, FS_RemoveElement
<1>15. \A j \in running : j <= next - 1
  BY <1>5
<1>23. PICK a, b : a = AtOnce /\ b = next
  OBVIOUS
<1>24. a \in Nat /\ b \in 1..n + 1 /\ b = c + L + 1 /\ (c + L < n <=> b <= n)
  <2>1. a \in Nat /\ b \in 1..n + 1 /\ b \in Nat /\ c + L = b - 1
    BY <1>2, <1>5, <1>13, <1>23
  <2> QED BY <1>2, <1>9, <1>13, <2>1
<1>25. /\ b <= n => c = Smaller(a, n - (L + 1))
       /\ ~ (b <= n) => c + L = n /\ c - 1 = Smaller(a, n - (L + 1))
  <2>1. c = Smaller(a, n - L) /\ c # 0 /\ c \in Nat /\ a \in Nat /\ L \in Nat /\ n \in Nat
    BY <1>2, <1>9, <1>13, <1>23, <1>24
  <2>2. PoolRight(n, a, L, c)
    BY <2>1, PoolStays
  <2> QED BY <1>24, <2>2 DEF PoolRight
<1> DEFINE Kept0 == /\ running' \subseteq 1..n /\ next' \in 1..n + 1
                    /\ running' \cup done \cup {i} = 1..next' - 1
                    /\ running' \cap (done \cup {i}) = {}
                    /\ Cardinality(running') + (L + 1) = next' - 1
                    /\ Cardinality(running') = Smaller(AtOnce, n - (L + 1))
<1>16. ASSUME next <= n PROVE Kept0
  <2>1. running' = (running \ {i}) \cup {next} /\ next' = next + 1
    <3>1. Smaller(next, n) = next
      BY <1>2, <1>16 DEF Smaller
    <3> QED BY <1>3, <1>16, <1>22, <3>1 DEF Refilled
  <2>2. next \notin running /\ next \notin done /\ next # i
    BY <1>2, <1>3, <1>5
  <2>3. Cardinality(running') = c
    <3>1. next \notin running \ {i}
      BY <2>2
    <3>2. Cardinality((running \ {i}) \cup {next}) = (c - 1) + 1
      BY <1>14, <3>1, FS_AddElement
    <3> QED BY <1>13, <2>1, <3>2
  <2>4. c + (L + 1) = next' - 1 /\ next' \in 1..n + 1
    <3>1. next' = b + 1 /\ b <= n
      BY <1>16, <1>23, <2>1
    <3>2. b + 1 \in 1..n + 1 /\ c + (L + 1) = (b + 1) - 1
      <4>1. c \in Nat /\ L \in Nat /\ n \in Nat /\ b \in 1..n /\ b = c + L + 1
        BY <1>2, <1>9, <1>13, <1>24, <3>1
      <4> QED BY <4>1
    <3> QED BY <3>1, <3>2
  <2>5. c = Smaller(AtOnce, n - (L + 1))
    BY <1>16, <1>23, <1>25
  <2>6. running' \cup done \cup {i} = 1..next' - 1
    <3>1. 1..next' - 1 = (1..next - 1) \cup {next}
      BY <1>5, <2>1
    <3> QED BY <1>3, <1>5, <2>1, <3>1
  <2>7. running' \cap (done \cup {i}) = {}
    BY <1>5, <1>6, <2>1, <2>2
  <2>8. running' \subseteq 1..n
    BY <1>2, <1>5, <1>16, <2>1
  <2> QED BY <2>3, <2>4, <2>5, <2>6, <2>7, <2>8
<1>17. ASSUME ~ (next <= n) PROVE Kept0
  <2>1. running' = running \ {i} /\ next' = n + 1 /\ next = n + 1
    <3>1. Smaller(next, n) = n /\ next = n + 1
      BY <1>2, <1>5, <1>17 DEF Smaller
    <3> QED BY <1>3, <1>17, <1>22, <3>1 DEF Refilled
  <2>6. ~ (b <= n)
    BY <1>17, <1>23
  <2>2. (c - 1) + (L + 1) = next' - 1 /\ next' \in 1..n + 1
    <3>1. c + L = n
      BY <1>25, <2>6
    <3>2. (c - 1) + (L + 1) = (n + 1) - 1 /\ n + 1 \in 1..n + 1
      BY <1>2, <1>9, <1>13, <3>1
    <3> QED BY <2>1, <3>2
  <2>3. c - 1 = Smaller(AtOnce, n - (L + 1))
    BY <1>23, <1>25, <2>6
  <2>4. running' \cup done \cup {i} = 1..next' - 1
    BY <1>3, <1>5, <2>1
  <2>5. running' \cap (done \cup {i}) = {} /\ running' \subseteq 1..n
    BY <1>2, <1>5, <2>1
  <2> QED BY <1>14, <2>1, <2>2, <2>3, <2>4, <2>5
<1>18. Kept0
  BY <1>16, <1>17
<1>19. SearchTypeOK'
  <2>1. search' \in Searches
    BY <1>1, <1>3 DEF SearchTypeOK
  <2>2. next' \in Nat
    BY <1>2, <1>18
  <2>3. running' \subseteq DOMAIN Assets'
    BY <1>2, <1>4, <1>18, <1>22
  <2>4. searched' \in Seq([file : DOMAIN Assets', read : BOOLEAN])
    BY <1>2, <1>4, <1>8 DEF Outcome
  <2> QED BY <2>1, <2>2, <2>3, <2>4 DEF SearchTypeOK
<1>20. EachOnce'
  <2>1. /\ next' \in 1..Len(Assets') + 1 /\ Once(searched')
        /\ running' \cup FilesDone(searched') = 1..next' - 1
        /\ running' \cap FilesDone(searched') = {}
        /\ Cardinality(running') + Len(searched') = next' - 1
    BY <1>4, <1>8, <1>10, <1>11, <1>18, <1>22
  <2> QED BY <2>1 DEF EachOnce
<1>21. PoolIsFull'
  BY <1>4, <1>8, <1>18, <1>22 DEF PoolIsFull
<1> QED BY <1>3, <1>4, <1>19, <1>20, <1>21 DEF SearchIInv, HitsAreCounted, SnippetsHoldHits

\* What is printed when all have ended is right.
LEMMA ReportKeeps ==
  ASSUME SearchIInv, Report
  PROVE  SearchIInv'
<1> DEFINE R == PageHits(search.page, Assets, search.pat, search.options)
<1>18. PICK n : n = Len(Assets)
  OBVIOUS
<1>1. SearchTypeOK /\ EachOnce /\ PoolIsFull
  BY DEF SearchIInv
<1>2. /\ n \in Nat /\ DOMAIN Assets = 1..n /\ AtOnce \in Nat \ {0}
      /\ next \in Nat /\ searched \in Seq(Outcome(n)) /\ Len(searched) \in Nat
      /\ DOMAIN searched = 1..Len(searched)
  BY <1>1, <1>18, SearchTyped
<1>3. /\ running = {} /\ UNCHANGED <<search, next, running, searched>>
      /\ result' = Run(search.page, Assets, FilesOf(searched, TRUE),
                       Len(FilesOf(searched, FALSE)), search.pat, search.options)
  BY DEF Report
<1>4. Assets' = Assets /\ AtOnce' = AtOnce /\ Failed' = Failed
  BY <1>3 DEF Assets, AtOnce, Failed
<1>5. PICK read, unread : read = FilesOf(searched, TRUE) /\ unread = FilesOf(searched, FALSE)
  OBVIOUS
<1>6. Once(searched) /\ FilesDone(searched) = 1..n
  <2>1. /\ next \in 1..n + 1 /\ Once(searched)
        /\ running \cup FilesDone(searched) = 1..next - 1
        /\ Cardinality(running) + Len(searched) = next - 1
        /\ Cardinality(running) = Smaller(AtOnce, n - Len(searched))
    BY <1>1, <1>18 DEF EachOnce, PoolIsFull
  <2>2. Cardinality(running) = 0
    BY <1>3, FS_EmptySet
  <2>3. PICK L : L = Len(searched)
    OBVIOUS
  <2>4. L \in Nat /\ L = next - 1 /\ 0 = Smaller(AtOnce, n - L)
    BY <1>2, <2>1, <2>2, <2>3
  <2>5. next - 1 = n
    BY <1>2, <2>1, <2>4 DEF Smaller
  <2> QED BY <1>3, <2>1, <2>5
<1>7. /\ read \in Seq(1..n) /\ IsInjective(read) /\ Range(read) = FilesWhere(searched, TRUE)
      /\ Len(unread) = Cardinality(FilesWhere(searched, FALSE)) /\ unread \in Seq(1..n)
  <2>1. FilesRight(read, searched, TRUE, n)
    BY <1>2, <1>5, <1>6, FilesOfIs
  <2>2. FilesRight(unread, searched, FALSE, n)
    BY <1>2, <1>5, <1>6, FilesOfIs
  <2> QED BY <2>1, <2>2 DEF FilesRight
<1>8. /\ \A k \in DOMAIN searched : searched[k].read \in BOOLEAN
      /\ \A k \in DOMAIN searched : searched[k].file \in 1..n
  <2>1. \A k \in DOMAIN searched : searched[k] \in Outcome(n)
    BY <1>2
  <2> QED BY <2>1 DEF Outcome
<1>9. FilesWhere(searched, FALSE) = Failed
  BY <1>8 DEF FilesWhere, Failed
<1>10. Failed = (1..n) \ Range(read)
  <2>1. ASSUME NEW f \in 1..n PROVE f \in Failed <=> f \notin FilesWhere(searched, TRUE)
    <3>1. PICK k \in DOMAIN searched : f = searched[k].file
      BY <1>6 DEF FilesDone
    <3>2. \A j \in DOMAIN searched : searched[j].file = f => j = k
      BY <1>6, <3>1 DEF Once
    <3>3. f \in Failed <=> ~ searched[k].read
      BY <3>1, <3>2 DEF Failed
    <3>4. f \in FilesWhere(searched, TRUE) <=> searched[k].read = TRUE
      BY <3>1, <3>2 DEF FilesWhere
    <3>5. searched[k].read \in BOOLEAN
      BY <1>8, <3>1
    <3> QED BY <3>3, <3>4, <3>5
  <2>2. Failed \subseteq 1..n
    BY <1>8 DEF Failed
  <2> QED BY <1>7, <2>1, <2>2
<1>11. Len(unread) \in Nat
  <2>1. unread \in Seq(1..n)
    BY <1>7
  <2> QED BY <2>1
<1>12. Input(search.page, Assets, search.pat, search.options, R)
  <2>1. search \in Searches
    BY <1>1 DEF SearchTypeOK
  <2>2. search.page \in Seq(Byte) /\ search.options \in Option
    BY <2>1, SearchAssumption
  <2>3. search.pat \in Pattern
    BY <2>1, SearchAssumption DEF Pattern
  <2>4. Assets \in Seq(Seq(Byte))
    BY <2>1, AssetsAre
  <2> QED BY <2>2, <2>3, <2>4 DEF Input
<1>13. PICK page, assets, pat, options, r :
         page = search.page /\ assets = Assets /\ pat = search.pat /\ options = search.options
         /\ r = result'
  OBVIOUS
<1>14. /\ r \in Results(R) /\ r.filesFailed = Len(unread)
       /\ Prints(r, AllHits(page, assets, Failed, pat, options), options)
  <2>1. Input(page, assets, pat, options, R) /\ read \in Seq(1..Len(assets))
        /\ Failed = (1..Len(assets)) \ Range(read)
    BY <1>7, <1>10, <1>12, <1>13, <1>18
  <2>2. r = Run(page, assets, read, Len(unread), pat, options)
    BY <1>3, <1>5, <1>13
  <2> HIDE DEF R
  <2>3. RunRight(r, page, assets, Failed, Len(unread), pat, options, R)
    <3>1. read \in Seq(1..Len(assets)) /\ IsInjective(read)
      BY <1>7, <2>1
    <3> QED BY <1>11, <2>1, <2>2, <3>1, RunIs
  <2> QED BY <2>3 DEF RunRight
<1>15. HitsAreCounted'
  <2>1. r.filesFailed = Cardinality(Failed)
    BY <1>7, <1>9, <1>14
  <2> QED BY <1>3, <1>4, <1>13, <1>14, <2>1 DEF HitsAreCounted
<1>16. SnippetsHoldHits'
  <2>1. ASSUME NEW k \in DOMAIN r.hits
        PROVE  HitIsRight(FileIn(page, assets, r.hits[k].file), pat, options, r.hits[k])
    <3>1. r.hits \in Seq(R)
      BY <1>14 DEF Results
    <3>2. r.hits[k] \in R
      BY <2>1, <3>1
    <3> QED BY <1>13, <3>2 DEF PageHits
  <2> QED BY <1>3, <1>4, <1>13, <2>1 DEF SnippetsHoldHits, FileIn, FileOf
<1>17. SearchTypeOK' /\ EachOnce' /\ PoolIsFull' /\ running' = {}
  BY <1>1, <1>3, <1>4 DEF SearchTypeOK, EachOnce, PoolIsFull
<1> QED BY <1>15, <1>16, <1>17 DEF SearchIInv

\* The invariant is about the variables of the search.
LEMMA SearchStutters ==
  ASSUME SearchIInv, UNCHANGED searchVars
  PROVE  SearchIInv'
BY DEF SearchIInv, SearchTypeOK, EachOnce, PoolIsFull, HitsAreCounted, SnippetsHoldHits, FileOf,
       Failed, Assets, searchVars

\* bounded_map, called by grep: every asset is waiting, being fetched or searched,
\* once, as many are fetched as may be, and what is printed is right.
THEOREM SearchInvariant == SearchSpec => []SearchIInv
<1>1. SearchInit => SearchIInv
  BY SearchStarts
<1>2. SearchIInv /\ [SearchNext]_searchVars => SearchIInv'
  <2> SUFFICES ASSUME SearchIInv, [SearchNext]_searchVars PROVE SearchIInv'
    OBVIOUS
  <2>1. ASSUME NEW i \in DOMAIN Assets, NEW read \in BOOLEAN, Searched(i, read) PROVE SearchIInv'
    BY <2>1, SearchedKeeps
  <2>2. CASE Report
    BY <2>2, ReportKeeps
  <2>3. CASE UNCHANGED searchVars
    BY <2>3, SearchStutters
  <2> QED BY <2>1, <2>2, <2>3 DEF SearchNext
<1> QED BY <1>1, <1>2, PTL DEF SearchSpec

\* bounded_map, called by grep: what is searched are files of the page, whatever
\* came of the fetches so far.
THEOREM SearchTypes == SearchSpec => []SearchTypeOK
BY SearchInvariant, PTL DEF SearchIInv

\* bounded_map: whichever fetches end first, as many run as may, for as long as
\* there are that many left.
THEOREM SearchPoolIsFull == SearchSpec => []PoolIsFull
BY SearchInvariant, PTL DEF SearchIInv

\* grep: for any page, assets, pattern and options, what is printed is the same
\* in whatever order the assets came: the first hits in the order of the page,
\* and the number of the others. Files that could not be read are counted.
THEOREM SearchHitsAreCounted == SearchSpec => []HitsAreCounted
BY SearchInvariant, PTL DEF SearchIInv

\* grep: for any bytes, pattern and options, a hit that is printed is a match at
\* that line and column of that file. Its snippet holds the match, or the
\* beginning of one that is not shorter than the budget, is never shorter than it
\* may be, and in a text it is longer only by what makes its first and last
\* characters whole.
THEOREM SearchSnippetsHoldHits == SearchSpec => []SnippetsHoldHits
BY SearchInvariant, PTL DEF SearchIInv
=============================================================================
