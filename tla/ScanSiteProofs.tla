--------------------------- MODULE ScanSiteProofs ---------------------------
(***************************************************************************)
(* Proofs about ScanSite, for any site, builds, processes, redirects and   *)
(* limits. The inductive invariant says what the local variables of a scan *)
(* are worth in each phase (Scans), and that every output is honest where  *)
(* it is: returned (Outs), on its way to the file (Jobs), and in the file  *)
(* that processes share (Disk).                                            *)
(***************************************************************************)
EXTENDS ScanSite, Induction

\* The sequences of keys that push_unique_sorted makes, and shapes and evidence
\* with them.
KeySeq == {s \in Seq(Key) : Increasing(s)}
Sorted == [flags : SUBSET Flag, keys : KeySeq]
Ev == [url : FoundUrl, kind : Kind, from : STRING, shape : Sorted]

\* The APIs of an output.
Maps == UNION {[P -> Sorted] : P \in SUBSET Path}

Permits(s) == s.at \notin BadScheme /\ (s.allowPrivate \/ s.at \notin LocalHost)

Validated(s) == s.phase = "answer" =>
  Permits(s) /\ s.checked /\ s.hops \in 1..MaxRedirects

\* The page is what was scanned first; one that the stale cache is asked for
\* names a revision.
PageScanned(s) ==
  /\ s.phase \in {"stat_stale", "read_stale", "start", "assets"} =>
       s.page \in PageBody \cap Range(s.found)
  /\ s.phase \in {"stat_stale", "read_stale"} => RevisionOf[s.page] # None
  /\ s.phase \in {"stat_stale", "read_stale", "start"} =>
       Range(s.found) = {s.page} /\ s.seen = {} /\ s.skipped = {} /\ s.lowSignal = 0

\* What was lost is what warnings are made of.
LossesCounted(s) ==
  /\ s.phase \in {"stat_stale", "read_stale", "start", "assets"} =>
       (s.lost = {} <=> s.failed = 0 /\ ~s.capped)
  /\ s.unauthorized = 0

\* The libraries that were seen and not skipped are counted, and are as many as
\* may be once one is skipped.
Budget(seen, skipped, spent) ==
  /\ skipped \subseteq seen \cap LowSignal
  /\ spent = Cardinality((seen \cap LowSignal) \ skipped)
  /\ skipped # {} => spent = MaxLowSignal

\* What the documents refer to was seen or lost, but for `more`, which is about
\* to be enqueued. What was seen waits or has ended one way or the other, and
\* libraries are skipped when the budget is spent on others.
Accounts(s, more) ==
  /\ \A b \in Range(s.found) : Refs[b] \subseteq s.seen \cup s.lost \cup more
  /\ \A a \in s.seen : a \in s.todo \cup s.lost \cup s.skipped
                         \/ \E k \in Build : BodyOf[k][a] \in Range(s.found)
  /\ Budget(s.seen, s.skipped, s.lowSignal)

LocalOK(s) ==
  /\ Validated(s)
  /\ s.phase = "read_fresh" => s.age < FreshLimit
  /\ PageScanned(s)
  /\ LossesCounted(s)
  /\ s.phase = "assets" => Accounts(s, {})

Scans == scan \in [Proc -> Scan] /\ \A p \in Proc : LocalOK(scan[p])

\* What an output says of itself is true wherever it is, and its APIs are those
\* of what it was made from.
Honest(o) ==
  /\ o \in [apis : {o.apis}, revision : Revision, warnings : SUBSET WarningKind,
             cache : Status, age : (0..StaleLimit) \cup {None},
             from : SUBSET Body, lost : SUBSET Asset, skipped : SUBSET Asset]
  /\ \E b \in PageBody \cap o.from : o.revision = RevisionOf[b]
  /\ o.warnings = {} <=> o.lost = {}
  /\ AccountsForRefs(o)
  /\ o.apis \in Maps /\ o.apis = ApisOf(Finished(EvidenceIn(o.from)))

OutOK(o, s) == o # None =>
  /\ s.phase = "done" /\ Honest(o)
  /\ o.cache = "RevisionHit" =>
       RevisionOf[s.page] # None /\ o.revision = RevisionOf[s.page]
  /\ o.cache = "Fresh" => o.age < FreshLimit

Outs == out = [p \in Proc |-> out[p]] /\ \A p \in Proc : OutOK(out[p], scan[p])

Jobs == job = [p \in Proc |-> job[p]] /\ \A p \in Proc : job[p] # None => Honest(job[p])

Disk == disk # None =>
  /\ disk = [output |-> disk.output, age |-> disk.age]
  /\ disk.age \in 0..StaleLimit
  /\ disk.output # None => Honest(disk.output)

IInv == build \in Build /\ Scans /\ Outs /\ Jobs /\ Disk

-----------------------------------------------------------------------------
(* The parts of a scan                                                     *)

LEMMA PageType ==
  ASSUME NEW b \in Build
  PROVE  /\ BodyOf[b][Page] \in PageBody
         /\ BodyOf[b][Page] \in Body
         /\ \A a \in Asset : BodyOf[b][a] \in Body
BY SiteAssumption DEF PageBody, Document

LEMMA IdleOK == Idle \in Scan /\ LocalOK(Idle)
<1>1. Idle \in Scan
  <2>1. <<>> \in Seq(Body)
    OBVIOUS
  <2> QED BY <2>1, SiteAssumption DEF Idle, Scan, Phase
<1>2. LocalOK(Idle)
  BY DEF LocalOK, Validated, PageScanned, LossesCounted, Idle
<1> QED BY <1>1, <1>2

\* A scan that is over keeps its page and nothing else.
LEMMA EndedOK ==
  ASSUME NEW s \in Scan, NEW phase \in {"done", "failed"}
  PROVE  LET t == [Idle EXCEPT !.phase = phase, !.page = s.page]
         IN  t \in Scan /\ LocalOK(t) /\ t.phase = phase /\ t.page = s.page
<1> DEFINE t == [Idle EXCEPT !.phase = phase, !.page = s.page]
<1>1. s.page \in PageBody \cup {None} /\ phase \in Phase
  BY DEF Scan, Phase
<1>2. Idle \in Scan
  BY IdleOK
<1>3. t \in Scan /\ t.phase = phase /\ t.page = s.page
  BY <1>1, <1>2 DEF Scan
<1>4. t.unauthorized = 0 /\ t.failed = 0
  BY DEF Idle
<1>5. LocalOK(t)
  BY <1>3, <1>4 DEF LocalOK, Validated, PageScanned, LossesCounted
<1> QED BY <1>3, <1>5

\* One scan changes at a time.
LEMMA ScansUpdate ==
  ASSUME Scans, NEW p \in Proc, NEW t \in Scan, LocalOK(t), scan' = [scan EXCEPT ![p] = t]
  PROVE  /\ Scans'
         /\ scan'[p] = t
         /\ \A q \in Proc \ {p} : scan'[q] = scan[q]
<1>1. scan \in [Proc -> Scan]
  BY DEF Scans
<1>2. /\ scan' \in [Proc -> Scan] /\ scan'[p] = t
      /\ \A q \in Proc \ {p} : scan'[q] = scan[q]
  BY <1>1
<1>3. ASSUME NEW q \in Proc PROVE LocalOK(scan'[q])
  <2>1. CASE q = p
    BY <1>2, <2>1
  <2>2. CASE q # p
    <3>1. scan'[q] = scan[q] /\ LocalOK(scan[q])
      BY <1>2, <2>2 DEF Scans
    <3> QED BY <3>1
  <2> QED BY <2>1, <2>2
<1> QED BY <1>2, <1>3 DEF Scans

\* A scan that has not returned has no output to keep.
LEMMA OutsKept ==
  ASSUME Outs, NEW p \in Proc, scan[p].phase # "done", out' = out,
         \A q \in Proc \ {p} : scan'[q] = scan[q]
  PROVE  Outs'
<1>1. out[p] = None
  BY DEF Outs, OutOK
<1>2. ASSUME NEW q \in Proc PROVE OutOK(out'[q], scan'[q])
  <2>1. CASE q = p
    BY <1>1, <2>1 DEF OutOK
  <2>2. CASE q # p
    <3>1. OutOK(out[q], scan[q]) /\ scan'[q] = scan[q]
      BY <2>2 DEF Outs
    <3> QED BY <3>1
  <2> QED BY <2>1, <2>2
<1> QED BY <1>2 DEF Outs

\* A step from one phase of a scan to the next leaves the rest alone.
LEMMA LocalStep ==
  ASSUME IInv, NEW p \in Proc, scan[p].phase # "done",
         NEW t \in Scan, LocalOK(t), scan' = [scan EXCEPT ![p] = t],
         UNCHANGED <<build, disk, out, job>>
  PROVE  IInv'
<1>1. Scans' /\ \A q \in Proc \ {p} : scan'[q] = scan[q]
  BY ScansUpdate DEF IInv
<1>2. Outs'
  BY <1>1, OutsKept DEF IInv
<1>3. Jobs' /\ Disk' /\ build' \in Build
  BY DEF IInv, Jobs, Disk
<1> QED BY <1>1, <1>2, <1>3 DEF IInv

LEMMA EndedStep ==
  ASSUME IInv, NEW p \in Proc, scan[p].phase # "done", Ended(p, "failed"),
         UNCHANGED <<build, disk, out, job>>
  PROVE  IInv'
<1>1. scan[p] \in Scan
  BY DEF IInv, Scans
<1> DEFINE t == [Idle EXCEPT !.phase = "failed", !.page = scan[p].page]
<1>2. t \in Scan /\ LocalOK(t)
  BY <1>1, EndedOK
<1>3. scan' = [scan EXCEPT ![p] = t]
  BY DEF Ended
<1> HIDE DEF t
<1> QED BY <1>2, <1>3, LocalStep

\* Only the phase changes.
LEMMA GoStep ==
  ASSUME IInv, NEW p \in Proc, NEW phase \in {"validate", "read_stale", "start"},
         scan[p].phase # "done", Go(p, phase),
         phase = "read_stale" => scan[p].phase = "stat_stale",
         phase = "start" => scan[p].phase \in {"stat_stale", "read_stale"},
         UNCHANGED <<build, disk, out, job>>
  PROVE  IInv'
<1>1. scan \in [Proc -> Scan] /\ scan[p] \in Scan /\ LocalOK(scan[p])
  BY DEF IInv, Scans
<1> DEFINE t == [scan[p] EXCEPT !.phase = phase]
<1>2. t \in Scan
  BY <1>1 DEF Scan, Phase
<1>3. /\ t.phase = phase /\ t.page = scan[p].page /\ t.found = scan[p].found
      /\ t.lost = scan[p].lost /\ t.failed = scan[p].failed /\ t.capped = scan[p].capped
      /\ t.unauthorized = scan[p].unauthorized /\ t.seen = scan[p].seen
      /\ t.skipped = scan[p].skipped /\ t.lowSignal = scan[p].lowSignal
  BY <1>1 DEF Scan
<1>4. scan' = [scan EXCEPT ![p] = t]
  BY DEF Go
<1> HIDE DEF t
<1>5. LocalOK(t)
  BY <1>1, <1>3 DEF LocalOK, Validated, PageScanned, LossesCounted
<1> QED BY <1>2, <1>4, <1>5, LocalStep

\* An output is returned.
LEMMA ReturnStep ==
  ASSUME IInv, NEW p \in Proc, NEW o, Return(p, o),
         OutOK(o, [phase |-> "done", page |-> scan[p].page])
  PROVE  Scans' /\ Outs'
<1>1. scan[p] \in Scan
  BY DEF IInv, Scans
<1> DEFINE t == [Idle EXCEPT !.phase = "done", !.page = scan[p].page]
<1>2. t \in Scan /\ LocalOK(t) /\ t.phase = "done" /\ t.page = scan[p].page
  BY <1>1, EndedOK
<1>3. scan' = [scan EXCEPT ![p] = t]
  BY DEF Return, Ended
<1> HIDE DEF t
<1>4. Scans' /\ scan'[p] = t /\ \A q \in Proc \ {p} : scan'[q] = scan[q]
  BY <1>2, <1>3, ScansUpdate DEF IInv
<1>5. /\ out' = [q \in Proc |-> out'[q]]
      /\ out'[p] = o
      /\ \A q \in Proc \ {p} : out'[q] = out[q]
  <2>1. out' = [out EXCEPT ![p] = o] /\ out = [q \in Proc |-> out[q]]
    BY DEF Return, IInv, Outs
  <2> QED BY <2>1
<1>6. ASSUME NEW q \in Proc PROVE OutOK(out'[q], scan'[q])
  <2>1. CASE q = p
    BY <1>2, <1>4, <1>5, <2>1 DEF OutOK
  <2>2. CASE q # p
    <3>1. OutOK(out[q], scan[q]) /\ scan'[q] = scan[q] /\ out'[q] = out[q]
      BY <1>4, <1>5, <2>2 DEF IInv, Outs
    <3> QED BY <3>1
  <2> QED BY <2>1, <2>2
<1> QED BY <1>4, <1>5, <1>6 DEF Outs

\* How an output was come by changes nothing it says of the site.
LEMMA MarkedHonest ==
  ASSUME NEW o, Honest(o), NEW cache \in Status, NEW age \in (0..StaleLimit) \cup {None}
  PROVE  /\ Honest(Marked(o, cache, age))
         /\ Marked(o, cache, age).cache = cache
         /\ Marked(o, cache, age).age = age
         /\ Marked(o, cache, age).revision = o.revision
<1>1. PICK m : m = Marked(o, cache, age)
  OBVIOUS
<1>2. o \in [apis : {o.apis}, revision : Revision, warnings : SUBSET WarningKind,
              cache : Status, age : (0..StaleLimit) \cup {None},
              from : SUBSET Body, lost : SUBSET Asset, skipped : SUBSET Asset]
  BY DEF Honest
<1>3. /\ m \in [apis : {m.apis}, revision : Revision, warnings : SUBSET WarningKind,
                 cache : Status, age : (0..StaleLimit) \cup {None},
                 from : SUBSET Body, lost : SUBSET Asset, skipped : SUBSET Asset]
      /\ m.cache = cache /\ m.age = age /\ m.revision = o.revision
      /\ m.warnings = o.warnings /\ m.lost = o.lost /\ m.from = o.from /\ m.apis = o.apis
      /\ m.skipped = o.skipped
  BY <1>1, <1>2 DEF Marked
<1>4. AccountsForRefs(m)
  BY <1>3 DEF Honest, AccountsForRefs, IsIn
<1>5. Honest(m)
  BY <1>3, <1>4 DEF Honest
<1> QED BY <1>1, <1>3, <1>5

-----------------------------------------------------------------------------
(* The processed cache                                                     *)

LEMMA DecodedHonest ==
  ASSUME IInv, Decoded # None
  PROVE  Honest(Decoded)
BY DEF IInv, Disk, Decoded

LEMMA BeginStep ==
  ASSUME IInv, NEW p \in Proc, Begin(p)
  PROVE  IInv'
<1>1. scan[p] \in Scan /\ LocalOK(scan[p]) /\ scan[p].phase = "idle"
  BY DEF IInv, Scans, Begin, In
<1>2. PICK mode \in Modes[p] :
        scan' = [scan EXCEPT ![p].useCache = mode.useCache, ![p].allowPrivate = mode.allowPrivate,
                             ![p].phase = IF mode.useCache THEN "stat_fresh" ELSE "validate"]
  BY DEF Begin
<1>3. mode.useCache \in BOOLEAN /\ mode.allowPrivate \in BOOLEAN
  BY SiteAssumption
<1> DEFINE t == [scan[p] EXCEPT !.useCache = mode.useCache, !.allowPrivate = mode.allowPrivate,
                                !.phase = IF mode.useCache THEN "stat_fresh" ELSE "validate"]
<1>4. t \in Scan
  BY <1>1, <1>3 DEF Scan, Phase
<1>5. /\ t.phase \in {"stat_fresh", "validate"}
      /\ t.failed = scan[p].failed /\ t.unauthorized = scan[p].unauthorized
  BY <1>1 DEF Scan
<1>6. scan' = [scan EXCEPT ![p] = t]
  BY <1>2
<1> HIDE DEF t
<1>7. LocalOK(t)
  BY <1>1, <1>5 DEF LocalOK, Validated, PageScanned, LossesCounted
<1>8. UNCHANGED <<build, disk, out, job>>
  BY DEF Begin
<1> QED BY <1>1, <1>4, <1>6, <1>7, <1>8, LocalStep

LEMMA StatFreshStep ==
  ASSUME IInv, NEW p \in Proc, StatFresh(p)
  PROVE  IInv'
<1>1. scan[p] \in Scan /\ LocalOK(scan[p]) /\ scan[p].phase = "stat_fresh"
  BY DEF IInv, Scans, StatFresh, In
<1>2. UNCHANGED <<build, disk, out, job>>
  BY DEF StatFresh
<1>3. CASE Young(FreshLimit)
  <2>1. disk.age \in 0..StaleLimit /\ disk.age < FreshLimit
    BY <1>3 DEF Young, IInv, Disk
  <2> DEFINE t == [scan[p] EXCEPT !.phase = "read_fresh", !.age = disk.age]
  <2>2. t \in Scan
    BY <1>1, <2>1 DEF Scan, Phase
  <2>3. /\ t.phase = "read_fresh" /\ t.age = disk.age
        /\ t.failed = scan[p].failed /\ t.unauthorized = scan[p].unauthorized
    BY <1>1 DEF Scan
  <2>4. scan' = [scan EXCEPT ![p] = t]
    BY <1>3 DEF StatFresh
  <2> HIDE DEF t
  <2>5. LocalOK(t)
    BY <1>1, <2>1, <2>3 DEF LocalOK, Validated, PageScanned, LossesCounted
  <2> QED BY <1>1, <1>2, <2>2, <2>4, <2>5, LocalStep
<1>4. CASE ~Young(FreshLimit)
  BY <1>1, <1>2, <1>4, GoStep DEF StatFresh
<1> QED BY <1>3, <1>4

LEMMA ReadFreshStep ==
  ASSUME IInv, NEW p \in Proc, ReadFresh(p)
  PROVE  IInv'
<1>1. scan[p] \in Scan /\ scan[p].phase = "read_fresh" /\ scan[p].age < FreshLimit
  BY DEF IInv, Scans, LocalOK, ReadFresh, In
<1>2. UNCHANGED <<build, disk, job>>
  BY DEF ReadFresh
<1>3. CASE Decoded # None
  <2>1. scan[p].age \in 0..StaleLimit
    BY <1>1 DEF Scan
  <2>2. PICK o : o = Marked(Decoded, "Fresh", scan[p].age)
    OBVIOUS
  <2>3. Honest(o) /\ o.cache = "Fresh" /\ o.age = scan[p].age
    <3>1. PICK d, age : d = Decoded /\ age = scan[p].age
      OBVIOUS
    <3>2. Honest(d) /\ age \in (0..StaleLimit) \cup {None}
      BY <1>3, <2>1, <3>1, DecodedHonest
    <3>3. o = Marked(d, "Fresh", age) /\ "Fresh" \in Status
      BY <2>2, <3>1 DEF Status
    <3> QED BY <3>1, <3>2, <3>3, MarkedHonest
  <2>4. OutOK(o, [phase |-> "done", page |-> scan[p].page])
    BY <1>1, <2>3 DEF OutOK
  <2>5. Scans' /\ Outs'
    BY <1>3, <2>2, <2>4, ReturnStep DEF ReadFresh
  <2> QED BY <1>2, <2>5 DEF IInv, Jobs, Disk
<1>4. CASE Decoded = None
  BY <1>1, <1>2, <1>4, GoStep DEF ReadFresh
<1> QED BY <1>3, <1>4

LEMMA StatStaleStep ==
  ASSUME IInv, NEW p \in Proc, StatStale(p)
  PROVE  IInv'
<1>1. scan[p].phase = "stat_stale" /\ UNCHANGED <<build, disk, out, job>>
  BY DEF StatStale, In
<1>2. Go(p, "read_stale") \/ Go(p, "start")
  BY DEF StatStale
<1> QED BY <1>1, <1>2, GoStep

LEMMA ReadStaleStep ==
  ASSUME IInv, NEW p \in Proc, ReadStale(p)
  PROVE  IInv'
<1>1. /\ scan[p] \in Scan /\ scan[p].phase = "read_stale"
      /\ RevisionOf[scan[p].page] # None
  BY DEF IInv, Scans, LocalOK, PageScanned, ReadStale, In
<1>2. UNCHANGED <<build, disk, job>>
  BY DEF ReadStale
<1>3. CASE Decoded # None /\ Decoded.revision = RevisionOf[scan[p].page]
  <2>1. PICK o : o = Marked(Decoded, "RevisionHit", None)
    OBVIOUS
  <2>2. Honest(o) /\ o.cache = "RevisionHit" /\ o.revision = Decoded.revision
    <3>1. PICK d, age : d = Decoded /\ age = None
      OBVIOUS
    <3>2. Honest(d) /\ age \in (0..StaleLimit) \cup {None}
      BY <1>3, <3>1, DecodedHonest
    <3>3. o = Marked(d, "RevisionHit", age) /\ "RevisionHit" \in Status
      BY <2>1, <3>1 DEF Status
    <3> QED BY <3>1, <3>2, <3>3, MarkedHonest
  <2>3. OutOK(o, [phase |-> "done", page |-> scan[p].page])
    BY <1>1, <1>3, <2>2 DEF OutOK
  <2>4. Scans' /\ Outs'
    BY <1>3, <2>1, <2>3, ReturnStep DEF ReadStale
  <2> QED BY <1>2, <2>4 DEF IInv, Jobs, Disk
<1>4. CASE ~(Decoded # None /\ Decoded.revision = RevisionOf[scan[p].page])
  BY <1>1, <1>2, <1>4, GoStep DEF ReadStale
<1> QED BY <1>3, <1>4

-----------------------------------------------------------------------------
(* The root document                                                       *)

LEMMA ValidateStep ==
  ASSUME IInv, NEW p \in Proc, Validate(p)
  PROVE  IInv'
<1>1. scan[p] \in Scan /\ LocalOK(scan[p]) /\ scan[p].phase = "validate"
  BY DEF IInv, Scans, Validate, In
<1>2. UNCHANGED <<build, disk, out, job>>
  BY DEF Validate
<1>3. CASE Ended(p, "failed")
  BY <1>1, <1>2, <1>3, EndedStep
<1>4. CASE /\ scan[p].hops < MaxRedirects
           /\ Permitted(p)
           /\ scan' = [scan EXCEPT ![p].phase = "answer", ![p].hops = @ + 1, ![p].checked = TRUE]
  <2>1. scan[p].hops + 1 \in 0..MaxRedirects /\ scan[p].hops + 1 \in 1..MaxRedirects
    BY <1>1, <1>4, SiteAssumption DEF Scan
  <2> DEFINE t == [scan[p] EXCEPT !.phase = "answer", !.hops = @ + 1, !.checked = TRUE]
  <2>2. t \in Scan
    BY <1>1, <2>1 DEF Scan, Phase
  <2>3. /\ t.phase = "answer" /\ t.hops = scan[p].hops + 1 /\ t.checked
        /\ t.at = scan[p].at /\ t.allowPrivate = scan[p].allowPrivate
        /\ t.failed = scan[p].failed /\ t.unauthorized = scan[p].unauthorized
    BY <1>1 DEF Scan
  <2>4. scan' = [scan EXCEPT ![p] = t]
    BY <1>4
  <2> HIDE DEF t
  <2>5. Permits(t)
    BY <1>4, <2>3 DEF Permitted, Permits
  <2>6. LocalOK(t)
    BY <1>1, <2>1, <2>3, <2>5 DEF LocalOK, Validated, PageScanned, LossesCounted
  <2> QED BY <1>1, <1>2, <2>2, <2>4, <2>6, LocalStep
<1> QED BY <1>3, <1>4 DEF Validate

LEMMA RedirectedStep ==
  ASSUME IInv, NEW p \in Proc, Redirected(p)
  PROVE  IInv'
<1>1. scan[p] \in Scan /\ LocalOK(scan[p]) /\ scan[p].phase = "answer"
  BY DEF IInv, Scans, Redirected, In
<1>2. PICK next \in Location :
        scan' = [scan EXCEPT ![p].at = next, ![p].checked = FALSE, ![p].phase = "validate"]
  BY DEF Redirected
<1> DEFINE t == [scan[p] EXCEPT !.at = next, !.checked = FALSE, !.phase = "validate"]
<1>3. t \in Scan
  BY <1>1 DEF Scan, Phase
<1>4. /\ t.phase = "validate"
      /\ t.failed = scan[p].failed /\ t.unauthorized = scan[p].unauthorized
  BY <1>1 DEF Scan
<1>5. scan' = [scan EXCEPT ![p] = t]
  BY <1>2
<1> HIDE DEF t
<1>6. LocalOK(t)
  BY <1>1, <1>4 DEF LocalOK, Validated, PageScanned, LossesCounted
<1>7. UNCHANGED <<build, disk, out, job>>
  BY DEF Redirected
<1> QED BY <1>1, <1>3, <1>5, <1>6, <1>7, LocalStep

LEMMA RootFailsStep ==
  ASSUME IInv, NEW p \in Proc, RootFails(p)
  PROVE  IInv'
BY EndedStep DEF RootFails, In

LEMMA RootScannedStep ==
  ASSUME IInv, NEW p \in Proc, RootScanned(p)
  PROVE  IInv'
<1>1. scan[p] \in Scan /\ scan[p].phase = "answer" /\ scan[p].useCache \in BOOLEAN
  BY DEF IInv, Scans, Scan, RootScanned, In
<1>2. PICK b : b = BodyOf[build][Page]
  OBVIOUS
<1>3. b \in PageBody /\ b \in Body
  BY <1>2, PageType DEF IInv
<1>4. PICK phase : phase = IF scan[p].useCache /\ RevisionOf[b] # None THEN "stat_stale" ELSE "start"
  OBVIOUS
<1> DEFINE t == [Idle EXCEPT !.useCache = scan[p].useCache, !.page = b, !.found = <<b>>,
                             !.phase = phase]
<1>5. <<b>> \in Seq(Body) /\ Range(<<b>>) = {b}
  <2>1. <<b>> \in Seq(Body) /\ DOMAIN <<b>> = {1} /\ <<b>>[1] = b
    BY <1>3
  <2> QED BY <2>1 DEF Range
<1>6. t \in Scan
  BY <1>1, <1>3, <1>4, <1>5, IdleOK DEF Scan, Phase
<1>7. /\ t.phase = phase /\ t.page = b /\ t.found = <<b>> /\ t.lost = {}
      /\ t.failed = 0 /\ ~t.capped /\ t.unauthorized = 0
      /\ t.seen = {} /\ t.skipped = {} /\ t.lowSignal = 0
  BY DEF Idle
<1>8. scan' = [scan EXCEPT ![p] = t]
  BY <1>2, <1>4 DEF RootScanned
<1> HIDE DEF t
<1>9. Validated(t) /\ t.phase \notin {"read_fresh", "assets"} /\ LossesCounted(t)
  BY <1>4, <1>7 DEF Validated, LossesCounted
<1>10. PageScanned(t)
  BY <1>3, <1>4, <1>5, <1>7 DEF PageScanned
<1>11. UNCHANGED <<build, disk, out, job>>
  BY DEF RootScanned
<1>12. LocalOK(t)
  BY <1>9, <1>10 DEF LocalOK
<1> QED BY <1>1, <1>6, <1>8, <1>11, <1>12, LocalStep

-----------------------------------------------------------------------------
(* Keys of shapes: push_unique_sorted is a union of sets                   *)

LEMMA HitsAreEv == Hit = Ev
<1>1. ASSUME NEW e \in Hit PROVE e \in Ev
  BY DEF Hit, Evidence, Shape, Ev, Sorted, KeySeq
<1>2. ASSUME NEW e \in Ev PROVE e \in Hit
  BY DEF Hit, Evidence, Shape, Ev, Sorted, KeySeq
<1> QED BY <1>1, <1>2

\* A key goes where it belongs, and is there once.
LEMMA PushIs ==
  ASSUME NEW dst \in KeySeq, NEW key \in Key
  PROVE  /\ PushUniqueSorted(dst, key) \in KeySeq
         /\ Range(PushUniqueSorted(dst, key)) = Range(dst) \cup {key}
<1> DEFINE n == Len(dst)
<1>1. /\ dst \in Seq(Key) /\ n \in Nat /\ DOMAIN dst = 1..n
      /\ \A i, j \in 1..n : i < j => dst[i] < dst[j]
      /\ \A i \in 1..n : dst[i] \in Nat
      /\ key \in Nat
  <2>1. dst \in Seq(Key) /\ Increasing(dst)
    BY DEF KeySeq
  <2>2. n \in Nat /\ DOMAIN dst = 1..n /\ \A i \in 1..n : dst[i] \in Key
    BY <2>1
  <2> QED BY <2>1, <2>2, FindingsAssumption DEF Increasing
<1>2. CASE Contains(dst, key)
  <2>1. key \in Range(dst)
    BY <1>1, <1>2 DEF Contains, Range
  <2> QED BY <1>2, <2>1 DEF PushUniqueSorted
<1>3. CASE ~Contains(dst, key)
  <2> DEFINE I == {0} \cup {i \in DOMAIN dst : dst[i] < key}
  <2>1. \A i \in 1..n : dst[i] # key
    BY <1>1, <1>3 DEF Contains
  <2>2. I \in SUBSET (0..n) /\ I # {}
    BY <1>1
  <2>3. PICK m : m = Max(I)
    OBVIOUS
  <2>4. m \in I /\ m \in 0..n /\ \A y \in I : m >= y
    BY <1>1, <2>2, <2>3, MaxIs
  <2>5. \A i \in 1..m : dst[i] < key
    BY <1>1, <2>4
  <2>6. \A i \in m + 1..n : key < dst[i]
    BY <1>1, <2>1, <2>4
  <2>7. PICK r : r = InsertAt(dst, m + 1, key)
    OBVIOUS
  <2>8. /\ r \in Seq(Key) /\ Len(r) = n + 1
        /\ \A i \in 1..m : r[i] = dst[i]
        /\ r[m + 1] = key
        /\ \A i \in m + 2..n + 1 : r[i] = dst[i - 1]
    <3>1. m \in 0..Len(dst)
      BY <2>4
    <3>2. Inserted(r, dst, m, key, Key)
      BY <1>1, <2>7, <3>1, InsertAtIs
    <3> QED BY <3>2 DEF Inserted
  <2>9. PushUniqueSorted(dst, key) = r
    BY <1>3, <2>3, <2>7 DEF PushUniqueSorted
  <2>10. DOMAIN r = 1..n + 1
    BY <2>8
  <2>11. ASSUME NEW i \in 1..n + 1, NEW j \in 1..n + 1, i < j PROVE r[i] < r[j]
    <3>1. CASE j <= m
      <4>1. i \in 1..m /\ j \in 1..m /\ i \in 1..n /\ j \in 1..n
        BY <1>1, <2>4, <2>11, <3>1
      <4> QED BY <1>1, <2>8, <2>11, <4>1
    <3>2. CASE j = m + 1
      <4>1. i \in 1..m
        BY <2>4, <2>11, <3>2
      <4> QED BY <2>5, <2>8, <3>2, <4>1
    <3>3. CASE j > m + 1
      <4>1. j \in m + 2..n + 1 /\ j - 1 \in m + 1..n /\ j - 1 \in 1..n
        BY <1>1, <2>4, <3>3
      <4>2. CASE i <= m
        <5>1. i \in 1..m /\ i \in 1..n /\ i < j - 1
          BY <1>1, <2>4, <3>3, <4>2
        <5> QED BY <1>1, <2>8, <4>1, <5>1
      <4>3. CASE i = m + 1
        BY <2>6, <2>8, <4>1, <4>3
      <4>4. CASE i > m + 1
        <5>1. i \in m + 2..n + 1 /\ i - 1 \in 1..n /\ i - 1 < j - 1
          BY <1>1, <2>4, <2>11, <4>4
        <5> QED BY <1>1, <2>8, <4>1, <5>1
      <4> QED BY <2>4, <4>2, <4>3, <4>4
    <3> QED BY <2>4, <3>1, <3>2, <3>3
  <2>12. r \in KeySeq
    BY <2>8, <2>10, <2>11 DEF KeySeq, Increasing
  <2>13. ASSUME NEW x \in Range(r) PROVE x \in Range(dst) \cup {key}
    <3>1. PICK i \in 1..n + 1 : x = r[i]
      BY <2>10 DEF Range
    <3>2. CASE i <= m
      <4>1. i \in 1..m /\ i \in 1..n
        BY <1>1, <2>4, <3>2
      <4> QED BY <1>1, <2>8, <3>1, <4>1 DEF Range
    <3>3. CASE i = m + 1
      BY <2>8, <3>1, <3>3
    <3>4. CASE i > m + 1
      <4>1. i \in m + 2..n + 1 /\ i - 1 \in 1..n
        BY <1>1, <2>4, <3>4
      <4> QED BY <1>1, <2>8, <3>1, <4>1 DEF Range
    <3> QED BY <2>4, <3>2, <3>3, <3>4
  <2>14. ASSUME NEW x \in Range(dst) PROVE x \in Range(r)
    <3>1. PICK i \in 1..n : x = dst[i]
      BY <1>1 DEF Range
    <3>2. CASE i <= m
      <4>1. i \in 1..m /\ i \in 1..n + 1
        BY <1>1, <2>4, <3>2
      <4> QED BY <2>8, <2>10, <3>1, <4>1 DEF Range
    <3>3. CASE i > m
      <4>1. i + 1 \in m + 2..n + 1 /\ i + 1 \in 1..n + 1 /\ (i + 1) - 1 = i
        BY <1>1, <2>4, <3>3
      <4>2. r[i + 1] = x
        BY <2>8, <3>1, <4>1
      <4> QED BY <2>10, <4>1, <4>2 DEF Range
    <3> QED BY <2>4, <3>2, <3>3
  <2>15. key \in Range(r)
    <3>1. m + 1 \in 1..n + 1
      BY <1>1, <2>4
    <3> QED BY <2>8, <2>10, <3>1 DEF Range
  <2>16. Range(r) = Range(dst) \cup {key}
    BY <2>13, <2>14, <2>15
  <2> QED BY <2>9, <2>12, <2>16
<1> QED BY <1>2, <1>3

\* Adding keys is a union.
LEMMA AddKeysIs ==
  ASSUME NEW dst \in KeySeq, NEW keys \in Seq(Key)
  PROVE  /\ AddKeys(dst, keys) \in KeySeq
         /\ Range(AddKeys(dst, keys)) = Range(dst) \cup Range(keys)
<1> DEFINE n == Len(keys)
           D == 1..n
           F == [x \in KeySeq \X D |-> PushUniqueSorted(x[1], keys[x[2]])]
<1>1. n \in Nat /\ DOMAIN keys = D /\ \A k \in D : keys[k] \in Key
  OBVIOUS
<1>2. F \in [KeySeq \X D -> KeySeq]
  BY <1>1, PushIs
<1>3. PICK it : it = CHOOSE h : h = [s \in SUBSET D |-> IF s = {} THEN dst
                         ELSE PushUniqueSorted(h[s \ {Max(s)}], keys[Max(s)])]
  OBVIOUS
<1>4. AddKeys(dst, keys) = it[D]
  BY <1>1, <1>3 DEF AddKeys, FoldLeft, MapThenFoldSet
<1>5. PICK g \in [SUBSET D -> KeySeq] : IsFold(g, n, dst, F)
  BY <1>1, <1>2, FoldExists
<1>6. ASSUME NEW s \in SUBSET D, s # {}, NEW v \in KeySeq
      PROVE  F[<<v, Max(s)>>] = PushUniqueSorted(v, keys[Max(s)])
  BY <1>1, <1>6, MaxTaken
<1>7. g = [s \in SUBSET D |-> IF s = {} THEN dst
                              ELSE PushUniqueSorted(g[s \ {Max(s)}], keys[Max(s)])]
  <2>1. ASSUME NEW s \in SUBSET D
        PROVE  g[s] = IF s = {} THEN dst ELSE PushUniqueSorted(g[s \ {Max(s)}], keys[Max(s)])
    BY <1>1, <1>5, <1>6, MaxTaken DEF IsFold
  <2> HIDE DEF F, n, D
  <2> QED BY <1>5, <2>1
<1>8. it = [s \in SUBSET D |-> IF s = {} THEN dst
                               ELSE PushUniqueSorted(it[s \ {Max(s)}], keys[Max(s)])]
  BY <1>3, <1>7
<1> HIDE DEF F
<1>9. PICK x : IsTrace(x, n, KeySeq, dst, F) /\ it[D] = x[n]
  <2>1. Folds(it, n, KeySeq, dst, F)
    BY <1>6, <1>8 DEF Folds
  <2>2. HasTrace(it, n, KeySeq, dst, F)
    BY <1>1, <1>2, <2>1, FoldTrace
  <2> QED BY <2>2 DEF HasTrace
<1>10. ASSUME NEW k \in D PROVE x[k] = PushUniqueSorted(x[k - 1], keys[k])
  <2>1. x[k] = F[<<x[k - 1], k>>] /\ x \in [0..n -> KeySeq]
    BY <1>9 DEF IsTrace
  <2>2. k - 1 \in 0..n
    BY <1>1
  <2>3. x[k - 1] \in KeySeq
    BY <2>1, <2>2
  <2> QED BY <2>1, <2>3 DEF F
<1> DEFINE Added(k) == Range(dst) \cup {keys[i] : i \in 1..k}
           T == {k \in 0..n : Range(x[k]) = Added(k)}
<1>11. 0 \in T
  BY <1>1, <1>9 DEF IsTrace
<1>12. ASSUME NEW k \in 1..n, k - 1 \in T PROVE k \in T
  <2>1. x[k - 1] \in KeySeq /\ Range(x[k - 1]) = Added(k - 1)
    BY <1>1, <1>9, <1>12 DEF IsTrace
  <2>2. Range(x[k]) = Added(k - 1) \cup {keys[k]}
    BY <1>1, <1>10, <2>1, PushIs
  <2>3. Added(k) = Added(k - 1) \cup {keys[k]}
    OBVIOUS
  <2> QED BY <2>2, <2>3
<1> HIDE DEF T
<1>13. \A k \in 0..n : k \in T
  BY <1>1, <1>11, <1>12, UpTo
<1>14. Range(x[n]) = Added(n)
  BY <1>1, <1>13 DEF T
<1>15. x[n] \in KeySeq
  BY <1>1, <1>9 DEF IsTrace
<1> QED BY <1>1, <1>4, <1>9, <1>14, <1>15 DEF Range

-----------------------------------------------------------------------------
(* A sorted sequence is determined by its elements                         *)

LEMMA SameElements ==
  ASSUME NEW s \in KeySeq, NEW t \in KeySeq, Range(s) = Range(t)
  PROVE  s = t
<1>1. /\ s \in Seq(Key) /\ Len(s) \in Nat /\ DOMAIN s = 1..Len(s)
      /\ \A i, j \in 1..Len(s) : i < j => s[i] < s[j]
      /\ \A i \in 1..Len(s) : s[i] \in Nat
  <2>1. s \in Seq(Key) /\ Increasing(s)
    BY DEF KeySeq
  <2>2. Len(s) \in Nat /\ DOMAIN s = 1..Len(s) /\ \A i \in 1..Len(s) : s[i] \in Key
    BY <2>1
  <2> QED BY <2>1, <2>2, FindingsAssumption DEF Increasing
<1>2. /\ t \in Seq(Key) /\ Len(t) \in Nat /\ DOMAIN t = 1..Len(t)
      /\ \A i, j \in 1..Len(t) : i < j => t[i] < t[j]
      /\ \A i \in 1..Len(t) : t[i] \in Nat
  <2>1. t \in Seq(Key) /\ Increasing(t)
    BY DEF KeySeq
  <2>2. Len(t) \in Nat /\ DOMAIN t = 1..Len(t) /\ \A i \in 1..Len(t) : t[i] \in Key
    BY <2>1
  <2> QED BY <2>1, <2>2, FindingsAssumption DEF Increasing
<1>3. \A i \in 1..Len(s) : \E j \in 1..Len(t) : s[i] = t[j]
  BY <1>1, <1>2 DEF Range
<1>4. \A j \in 1..Len(t) : \E i \in 1..Len(s) : s[i] = t[j]
  BY <1>1, <1>2 DEF Range
\* The sequences agree up to k.
<1> DEFINE T == {k \in 0..Len(s) : k <= Len(t) /\ \A i \in 1..k : s[i] = t[i]}
<1>5. 0 \in T
  BY <1>1, <1>2
<1>6. ASSUME NEW k \in 1..Len(s), k - 1 \in T PROVE k \in T
  <2>1. k - 1 <= Len(t) /\ \A i \in 1..k - 1 : s[i] = t[i]
    BY <1>6
  <2>2. PICK j \in 1..Len(t) : s[k] = t[j]
    BY <1>3
  <2>3. ~(j < k)
    <3> SUFFICES ASSUME j < k PROVE FALSE
      OBVIOUS
    <3>1. j \in 1..k - 1 /\ j \in 1..Len(s)
      BY <1>1, <1>2
    <3>2. s[j] < s[k]
      BY <1>1, <3>1
    <3> QED BY <1>1, <2>1, <2>2, <3>1, <3>2
  <2>4. k <= Len(t) /\ k \in 1..Len(t)
    BY <1>1, <1>2, <2>3
  <2>5. PICK i \in 1..Len(s) : s[i] = t[k]
    BY <1>4, <2>4
  <2>6. ~(i < k)
    <3> SUFFICES ASSUME i < k PROVE FALSE
      OBVIOUS
    <3>1. i \in 1..k - 1 /\ i \in 1..Len(t)
      BY <1>1, <1>2, <2>4
    <3>2. t[i] < t[k]
      BY <1>2, <2>4, <3>1
    <3> QED BY <1>2, <2>1, <2>5, <3>1, <3>2
  <2>7. s[k] = t[k]
    <3>1. CASE j = k
      BY <2>2, <3>1
    <3>2. CASE j # k
      <4>1. k < j
        BY <1>1, <1>2, <2>3, <3>2
      <4>2. t[k] < t[j]
        BY <1>2, <2>4, <4>1
      <4>3. s[i] < s[k] /\ ~(s[k] < s[i])
        BY <1>1, <2>2, <2>5, <4>2
      <4>4. i # k /\ ~(k < i)
        BY <1>1, <4>3
      <4> QED BY <1>1, <2>6, <4>4
    <3> QED BY <3>1, <3>2
  <2>8. \A m \in 1..k : s[m] = t[m]
    BY <1>1, <2>1, <2>7
  <2> QED BY <2>4, <2>8
<1> HIDE DEF T
<1>7. \A k \in 0..Len(s) : k \in T
  BY <1>1, <1>5, <1>6, UpTo
<1>8. Len(s) <= Len(t) /\ \A i \in 1..Len(s) : s[i] = t[i]
  BY <1>1, <1>7 DEF T
<1>9. ~(Len(s) < Len(t))
  <2> SUFFICES ASSUME Len(s) < Len(t) PROVE FALSE
    OBVIOUS
  <2>1. Len(t) \in 1..Len(t)
    BY <1>1, <1>2
  <2>2. PICK i \in 1..Len(s) : s[i] = t[Len(t)]
    BY <1>4, <2>1
  <2>3. i \in 1..Len(t) /\ i < Len(t) /\ t[i] = s[i]
    BY <1>1, <1>2, <1>8
  <2>4. t[i] < t[Len(t)]
    BY <1>2, <2>1, <2>3
  <2> QED BY <1>2, <2>1, <2>2, <2>3, <2>4
<1>10. Len(s) = Len(t)
  <2>1. Len(s) \in Nat /\ Len(t) \in Nat /\ Len(s) <= Len(t)
    BY <1>1, <1>2, <1>8
  <2> QED BY <1>9, <2>1
<1> QED BY <1>1, <1>2, <1>8, <1>10, SeqEqual

LEMMA SortedKeysAre ==
  ASSUME NEW s \in KeySeq
  PROVE  SortedKeys(Range(s)) = s
<1> DEFINE K == Range(s)
           n == Len(s)
<1>1. /\ s \in Seq(Key) /\ Increasing(s) /\ n \in Nat /\ DOMAIN s = 1..n
      /\ \A i, j \in 1..n : i < j => s[i] < s[j]
      /\ \A i \in 1..n : s[i] \in Nat
  <2>1. s \in Seq(Key) /\ Increasing(s)
    BY DEF KeySeq
  <2>2. n \in Nat /\ DOMAIN s = 1..n /\ \A i \in 1..n : s[i] \in Key
    BY <2>1
  <2> QED BY <2>1, <2>2, FindingsAssumption DEF Increasing
<1>2. K \subseteq Key /\ s \in [1..n -> K]
  BY <1>1 DEF Range
<1>3. Cardinality(K) = n
  <2>1. \A i, j \in 1..n : s[i] = s[j] => i = j
    BY <1>1
  <2>2. s \in Bijection(1..n, K)
    BY <1>1, <1>2, <2>1 DEF Bijection, Injection, Surjection, Range, IsInjective
  <2>3. IsFiniteSet(1..n) /\ Cardinality(1..n) = n
    BY <1>1, FS_Interval
  <2>4. ExistsBijection(1..n, K)
    BY <2>2 DEF ExistsBijection
  <2> QED BY <2>3, <2>4, FS_Bijection
<1>4. \E u \in [1..Cardinality(K) -> K] : Range(u) = K /\ Increasing(u)
  BY <1>1, <1>2, <1>3
<1>5. PICK u : u = SortedKeys(K)
  OBVIOUS
<1>6. u \in [1..n -> K] /\ Range(u) = K /\ Increasing(u)
  BY <1>3, <1>4, <1>5 DEF SortedKeys
<1>7. u \in KeySeq
  BY <1>1, <1>2, <1>6 DEF KeySeq
<1> QED BY <1>5, <1>6, <1>7, SameElements

-----------------------------------------------------------------------------
(* Merged shapes                                                           *)

LEMMA MergeIs ==
  ASSUME NEW a \in Sorted, NEW b \in Sorted
  PROVE  /\ Merge(a, b) \in Sorted
         /\ Merge(a, b).flags = a.flags \cup b.flags
         /\ Range(Merge(a, b).keys) = Range(a.keys) \cup Range(b.keys)
<1>1. a.keys \in KeySeq /\ b.keys \in Seq(Key) /\ a.flags \cup b.flags \in SUBSET Flag
  BY DEF Sorted, KeySeq
<1>2. PICK keys : keys = AddKeys(a.keys, b.keys)
  OBVIOUS
<1>3. keys \in KeySeq /\ Range(keys) = Range(a.keys) \cup Range(b.keys)
  BY <1>1, <1>2, AddKeysIs
<1>4. Merge(a, b) = [flags |-> a.flags \cup b.flags, keys |-> keys]
  BY <1>2 DEF Merge
<1> QED BY <1>1, <1>3, <1>4 DEF Sorted

\* A shape has what the shapes of a set of evidence have.
FlagsOf(S) == UNION {e.shape.flags : e \in S}
KeysOf(S) == UNION {Range(e.shape.keys) : e \in S}

IsUnion(shape, S) ==
  shape \in Sorted /\ shape.flags = FlagsOf(S) /\ Range(shape.keys) = KeysOf(S)

LEMMA UnionIs ==
  ASSUME NEW shape, NEW S, IsUnion(shape, S)
  PROVE  Union(S) = shape
<1>1. shape = [flags |-> shape.flags, keys |-> shape.keys] /\ shape.keys \in KeySeq
  BY DEF IsUnion, Sorted
<1>2. SortedKeys(KeysOf(S)) = shape.keys
  BY <1>1, SortedKeysAre DEF IsUnion
<1>3. Union(S) = [flags |-> FlagsOf(S), keys |-> SortedKeys(KeysOf(S))]
  BY DEF Union, FlagsOf, KeysOf
<1> QED BY <1>1, <1>2, <1>3 DEF IsUnion

LEMMA UnionOfOne ==
  ASSUME NEW e \in Ev
  PROVE  IsUnion(e.shape, {e})
BY DEF IsUnion, FlagsOf, KeysOf, Ev

LEMMA UnionOfMore ==
  ASSUME NEW shape, NEW S, IsUnion(shape, S), NEW e \in Ev
  PROVE  IsUnion(Merge(shape, e.shape), S \cup {e})
<1>1. shape \in Sorted /\ e.shape \in Sorted
  BY DEF IsUnion, Ev
<1>2. FlagsOf(S \cup {e}) = FlagsOf(S) \cup e.shape.flags
  BY DEF FlagsOf
<1>3. KeysOf(S \cup {e}) = KeysOf(S) \cup Range(e.shape.keys)
  BY DEF KeysOf
<1> QED BY <1>1, <1>2, <1>3, MergeIs DEF IsUnion

-----------------------------------------------------------------------------
(* compact                                                                 *)

\* What compact has made of a set of evidence.
Compacted(c, S) ==
  /\ c \in Seq(Ev)
  /\ \A i, j \in DOMAIN c : Same(c[i], c[j]) => i = j
  /\ \A i \in DOMAIN c : /\ \E e \in S : Same(c[i], e)
                         /\ IsUnion(c[i].shape, {e \in S : Same(c[i], e)})
  /\ \A e \in S : \E i \in DOMAIN c : Same(c[i], e)

LEMMA CompactOneIs ==
  ASSUME NEW c \in Seq(Ev), NEW e \in Ev
  PROVE  \/ /\ \A i \in DOMAIN c : ~Same(c[i], e)
            /\ CompactOne(c, e) = Append(c, e)
         \/ \E i \in DOMAIN c :
              /\ Same(c[i], e)
              /\ CompactOne(c, e) = [c EXCEPT ![i] = [c[i] EXCEPT !.shape = Merge(c[i].shape, e.shape)]]
<1> DEFINE I == {i \in 1..Len(c) : Same(e, c[i])}
<1>1. I \in SUBSET Nat /\ DOMAIN c = 1..Len(c) /\ \A i \in DOMAIN c : Same(e, c[i]) <=> Same(c[i], e)
  BY DEF Same
<1>2. SelectInSeq(c, LAMBDA f : Same(e, f)) = IF I # {} THEN Min(I) ELSE 0
  BY DEF SelectInSeq
<1>3. CASE I = {}
  <2>1. CompactOne(c, e) = Append(c, e)
    BY <1>2, <1>3 DEF CompactOne
  <2> QED BY <1>1, <1>3, <2>1
<1>4. CASE I # {}
  <2>1. PICK i : i = Min(I)
    OBVIOUS
  <2>2. i \in I
    BY <1>1, <1>4, <2>1, MinIs
  <2>3. i # 0 /\ i \in DOMAIN c /\ Same(c[i], e)
    BY <1>1, <2>2
  <2>4. CompactOne(c, e) = [c EXCEPT ![i].shape = Merge(@, e.shape)]
    BY <1>2, <1>4, <2>1, <2>3 DEF CompactOne
  <2> QED BY <2>3, <2>4
<1> QED BY <1>3, <1>4

LEMMA CompactedMore ==
  ASSUME NEW S, NEW c, Compacted(c, S), NEW e \in Ev
  PROVE  Compacted(CompactOne(c, e), S \cup {e})
<1>1. c \in Seq(Ev) /\ DOMAIN c = 1..Len(c) /\ Len(c) \in Nat /\ \A i \in DOMAIN c : c[i] \in Ev
  BY DEF Compacted
<1>2. PICK d : d = CompactOne(c, e)
  OBVIOUS
<1>3. CASE /\ \A i \in DOMAIN c : ~Same(c[i], e)
           /\ d = Append(c, e)
  <2> DEFINE n == Len(c) + 1
  <2>1. /\ d \in Seq(Ev) /\ DOMAIN d = 1..n /\ d[n] = e
        /\ \A i \in DOMAIN c : d[i] = c[i]
        /\ \A i \in DOMAIN d : i \in DOMAIN c \/ i = n
    BY <1>1, <1>3, AppendProperties
  <2>2. \A i \in DOMAIN c : {f \in S \cup {e} : Same(c[i], f)} = {f \in S : Same(c[i], f)}
    BY <1>3
  <2>3. {f \in S \cup {e} : Same(e, f)} = {e}
    <3>1. Same(e, e)
      BY DEF Same
    <3>2. ASSUME NEW f \in S, Same(e, f) PROVE FALSE
      <4>1. PICK i \in DOMAIN c : Same(c[i], f)
        BY DEF Compacted
      <4>2. Same(c[i], e)
        BY <3>2, <4>1 DEF Same
      <4> QED BY <1>3, <4>2
    <3> QED BY <3>1, <3>2
  <2>4. ASSUME NEW i \in DOMAIN d, NEW j \in DOMAIN d, Same(d[i], d[j]) PROVE i = j
    <3>1. CASE i \in DOMAIN c /\ j \in DOMAIN c
      BY <2>1, <2>4, <3>1 DEF Compacted
    <3>2. CASE i \in DOMAIN c /\ j = n
      BY <1>3, <2>1, <2>4, <3>2
    <3>3. CASE i = n /\ j \in DOMAIN c
      <4>1. Same(c[j], e)
        BY <2>1, <2>4, <3>3 DEF Same
      <4> QED BY <1>3, <3>3, <4>1
    <3> QED BY <2>1, <3>1, <3>2, <3>3
  <2>5. ASSUME NEW i \in DOMAIN d
        PROVE  /\ \E f \in S \cup {e} : Same(d[i], f)
               /\ IsUnion(d[i].shape, {f \in S \cup {e} : Same(d[i], f)})
    <3>1. CASE i \in DOMAIN c
      <4>1. d[i] = c[i] /\ {f \in S \cup {e} : Same(c[i], f)} = {f \in S : Same(c[i], f)}
        BY <2>1, <2>2, <3>1
      <4>2. (\E f \in S : Same(c[i], f)) /\ IsUnion(c[i].shape, {f \in S : Same(c[i], f)})
        BY <3>1 DEF Compacted
      <4> QED BY <4>1, <4>2
    <3>2. CASE i = n
      <4>1. d[i] = e /\ IsUnion(e.shape, {e})
        BY <2>1, <3>2, UnionOfOne
      <4> QED BY <2>3, <4>1
    <3> QED BY <2>1, <3>1, <3>2
  <2>6. ASSUME NEW f \in S \cup {e} PROVE \E i \in DOMAIN d : Same(d[i], f)
    <3>1. CASE f = e
      <4>1. n \in DOMAIN d /\ Same(d[n], f)
        BY <1>1, <2>1, <3>1 DEF Same
      <4> QED BY <4>1
    <3>2. CASE f \in S
      <4>1. PICK i \in DOMAIN c : Same(c[i], f)
        BY <3>2 DEF Compacted
      <4>2. i \in DOMAIN d /\ d[i] = c[i]
        BY <1>1, <2>1
      <4> QED BY <4>1, <4>2
    <3> QED BY <3>1, <3>2
  <2>7. d \in Seq(Ev)
    BY <2>1
  <2>8. Compacted(d, S \cup {e})
    BY <2>4, <2>5, <2>6, <2>7 DEF Compacted
  <2> QED BY <1>2, <2>8
<1>4. ASSUME NEW i \in DOMAIN c, Same(c[i], e),
             d = [c EXCEPT ![i] = [c[i] EXCEPT !.shape = Merge(c[i].shape, e.shape)]]
      PROVE  Compacted(d, S \cup {e})
  <2>1. PICK u : u = Merge(c[i].shape, e.shape)
    OBVIOUS
  <2>2. IsUnion(c[i].shape, {f \in S : Same(c[i], f)})
    BY DEF Compacted
  <2>3. {f \in S \cup {e} : Same(c[i], f)} = {f \in S : Same(c[i], f)} \cup {e}
    BY <1>4
  <2>4. IsUnion(u, {f \in S \cup {e} : Same(c[i], f)})
    BY <2>1, <2>2, <2>3, UnionOfMore
  <2>5. PICK x : x = [c[i] EXCEPT !.shape = u]
    OBVIOUS
  <2>6. x \in Ev /\ x.shape = u /\ x.url = c[i].url /\ x.kind = c[i].kind /\ x.from = c[i].from
    <3>1. c[i] \in Ev /\ u \in Sorted
      BY <1>1, <2>4 DEF IsUnion
    <3> QED BY <2>5, <3>1 DEF Ev
  <2>7. /\ d \in Seq(Ev) /\ DOMAIN d = DOMAIN c /\ d[i] = x
        /\ \A j \in DOMAIN c : j # i => d[j] = c[j]
    <3>1. d = [c EXCEPT ![i] = x]
      BY <1>4, <2>1, <2>5
    <3> QED BY <1>1, <2>6, <3>1
  <2>8. ASSUME NEW j \in DOMAIN c, NEW f PROVE Same(d[j], f) <=> Same(c[j], f)
    <3>1. d[j].url = c[j].url /\ d[j].kind = c[j].kind /\ d[j].from = c[j].from
      BY <2>6, <2>7
    <3> QED BY <3>1 DEF Same
  <2>9. ASSUME NEW j \in DOMAIN c, NEW k \in DOMAIN c, Same(d[j], d[k]) PROVE j = k
    <3>1. Same(c[j], d[k])
      BY <2>8, <2>9
    <3>2. Same(d[k], c[j])
      BY <3>1 DEF Same
    <3>3. Same(c[k], c[j])
      BY <2>8, <3>2
    <3> QED BY <3>3 DEF Compacted
  <2>10. ASSUME NEW j \in DOMAIN c
         PROVE  /\ \E f \in S \cup {e} : Same(d[j], f)
                /\ IsUnion(d[j].shape, {f \in S \cup {e} : Same(d[j], f)})
    <3>1. {f \in S \cup {e} : Same(d[j], f)} = {f \in S \cup {e} : Same(c[j], f)}
      BY <2>8
    <3>2. PICK f \in S : Same(c[j], f)
      BY DEF Compacted
    <3>3. Same(d[j], f)
      BY <2>8, <3>2
    <3>4. CASE j = i
      <4>1. d[j].shape = u
        BY <2>6, <2>7, <3>4
      <4> QED BY <2>4, <3>1, <3>3, <3>4, <4>1
    <3>5. CASE j # i
      <4>1. ~Same(c[j], e)
        <5> SUFFICES ASSUME Same(c[j], e) PROVE FALSE
          OBVIOUS
        <5>1. Same(c[j], c[i])
          BY <1>4 DEF Same
        <5> QED BY <3>5, <5>1 DEF Compacted
      <4>2. {g \in S \cup {e} : Same(c[j], g)} = {g \in S : Same(c[j], g)}
        BY <4>1
      <4>3. IsUnion(c[j].shape, {g \in S : Same(c[j], g)}) /\ d[j].shape = c[j].shape
        BY <2>7, <3>5 DEF Compacted
      <4> QED BY <3>1, <3>3, <4>2, <4>3
    <3> QED BY <3>4, <3>5
  <2>11. ASSUME NEW f \in S \cup {e} PROVE \E j \in DOMAIN c : Same(d[j], f)
    <3>1. \E j \in DOMAIN c : Same(c[j], f)
      BY <1>4 DEF Compacted
    <3> QED BY <2>8, <3>1
  <2> QED BY <2>7, <2>9, <2>10, <2>11 DEF Compacted
<1> QED BY <1>1, <1>2, <1>3, <1>4, CompactOneIs

LEMMA CompactIs ==
  ASSUME NEW ev \in Seq(Ev)
  PROVE  Compacted(Compact(ev), Range(ev))
<1> DEFINE n == Len(ev)
           D == 1..n
           F == [x \in Seq(Ev) \X D |-> CompactOne(x[1], ev[x[2]])]
<1>1. n \in Nat /\ DOMAIN ev = D /\ \A k \in D : ev[k] \in Ev
  OBVIOUS
<1>2. ASSUME NEW c \in Seq(Ev), NEW e \in Ev PROVE CompactOne(c, e) \in Seq(Ev)
  <2>1. CASE CompactOne(c, e) = Append(c, e)
    BY <2>1
  <2>2. ASSUME NEW i \in DOMAIN c,
               CompactOne(c, e) = [c EXCEPT ![i] = [c[i] EXCEPT !.shape = Merge(c[i].shape, e.shape)]]
        PROVE  CompactOne(c, e) \in Seq(Ev)
    <3>1. c[i] \in Ev /\ c[i].shape \in Sorted /\ e.shape \in Sorted
      <4>1. c[i] \in Ev
        OBVIOUS
      <4> QED BY <4>1 DEF Ev
    <3>2. PICK u : u = Merge(c[i].shape, e.shape)
      OBVIOUS
    <3>3. u \in Sorted
      BY <3>1, <3>2, MergeIs
    <3>4. [c[i] EXCEPT !.shape = u] \in Ev
      BY <3>1, <3>3 DEF Ev
    <3> QED BY <2>2, <3>2, <3>4
  <2> QED BY <2>1, <2>2, CompactOneIs
<1>3. F \in [Seq(Ev) \X D -> Seq(Ev)] /\ <<>> \in Seq(Ev)
  BY <1>1, <1>2
<1>4. PICK it : it = CHOOSE h : h = [s \in SUBSET D |-> IF s = {} THEN <<>>
                         ELSE CompactOne(h[s \ {Max(s)}], ev[Max(s)])]
  OBVIOUS
<1>5. Compact(ev) = it[D]
  BY <1>1, <1>4 DEF Compact, FoldLeft, MapThenFoldSet
<1>6. PICK g \in [SUBSET D -> Seq(Ev)] : IsFold(g, n, <<>>, F)
  BY <1>1, <1>3, FoldExists
<1>7. ASSUME NEW s \in SUBSET D, s # {}, NEW v \in Seq(Ev)
      PROVE  F[<<v, Max(s)>>] = CompactOne(v, ev[Max(s)])
  BY <1>1, <1>7, MaxTaken
<1>8. g = [s \in SUBSET D |-> IF s = {} THEN <<>> ELSE CompactOne(g[s \ {Max(s)}], ev[Max(s)])]
  <2>1. ASSUME NEW s \in SUBSET D
        PROVE  g[s] = IF s = {} THEN <<>> ELSE CompactOne(g[s \ {Max(s)}], ev[Max(s)])
    BY <1>1, <1>6, <1>7, MaxTaken DEF IsFold
  <2> HIDE DEF F, n, D
  <2> QED BY <1>6, <2>1
<1>9. it = [s \in SUBSET D |-> IF s = {} THEN <<>> ELSE CompactOne(it[s \ {Max(s)}], ev[Max(s)])]
  BY <1>4, <1>8
<1> HIDE DEF F
<1>10. PICK x : IsTrace(x, n, Seq(Ev), <<>>, F) /\ it[D] = x[n]
  <2>1. Folds(it, n, Seq(Ev), <<>>, F)
    BY <1>7, <1>9 DEF Folds
  <2>2. HasTrace(it, n, Seq(Ev), <<>>, F)
    BY <1>1, <1>3, <2>1, FoldTrace
  <2> QED BY <2>2 DEF HasTrace
<1>11. ASSUME NEW k \in D PROVE x[k] = CompactOne(x[k - 1], ev[k])
  <2>1. x[k] = F[<<x[k - 1], k>>] /\ x \in [0..n -> Seq(Ev)]
    BY <1>10 DEF IsTrace
  <2>2. k - 1 \in 0..n
    BY <1>1
  <2>3. x[k - 1] \in Seq(Ev)
    BY <2>1, <2>2
  <2> QED BY <2>1, <2>3 DEF F
<1> DEFINE First(k) == {ev[i] : i \in 1..k}
           T == {k \in 0..n : Compacted(x[k], First(k))}
<1>12. 0 \in T
  <2>1. x[0] = <<>>
    BY <1>10 DEF IsTrace
  <2>2. 0 \in 0..n
    BY <1>1
  <2>3. First(0) = {}
    OBVIOUS
  <2>4. Compacted(<<>>, {})
    BY <1>3 DEF Compacted
  <2> HIDE DEF First
  <2> QED BY <2>1, <2>2, <2>3, <2>4
<1>13. ASSUME NEW k \in 1..n, k - 1 \in T PROVE k \in T
  <2>1. Compacted(x[k - 1], First(k - 1)) /\ ev[k] \in Ev /\ x[k] = CompactOne(x[k - 1], ev[k])
    BY <1>1, <1>11, <1>13
  <2>2. First(k) = First(k - 1) \cup {ev[k]}
    OBVIOUS
  <2> HIDE DEF First
  <2>3. Compacted(x[k], First(k))
    BY <2>1, <2>2, CompactedMore
  <2> QED BY <2>3
<1> HIDE DEF T
<1>14. \A k \in 0..n : k \in T
  BY <1>1, <1>12, <1>13, UpTo
<1>15. Compacted(x[n], First(n))
  <2>1. n \in 0..n
    BY <1>1
  <2>2. n \in T
    BY <1>14, <2>1
  <2> QED BY <2>2 DEF T
<1>16. First(n) = Range(ev)
  BY <1>1 DEF Range
<1> HIDE DEF First
<1> QED BY <1>5, <1>10, <1>15, <1>16

\* What is left of evidence that has come through DropDemoted.
Merged(S) == {[e EXCEPT !.shape = Union({f \in S : Same(e, f)})] : e \in S}

LEMMA CompactedIs ==
  ASSUME NEW S \in SUBSET Ev, NEW c, Compacted(c, S)
  PROVE  Range(c) = Merged(S)
<1>1. c \in Seq(Ev) /\ \A i \in DOMAIN c : c[i] \in Ev
  BY DEF Compacted
<1>2. ASSUME NEW i \in DOMAIN c, NEW e \in S, Same(c[i], e)
      PROVE  c[i] = [e EXCEPT !.shape = Union({f \in S : Same(e, f)})]
  <2>1. {f \in S : Same(e, f)} = {f \in S : Same(c[i], f)}
    BY <1>2 DEF Same
  <2>2. IsUnion(c[i].shape, {f \in S : Same(c[i], f)})
    BY DEF Compacted
  <2>3. Union({f \in S : Same(e, f)}) = c[i].shape
    BY <2>1, <2>2, UnionIs
  <2>4. c[i] \in Ev /\ e \in Ev /\ c[i].url = e.url /\ c[i].kind = e.kind /\ c[i].from = e.from
    BY <1>1, <1>2 DEF Same
  <2>5. c[i] = [e EXCEPT !.shape = c[i].shape]
    BY <2>4 DEF Ev
  <2> QED BY <2>3, <2>5
<1>3. ASSUME NEW y \in Range(c) PROVE y \in Merged(S)
  <2>1. PICK i \in DOMAIN c : y = c[i]
    BY DEF Range
  <2>2. PICK e \in S : Same(c[i], e)
    BY DEF Compacted
  <2> QED BY <1>2, <2>1, <2>2 DEF Merged
<1>4. ASSUME NEW y \in Merged(S) PROVE y \in Range(c)
  <2>1. PICK e \in S : y = [e EXCEPT !.shape = Union({f \in S : Same(e, f)})]
    BY DEF Merged
  <2>2. PICK i \in DOMAIN c : Same(c[i], e)
    BY DEF Compacted
  <2> QED BY <1>2, <2>1, <2>2 DEF Range
<1> QED BY <1>3, <1>4

-----------------------------------------------------------------------------
(* FindingsBuilder: recording, and finish                                  *)

LEMMA RecordIs ==
  ASSUME NEW hit \in Ev
  PROVE  Record(hit) \in Ev
<1>1. /\ hit = [url |-> hit.url, kind |-> hit.kind, from |-> hit.from, shape |-> hit.shape]
      /\ hit.url \in FoundUrl /\ hit.kind \in Kind /\ hit.shape \in Sorted /\ hit.from \in STRING
  BY DEF Ev
<1>2. PICK u : u = NormalizeApiUrl(hit.url)
  OBVIOUS
<1>3. u \in FoundUrl
  <2>1. <<>> \in Seq(Key)
    OBVIOUS
  <2> QED BY <1>1, <1>2, <2>1 DEF FoundUrl, NormalizeApiUrl
<1>4. PICK shape : shape = ApplyQueryParams(hit.shape, hit.url)
  OBVIOUS
<1>5. shape \in Sorted
  <2>1. PICK keys : keys = AddKeys(hit.shape.keys, hit.url.query)
    OBVIOUS
  <2>2. hit.shape.keys \in KeySeq
    BY <1>1 DEF Sorted
  <2>3. hit.url.query \in Seq(Key)
    BY <1>1 DEF FoundUrl
  <2>4. keys \in KeySeq
    BY <2>1, <2>2, <2>3, AddKeysIs
  <2>5. shape = [hit.shape EXCEPT !.keys = keys]
    BY <1>4, <2>1 DEF ApplyQueryParams
  <2> QED BY <1>1, <2>4, <2>5 DEF Sorted
<1>6. CASE hit.kind = "api"
  <2>1. Record(hit) = [hit EXCEPT !.url = u, !.shape = shape]
    BY <1>2, <1>4, <1>6 DEF Record
  <2> QED BY <1>1, <1>3, <1>5, <2>1 DEF Ev
<1>7. CASE hit.kind = "candidate"
  <2>1. Record(hit) = [hit EXCEPT !.url = u]
    BY <1>2, <1>7 DEF Record
  <2> QED BY <1>1, <1>3, <2>1 DEF Ev
<1>8. CASE hit.kind = "route"
  <2>1. Record(hit) = hit
    BY <1>8 DEF Record
  <2> QED BY <2>1
<1> QED BY <1>1, <1>6, <1>7, <1>8 DEF Kind

LEMMA RecordAllIs ==
  ASSUME NEW hits \in Seq(Ev)
  PROVE  RecordAll(hits) \in Seq(Ev)
<1>1. \A i \in DOMAIN hits : hits[i] \in Ev
  OBVIOUS
<1>2. \A i \in DOMAIN hits : Record(hits[i]) \in Ev
  BY <1>1, RecordIs
<1>3. Len(hits) \in Nat /\ DOMAIN hits = 1..Len(hits)
  OBVIOUS
<1> QED BY <1>2, <1>3, IsASeq DEF RecordAll

-----------------------------------------------------------------------------
(* canonicalize_routes and drop_demoted                                    *)

LEMMA CanonicalIs ==
  ASSUME NEW e \in Ev
  PROVE  Canonical(e) \in Ev
<1>1. e.url \in FoundUrl /\ e.shape \in Sorted /\ e.kind \in Kind
  BY DEF Ev
<1>2. PICK u : u = CanonicalizeRoute(e.url)
  OBVIOUS
<1>3. u \in FoundUrl
  <2>1. <<>> \in Seq(Key)
    OBVIOUS
  <2> QED BY <1>1, <1>2, <2>1 DEF FoundUrl, CanonicalizeRoute
<1>4. [e EXCEPT !.url = u] \in Ev
  BY <1>3 DEF Ev
<1> QED BY <1>2, <1>4 DEF Canonical

CanonicalOf(S) == {Canonical(e) : e \in S}

LEMMA CanonicalizeRoutesIs ==
  ASSUME NEW ev \in Seq(Ev)
  PROVE  CanonicalizeRoutes(ev) \in Seq(Ev) /\ Range(CanonicalizeRoutes(ev)) = CanonicalOf(Range(ev))
<1>1. /\ Len(ev) \in Nat /\ DOMAIN ev = 1..Len(ev)
      /\ \A i \in DOMAIN ev : Canonical(ev[i]) \in Ev
  <2>1. \A i \in DOMAIN ev : ev[i] \in Ev
    OBVIOUS
  <2> QED BY <2>1, CanonicalIs
<1>2. CanonicalizeRoutes(ev) = [i \in DOMAIN ev |-> Canonical(ev[i])]
  BY DEF CanonicalizeRoutes, Canonical
<1>3. PICK c : c = [i \in DOMAIN ev |-> Canonical(ev[i])]
  OBVIOUS
<1>4. c \in Seq(Ev)
  BY <1>1, <1>3, IsASeq
<1>5. Range(c) = CanonicalOf(Range(ev))
  BY <1>3 DEF Range, CanonicalOf
<1> QED BY <1>2, <1>3, <1>4, <1>5

LEMMA DropDemotedIs ==
  ASSUME NEW ev \in Seq(Ev)
  PROVE  /\ DropDemoted(ev) \in Seq(Ev)
         /\ Range(DropDemoted(ev)) = {e \in Range(ev) : Stays(ev, e)}
<1> DEFINE n == Len(ev)
           D == 1..n
           Keep(kept, e) == IF Stays(ev, e) THEN Append(kept, e) ELSE kept
           F == [x \in Seq(Ev) \X D |-> Keep(x[1], ev[x[2]])]
<1>1. n \in Nat /\ DOMAIN ev = D /\ \A k \in D : ev[k] \in Ev
  OBVIOUS
<1>2. ASSUME NEW c \in Seq(Ev), NEW e \in Ev
      PROVE  /\ Keep(c, e) \in Seq(Ev)
             /\ Range(Keep(c, e)) = Range(c) \cup {f \in {e} : Stays(ev, f)}
  <2>1. PICK a : a = Append(c, e)
    OBVIOUS
  <2>2. /\ a \in Seq(Ev) /\ DOMAIN a = 1..Len(c) + 1 /\ Len(c) \in Nat /\ DOMAIN c = 1..Len(c)
        /\ \A i \in 1..Len(c) : a[i] = c[i]
        /\ a[Len(c) + 1] = e
    BY <2>1, AppendProperties
  <2>3. Range(a) = Range(c) \cup {e}
    <3>1. ASSUME NEW y \in Range(a) PROVE y \in Range(c) \cup {e}
      BY <2>2 DEF Range
    <3>2. ASSUME NEW y \in Range(c) \cup {e} PROVE y \in Range(a)
      BY <2>2 DEF Range
    <3> QED BY <3>1, <3>2
  <2> QED BY <2>1, <2>2, <2>3
<1>3. F \in [Seq(Ev) \X D -> Seq(Ev)] /\ <<>> \in Seq(Ev)
  BY <1>1, <1>2
<1>4. PICK it : it = CHOOSE h : h = [s \in SUBSET D |-> IF s = {} THEN <<>>
                         ELSE Keep(h[s \ {Max(s)}], ev[Max(s)])]
  OBVIOUS
<1>5. DropDemoted(ev) = it[D]
  BY <1>1, <1>4 DEF DropDemoted, FoldLeft, MapThenFoldSet
<1> HIDE DEF Keep
<1>6. PICK g \in [SUBSET D -> Seq(Ev)] : IsFold(g, n, <<>>, F)
  BY <1>1, <1>3, FoldExists
<1>7. ASSUME NEW s \in SUBSET D, s # {}, NEW v \in Seq(Ev)
      PROVE  F[<<v, Max(s)>>] = Keep(v, ev[Max(s)])
  BY <1>1, <1>7, MaxTaken
<1>8. g = [s \in SUBSET D |-> IF s = {} THEN <<>> ELSE Keep(g[s \ {Max(s)}], ev[Max(s)])]
  <2>1. ASSUME NEW s \in SUBSET D
        PROVE  g[s] = IF s = {} THEN <<>> ELSE Keep(g[s \ {Max(s)}], ev[Max(s)])
    BY <1>1, <1>6, <1>7, MaxTaken DEF IsFold
  <2> HIDE DEF F, n, D
  <2> QED BY <1>6, <2>1
<1>9. it = [s \in SUBSET D |-> IF s = {} THEN <<>> ELSE Keep(it[s \ {Max(s)}], ev[Max(s)])]
  BY <1>4, <1>8
<1> HIDE DEF F
<1>10. PICK x : IsTrace(x, n, Seq(Ev), <<>>, F) /\ it[D] = x[n]
  <2>1. Folds(it, n, Seq(Ev), <<>>, F)
    BY <1>7, <1>9 DEF Folds
  <2>2. HasTrace(it, n, Seq(Ev), <<>>, F)
    BY <1>1, <1>3, <2>1, FoldTrace
  <2> QED BY <2>2 DEF HasTrace
<1>11. ASSUME NEW k \in D PROVE x[k] = Keep(x[k - 1], ev[k]) /\ x[k - 1] \in Seq(Ev)
  <2>1. x[k] = F[<<x[k - 1], k>>] /\ x \in [0..n -> Seq(Ev)]
    BY <1>10 DEF IsTrace
  <2>2. k - 1 \in 0..n
    BY <1>1
  <2>3. x[k - 1] \in Seq(Ev)
    BY <2>1, <2>2
  <2> QED BY <2>1, <2>3 DEF F
<1> DEFINE Kept(k) == {e \in {ev[i] : i \in 1..k} : Stays(ev, e)}
           T == {k \in 0..n : Range(x[k]) = Kept(k)}
<1>12. 0 \in T
  <2>1. x[0] = <<>>
    BY <1>10 DEF IsTrace
  <2>2. 0 \in 0..n /\ Range(<<>>) = {} /\ Kept(0) = {}
    BY <1>1 DEF Range
  <2> HIDE DEF Kept
  <2> QED BY <2>1, <2>2
<1>13. ASSUME NEW k \in 1..n, k - 1 \in T PROVE k \in T
  <2>1. Range(x[k - 1]) = Kept(k - 1) /\ ev[k] \in Ev
    BY <1>1, <1>13
  <2>2. Kept(k) = Kept(k - 1) \cup {f \in {ev[k]} : Stays(ev, f)}
    OBVIOUS
  <2> HIDE DEF Kept
  <2>3. Range(x[k]) = Range(x[k - 1]) \cup {f \in {ev[k]} : Stays(ev, f)}
    BY <1>2, <1>11, <2>1
  <2>4. Range(x[k]) = Kept(k)
    BY <2>1, <2>2, <2>3
  <2> QED BY <2>4
<1> HIDE DEF T
<1>14. \A k \in 0..n : k \in T
  BY <1>1, <1>12, <1>13, UpTo
<1>15. Range(x[n]) = Kept(n)
  <2>1. n \in 0..n
    BY <1>1
  <2>2. n \in T
    BY <1>14, <2>1
  <2> QED BY <2>2 DEF T
<1>16. Kept(n) = {e \in Range(ev) : Stays(ev, e)}
  BY <1>1 DEF Range
<1>17. x[n] \in Seq(Ev)
  <2>1. x \in [0..n -> Seq(Ev)]
    BY <1>10 DEF IsTrace
  <2> QED BY <1>1, <2>1
<1> HIDE DEF Kept
<1> QED BY <1>5, <1>10, <1>15, <1>16, <1>17

-----------------------------------------------------------------------------
(* finish                                                                  *)

\* An API takes the place of candidates and routes, a candidate that of routes.
Outranked(all, e) ==
  \E f \in all : /\ f.url = e.url
                 /\ \/ f.kind = "api" /\ e.kind # "api"
                    \/ f.kind = "candidate" /\ e.kind = "route"

LEMMA FinishIs ==
  ASSUME NEW ev \in Seq(Ev)
  PROVE  Finish(ev) \in Seq(Ev) /\ Range(Finish(ev)) = Finished(Range(ev))
<1>1. PICK c : c = CanonicalizeRoutes(ev)
  OBVIOUS
<1>2. c \in Seq(Ev) /\ Range(c) = CanonicalOf(Range(ev))
  BY <1>1, CanonicalizeRoutesIs
<1>3. Range(c) \subseteq Ev
  <2>1. \A i \in DOMAIN c : c[i] \in Ev
    BY <1>2
  <2> QED BY <2>1 DEF Range
<1>4. ASSUME NEW e \in Range(c) PROVE Stays(c, e) <=> ~Outranked(Range(c), e)
  <2>1. e.kind \in Kind
    BY <1>3 DEF Ev
  <2>2. /\ e.url \in UrlsOfKind(c, "api") <=> \E f \in Range(c) : f.kind = "api" /\ f.url = e.url
        /\ e.url \in UrlsOfKind(c, "candidate") <=>
             \E f \in Range(c) : f.kind = "candidate" /\ f.url = e.url
    BY DEF UrlsOfKind
  <2>3. CASE e.kind = "api"
    BY <2>3 DEF Stays, Outranked
  <2>4. CASE e.kind = "candidate"
    <3>1. Stays(c, e) <=> e.url \notin UrlsOfKind(c, "api")
      BY <2>4 DEF Stays
    <3> QED BY <2>2, <2>4, <3>1 DEF Outranked
  <2>5. CASE e.kind = "route"
    <3>1. Stays(c, e) <=> e.url \notin UrlsOfKind(c, "api") \cup UrlsOfKind(c, "candidate")
      BY <2>5 DEF Stays
    <3> QED BY <2>2, <2>5, <3>1 DEF Outranked
  <2> QED BY <2>1, <2>3, <2>4, <2>5 DEF Kind
<1>5. PICK kept : kept = {e \in Range(c) : ~Outranked(Range(c), e)}
  OBVIOUS
<1>6. PICK d : d = DropDemoted(c)
  OBVIOUS
<1>7. d \in Seq(Ev) /\ Range(d) = kept
  BY <1>2, <1>4, <1>5, <1>6, DropDemotedIs
<1>8. Compacted(Compact(d), kept)
  BY <1>7, CompactIs
<1>9. Range(Compact(d)) = Merged(kept)
  BY <1>3, <1>5, <1>8, CompactedIs
<1>10. Compact(d) \in Seq(Ev)
  BY <1>8 DEF Compacted
<1>11. Finished(Range(ev)) = Merged(kept)
  BY <1>2, <1>5 DEF Finished, Merged, CanonicalOf, Outranked
<1> QED BY <1>1, <1>6, <1>9, <1>10, <1>11 DEF Finish

-----------------------------------------------------------------------------
(* collect_apis                                                            *)

ApisIn(S) == {e \in S : e.kind = "api"}
AtPath(S, p) == {e \in ApisIn(S) : e.url.path = p}

Collected(m, S) ==
  /\ m \in Maps
  /\ DOMAIN m = {e.url.path : e \in ApisIn(S)}
  /\ \A p \in DOMAIN m : IsUnion(m[p], AtPath(S, p))

LEMMA CollectOneType ==
  ASSUME NEW m \in Maps, NEW e \in Ev
  PROVE  CollectOne(m, e) \in Maps
<1>1. e.url.path \in Path /\ e.shape \in Sorted
  BY DEF Ev, FoundUrl
<1>2. PICK P \in SUBSET Path : m \in [P -> Sorted]
  BY DEF Maps
<1>3. CASE e.kind # "api"
  BY <1>3 DEF CollectOne
<1>4. CASE e.kind = "api" /\ e.url.path \in DOMAIN m
  <2>1. m[e.url.path] \in Sorted
    BY <1>2, <1>4
  <2>2. Merge(m[e.url.path], e.shape) \in Sorted
    BY <1>1, <2>1, MergeIs
  <2>3. CollectOne(m, e) = [m EXCEPT ![e.url.path] = Merge(m[e.url.path], e.shape)]
    BY <1>4 DEF CollectOne, PrettyPath
  <2>4. CollectOne(m, e) \in [P -> Sorted]
    BY <1>2, <2>2, <2>3
  <2> QED BY <2>4 DEF Maps
<1>5. CASE e.kind = "api" /\ e.url.path \notin DOMAIN m
  <2>1. CollectOne(m, e) = [p \in P \cup {e.url.path} |-> IF p = e.url.path THEN e.shape ELSE m[p]]
    BY <1>2, <1>5 DEF CollectOne, PrettyPath
  <2>2. CollectOne(m, e) \in [P \cup {e.url.path} -> Sorted]
    BY <1>1, <1>2, <2>1
  <2>3. P \cup {e.url.path} \in SUBSET Path
    BY <1>1
  <2> QED BY <2>2, <2>3 DEF Maps
<1> QED BY <1>3, <1>4, <1>5

LEMMA CollectedMore ==
  ASSUME NEW S \in SUBSET Ev, NEW m, Collected(m, S), NEW e \in Ev
  PROVE  Collected(CollectOne(m, e), S \cup {e})
<1>1. m \in Maps /\ CollectOne(m, e) \in Maps
  BY CollectOneType DEF Collected
<1>2. PICK P \in SUBSET Path : m \in [P -> Sorted]
  BY <1>1 DEF Maps
<1>3. CASE e.kind # "api"
  <2>1. CollectOne(m, e) = m
    BY <1>3 DEF CollectOne
  <2>2. ApisIn(S \cup {e}) = ApisIn(S)
    BY <1>3 DEF ApisIn
  <2> QED BY <2>1, <2>2 DEF Collected, AtPath
<1>4. CASE e.kind = "api"
  <2>1. ApisIn(S \cup {e}) = ApisIn(S) \cup {e}
    BY <1>4 DEF ApisIn
  <2>2. PICK path : path = e.url.path
    OBVIOUS
  <2>3. AtPath(S \cup {e}, path) = AtPath(S, path) \cup {e}
    BY <2>1, <2>2 DEF AtPath
  <2>4. ASSUME NEW p, p # path PROVE AtPath(S \cup {e}, p) = AtPath(S, p)
    BY <2>1, <2>2, <2>4 DEF AtPath
  <2>5. PICK r : r = CollectOne(m, e)
    OBVIOUS
  <2>6. CASE path \in DOMAIN m
    <3>1. r = [m EXCEPT ![path] = Merge(m[path], e.shape)]
      BY <1>4, <2>2, <2>5, <2>6 DEF CollectOne, PrettyPath
    <3>2. DOMAIN r = DOMAIN m /\ r[path] = Merge(m[path], e.shape)
      BY <1>2, <2>6, <3>1
    <3>3. \A p \in DOMAIN m : p # path => r[p] = m[p]
      BY <1>2, <3>1
    <3>4. IsUnion(r[path], AtPath(S \cup {e}, path))
      <4>1. PICK u : u = m[path]
        OBVIOUS
      <4>2. IsUnion(u, AtPath(S, path))
        BY <2>6, <4>1 DEF Collected
      <4>3. IsUnion(Merge(u, e.shape), AtPath(S, path) \cup {e})
        BY <4>2, UnionOfMore
      <4> QED BY <2>3, <3>2, <4>1, <4>3
    <3>5. DOMAIN r = {f.url.path : f \in ApisIn(S \cup {e})}
      BY <2>1, <2>2, <2>6, <3>2 DEF Collected
    <3>6. ASSUME NEW p \in DOMAIN r PROVE IsUnion(r[p], AtPath(S \cup {e}, p))
      <4>1. CASE p = path
        BY <3>4, <4>1
      <4>2. CASE p # path
        <5>1. IsUnion(m[p], AtPath(S, p))
          BY <3>2 DEF Collected
        <5> QED BY <2>4, <3>2, <3>3, <4>2, <5>1
      <4> QED BY <4>1, <4>2
    <3> QED BY <1>1, <2>5, <3>5, <3>6 DEF Collected
  <2>7. CASE path \notin DOMAIN m
    <3>1. r = [p \in DOMAIN m \cup {path} |-> IF p = path THEN e.shape ELSE m[p]]
      BY <1>4, <2>2, <2>5, <2>7 DEF CollectOne, PrettyPath
    <3>2. DOMAIN r = DOMAIN m \cup {path} /\ r[path] = e.shape
      BY <3>1
    <3>3. \A p \in DOMAIN m : r[p] = m[p]
      BY <2>7, <3>1
    <3>4. AtPath(S \cup {e}, path) = {e}
      <4>1. AtPath(S, path) = {}
        BY <2>7 DEF AtPath, Collected
      <4> QED BY <2>3, <4>1
    <3>5. DOMAIN r = {f.url.path : f \in ApisIn(S \cup {e})}
      BY <2>1, <2>2, <3>2 DEF Collected
    <3>6. ASSUME NEW p \in DOMAIN r PROVE IsUnion(r[p], AtPath(S \cup {e}, p))
      <4>1. CASE p = path
        BY <3>2, <3>4, <4>1, UnionOfOne
      <4>2. CASE p # path
        <5>1. p \in DOMAIN m /\ IsUnion(m[p], AtPath(S, p))
          BY <3>2, <4>2 DEF Collected
        <5> QED BY <2>4, <3>3, <4>2, <5>1
      <4> QED BY <4>1, <4>2
    <3> QED BY <1>1, <2>5, <3>5, <3>6 DEF Collected
  <2> QED BY <2>6, <2>7
<1> QED BY <1>3, <1>4

LEMMA CollectedIs ==
  ASSUME NEW S \in SUBSET Ev, NEW m, Collected(m, S)
  PROVE  m = ApisOf(S)
<1>1. PICK P \in SUBSET Path : m \in [P -> Sorted]
  BY DEF Collected, Maps
<1>2. DOMAIN m = {e.url.path : e \in ApisIn(S)}
  BY DEF Collected
<1>3. ApisOf(S) = [p \in {e.url.path : e \in ApisIn(S)} |-> Union(AtPath(S, p))]
  BY DEF ApisOf, ApisIn, AtPath, PrettyPath
<1>4. ASSUME NEW p \in DOMAIN m PROVE m[p] = Union(AtPath(S, p))
  BY UnionIs DEF Collected
<1> QED BY <1>1, <1>2, <1>3, <1>4

LEMMA CollectApisIs ==
  ASSUME NEW ev \in Seq(Ev)
  PROVE  Collected(CollectApis(ev), Range(ev))
<1> DEFINE n == Len(ev)
           D == 1..n
           F == [x \in Maps \X D |-> CollectOne(x[1], ev[x[2]])]
<1>1. n \in Nat /\ DOMAIN ev = D /\ \A k \in D : ev[k] \in Ev
  OBVIOUS
<1>2. <<>> \in Maps /\ DOMAIN <<>> = {}
  <2>1. <<>> \in [{} -> Sorted] /\ {} \in SUBSET Path /\ DOMAIN <<>> = {}
    OBVIOUS
  <2> QED BY <2>1 DEF Maps
<1>3. F \in [Maps \X D -> Maps]
  BY <1>1, CollectOneType
<1>4. PICK it : it = CHOOSE h : h = [s \in SUBSET D |-> IF s = {} THEN <<>>
                         ELSE CollectOne(h[s \ {Max(s)}], ev[Max(s)])]
  OBVIOUS
<1>5. CollectApis(ev) = it[D]
  BY <1>1, <1>4 DEF CollectApis, FoldLeft, MapThenFoldSet
<1>6. PICK g \in [SUBSET D -> Maps] : IsFold(g, n, <<>>, F)
  BY <1>1, <1>2, <1>3, FoldExists
<1>7. ASSUME NEW s \in SUBSET D, s # {}, NEW v \in Maps
      PROVE  F[<<v, Max(s)>>] = CollectOne(v, ev[Max(s)])
  BY <1>1, <1>7, MaxTaken
<1>8. g = [s \in SUBSET D |-> IF s = {} THEN <<>> ELSE CollectOne(g[s \ {Max(s)}], ev[Max(s)])]
  <2>1. ASSUME NEW s \in SUBSET D
        PROVE  g[s] = IF s = {} THEN <<>> ELSE CollectOne(g[s \ {Max(s)}], ev[Max(s)])
    BY <1>1, <1>6, <1>7, MaxTaken DEF IsFold
  <2> HIDE DEF F, n, D
  <2> QED BY <1>6, <2>1
<1>9. it = [s \in SUBSET D |-> IF s = {} THEN <<>> ELSE CollectOne(it[s \ {Max(s)}], ev[Max(s)])]
  BY <1>4, <1>8
<1> HIDE DEF F
<1>10. PICK x : IsTrace(x, n, Maps, <<>>, F) /\ it[D] = x[n]
  <2>1. Folds(it, n, Maps, <<>>, F)
    BY <1>7, <1>9 DEF Folds
  <2>2. HasTrace(it, n, Maps, <<>>, F)
    BY <1>1, <1>2, <1>3, <2>1, FoldTrace
  <2> QED BY <2>2 DEF HasTrace
<1>11. ASSUME NEW k \in D PROVE x[k] = CollectOne(x[k - 1], ev[k])
  <2>1. x[k] = F[<<x[k - 1], k>>] /\ x \in [0..n -> Maps]
    BY <1>10 DEF IsTrace
  <2>2. k - 1 \in 0..n
    BY <1>1
  <2>3. x[k - 1] \in Maps
    BY <2>1, <2>2
  <2> QED BY <2>1, <2>3 DEF F
<1> DEFINE First(k) == {ev[i] : i \in 1..k}
           T == {k \in 0..n : Collected(x[k], First(k))}
<1>12. 0 \in T
  <2>1. x[0] = <<>>
    BY <1>10 DEF IsTrace
  <2>2. 0 \in 0..n
    BY <1>1
  <2>3. First(0) = {}
    OBVIOUS
  <2>4. Collected(<<>>, {})
    BY <1>2 DEF Collected, ApisIn
  <2> HIDE DEF First
  <2> QED BY <2>1, <2>2, <2>3, <2>4
<1>13. ASSUME NEW k \in 1..n, k - 1 \in T PROVE k \in T
  <2>1. Collected(x[k - 1], First(k - 1)) /\ ev[k] \in Ev /\ x[k] = CollectOne(x[k - 1], ev[k])
    BY <1>1, <1>11, <1>13
  <2>2. First(k) = First(k - 1) \cup {ev[k]} /\ First(k - 1) \in SUBSET Ev
    BY <1>1
  <2> HIDE DEF First
  <2>3. Collected(x[k], First(k))
    BY <2>1, <2>2, CollectedMore
  <2> QED BY <2>3
<1> HIDE DEF T
<1>14. \A k \in 0..n : k \in T
  BY <1>1, <1>12, <1>13, UpTo
<1>15. Collected(x[n], First(n))
  <2>1. n \in 0..n
    BY <1>1
  <2>2. n \in T
    BY <1>14, <2>1
  <2> QED BY <2>2 DEF T
<1>16. First(n) = Range(ev)
  BY <1>1 DEF Range
<1> HIDE DEF First
<1> QED BY <1>5, <1>10, <1>15, <1>16

LEMMA RangeType ==
  ASSUME NEW S, NEW s \in Seq(S)
  PROVE  Range(s) \in SUBSET S
<1>1. \A i \in DOMAIN s : s[i] \in S
  OBVIOUS
<1> QED BY <1>1 DEF Range

\* The APIs of an output are those of the set of evidence it is made from.
LEMMA ApisAre ==
  ASSUME NEW ev \in Seq(Ev)
  PROVE  /\ CollectApis(Finish(ev)) = ApisOf(Finished(Range(ev)))
         /\ CollectApis(Finish(ev)) \in Maps
<1>1. PICK f : f = Finish(ev)
  OBVIOUS
<1>2. f \in Seq(Ev) /\ Range(f) = Finished(Range(ev)) /\ Range(f) \in SUBSET Ev
  BY <1>1, FinishIs, RangeType
<1>3. Collected(CollectApis(f), Range(f))
  BY <1>2, CollectApisIs
<1>4. CollectApis(f) = ApisOf(Range(f))
  BY <1>2, <1>3, CollectedIs
<1> QED BY <1>1, <1>2, <1>3, <1>4 DEF Collected

-----------------------------------------------------------------------------
(* The evidence of a scan                                                  *)

LEMMA EvidenceOfIs ==
  ASSUME NEW found \in Seq(Body)
  PROVE  EvidenceOf(found) \in Seq(Ev) /\ Range(EvidenceOf(found)) = EvidenceIn(Range(found))
<1> DEFINE n == Len(found)
           D == 1..n
           More(ev, b) == ev \o RecordAll(Hits[b])
           F == [x \in Seq(Ev) \X D |-> More(x[1], found[x[2]])]
<1>1. n \in Nat /\ DOMAIN found = D /\ \A k \in D : found[k] \in Body
  OBVIOUS
<1>2. ASSUME NEW c \in Seq(Ev), NEW b \in Body
      PROVE  /\ More(c, b) \in Seq(Ev)
             /\ Range(More(c, b)) = Range(c) \cup Range(RecordAll(Hits[b]))
  <2>1. Hits[b] \in Seq(Ev)
    BY SiteAssumption, HitsAreEv
  <2>2. PICK r : r = RecordAll(Hits[b])
    OBVIOUS
  <2>3. r \in Seq(Ev)
    BY <2>1, <2>2, RecordAllIs
  <2>4. c \o r \in Seq(Ev) /\ Range(c \o r) = Range(c) \cup Range(r)
    BY <2>3, ConcatProperties, RangeConcatenation
  <2> QED BY <2>2, <2>4
<1>3. F \in [Seq(Ev) \X D -> Seq(Ev)] /\ <<>> \in Seq(Ev)
  BY <1>1, <1>2
<1>4. PICK it : it = CHOOSE h : h = [s \in SUBSET D |-> IF s = {} THEN <<>>
                         ELSE More(h[s \ {Max(s)}], found[Max(s)])]
  OBVIOUS
<1>5. EvidenceOf(found) = it[D]
  BY <1>1, <1>4 DEF EvidenceOf, FoldLeft, MapThenFoldSet
<1> HIDE DEF More
<1>6. PICK g \in [SUBSET D -> Seq(Ev)] : IsFold(g, n, <<>>, F)
  BY <1>1, <1>3, FoldExists
<1>7. ASSUME NEW s \in SUBSET D, s # {}, NEW v \in Seq(Ev)
      PROVE  F[<<v, Max(s)>>] = More(v, found[Max(s)])
  BY <1>1, <1>7, MaxTaken
<1>8. g = [s \in SUBSET D |-> IF s = {} THEN <<>> ELSE More(g[s \ {Max(s)}], found[Max(s)])]
  <2>1. ASSUME NEW s \in SUBSET D
        PROVE  g[s] = IF s = {} THEN <<>> ELSE More(g[s \ {Max(s)}], found[Max(s)])
    BY <1>1, <1>6, <1>7, MaxTaken DEF IsFold
  <2> HIDE DEF F, n, D
  <2> QED BY <1>6, <2>1
<1>9. it = [s \in SUBSET D |-> IF s = {} THEN <<>> ELSE More(it[s \ {Max(s)}], found[Max(s)])]
  BY <1>4, <1>8
<1> HIDE DEF F
<1>10. PICK x : IsTrace(x, n, Seq(Ev), <<>>, F) /\ it[D] = x[n]
  <2>1. Folds(it, n, Seq(Ev), <<>>, F)
    BY <1>7, <1>9 DEF Folds
  <2>2. HasTrace(it, n, Seq(Ev), <<>>, F)
    BY <1>1, <1>3, <2>1, FoldTrace
  <2> QED BY <2>2 DEF HasTrace
<1>11. ASSUME NEW k \in D PROVE x[k] = More(x[k - 1], found[k]) /\ x[k - 1] \in Seq(Ev)
  <2>1. x[k] = F[<<x[k - 1], k>>] /\ x \in [0..n -> Seq(Ev)]
    BY <1>10 DEF IsTrace
  <2>2. k - 1 \in 0..n
    BY <1>1
  <2>3. x[k - 1] \in Seq(Ev)
    BY <2>1, <2>2
  <2> QED BY <2>1, <2>3 DEF F
<1> DEFINE First(k) == {found[i] : i \in 1..k}
           T == {k \in 0..n : Range(x[k]) = EvidenceIn(First(k))}
<1>12. 0 \in T
  <2>1. x[0] = <<>>
    BY <1>10 DEF IsTrace
  <2>2. 0 \in 0..n
    BY <1>1
  <2>3. First(0) = {}
    OBVIOUS
  <2>4. Range(<<>>) = {} /\ EvidenceIn({}) = {}
    BY DEF Range, EvidenceIn
  <2> HIDE DEF First
  <2> QED BY <2>1, <2>2, <2>3, <2>4
<1>13. ASSUME NEW k \in 1..n, k - 1 \in T PROVE k \in T
  <2>1. Range(x[k - 1]) = EvidenceIn(First(k - 1)) /\ found[k] \in Body
    BY <1>1, <1>13
  <2>2. First(k) = First(k - 1) \cup {found[k]}
    OBVIOUS
  <2> HIDE DEF First
  <2>3. Range(x[k]) = Range(x[k - 1]) \cup Range(RecordAll(Hits[found[k]]))
    BY <1>2, <1>11, <2>1
  <2>4. EvidenceIn(First(k)) = EvidenceIn(First(k - 1)) \cup Range(RecordAll(Hits[found[k]]))
    BY <2>2 DEF EvidenceIn
  <2>5. Range(x[k]) = EvidenceIn(First(k))
    BY <2>1, <2>3, <2>4
  <2> QED BY <2>5
<1> HIDE DEF T
<1>14. \A k \in 0..n : k \in T
  BY <1>1, <1>12, <1>13, UpTo
<1>15. n \in 0..n
  BY <1>1
<1>16. Range(x[n]) = EvidenceIn(First(n))
  <2>1. n \in T
    BY <1>14, <1>15
  <2> QED BY <2>1 DEF T
<1>17. First(n) = Range(found)
  BY <1>1 DEF Range
<1>18. x[n] \in Seq(Ev)
  <2>1. x \in [0..n -> Seq(Ev)]
    BY <1>10 DEF IsTrace
  <2> QED BY <1>15, <2>1
<1> HIDE DEF First
<1> QED BY <1>5, <1>10, <1>16, <1>17, <1>18

-----------------------------------------------------------------------------
(* The assets                                                              *)

\* Libraries that are queued are counted with those that were.
LEMMA BudgetSpent ==
  ASSUME NEW seen \in SUBSET Asset, NEW skipped, NEW spent \in 0..MaxLowSignal,
         Budget(seen, skipped, spent),
         NEW T \in SUBSET (Asset \ seen), NEW K \in SUBSET (T \cap LowSignal),
         NEW n, n = Cardinality((T \cap LowSignal) \ K),
         n = Smaller(Cardinality(T \cap LowSignal), MaxLowSignal - spent)
  PROVE  spent + n \in 0..MaxLowSignal /\ Budget(seen \cup T, skipped \cup K, spent + n)
<1> DEFINE low == T \cap LowSignal
           old == (seen \cap LowSignal) \ skipped
           all == ((seen \cup T) \cap LowSignal) \ (skipped \cup K)
<1>1. IsFiniteSet(Asset) /\ MaxLowSignal \in Nat
  BY SiteAssumption
<1>2. IsFiniteSet(low) /\ IsFiniteSet(low \ K) /\ IsFiniteSet(old)
  BY <1>1, FS_Subset
<1>3. /\ Cardinality(low) \in Nat /\ Cardinality(low \ K) \in Nat /\ Cardinality(old) \in Nat
  BY <1>2, FS_CardinalityType
<1>4. all = old \cup (low \ K) /\ old \cap (low \ K) = {}
  BY DEF Budget
<1>5. Cardinality(all) = Cardinality(old) + Cardinality(low \ K)
  <2>1. Cardinality(old \cap (low \ K)) = 0
    BY <1>4, FS_EmptySet
  <2>2. Cardinality(old \cup (low \ K))
          = Cardinality(old) + Cardinality(low \ K) - Cardinality(old \cap (low \ K))
    BY <1>2, FS_Union
  <2> HIDE DEF old, low, all
  <2> QED BY <1>3, <1>4, <2>1, <2>2
<1>6. K # {} => n < Cardinality(low)
  <2>1. Cardinality(low \ K) <= Cardinality(low)
        /\ (Cardinality(low) = Cardinality(low \ K) => low = low \ K)
    BY <1>2, FS_Subset
  <2>2. K # {} => low # low \ K
    OBVIOUS
  <2>3. n = Cardinality(low \ K)
    OBVIOUS
  <2> HIDE DEF low
  <2> QED BY <1>3, <2>1, <2>2, <2>3
<1>7. n = Cardinality(low \ K) /\ n = Smaller(Cardinality(low), MaxLowSignal - spent)
      /\ Cardinality(old) = spent /\ (skipped # {} => spent = MaxLowSignal)
      /\ skipped \cup K \subseteq (seen \cup T) \cap LowSignal
  BY DEF Budget
<1> HIDE DEF old, low
<1>8. spent + n \in 0..MaxLowSignal
      /\ (K # {} => spent + n = MaxLowSignal)
      /\ (spent = MaxLowSignal => n = 0)
  BY <1>1, <1>3, <1>6, <1>7 DEF Smaller
<1>9. spent + n = Cardinality(all)
  BY <1>5, <1>7
<1>10. skipped \cup K # {} => spent + n = MaxLowSignal
  BY <1>1, <1>7, <1>8
<1> QED BY <1>7, <1>8, <1>9, <1>10 DEF Budget

\* What is not visited is lost, and the output says it is capped; what is visited
\* and not queued is skipped.
LEMMA EnqueuedOK ==
  ASSUME NEW s \in Scan, s.phase = "assets", PageScanned(s), LossesCounted(s),
         NEW refs \in SUBSET Asset, Accounts(s, refs), NEW T, NEW K, Enqueue(s, refs, T, K)
  PROVE  Enqueued(s, refs, T, K) \in Scan /\ LocalOK(Enqueued(s, refs, T, K))
<1> DEFINE t == Enqueued(s, refs, T, K)
<1>1. T \in SUBSET (refs \ s.seen) /\ K \in SUBSET (T \cap LowSignal)
  BY DEF Enqueue
<1>2. PICK n \in 0..MaxLowSignal :
        /\ n = s.lowSignal + Cardinality((T \cap LowSignal) \ K)
        /\ Budget(s.seen \cup T, s.skipped \cup K, n)
  <2>1. PICK k : k = Cardinality((T \cap LowSignal) \ K)
    OBVIOUS
  <2>2. k = Smaller(Cardinality(T \cap LowSignal), MaxLowSignal - s.lowSignal)
    BY <2>1 DEF Enqueue
  <2>3. s.seen \in SUBSET Asset /\ s.lowSignal \in 0..MaxLowSignal /\ T \in SUBSET (Asset \ s.seen)
    BY <1>1 DEF Scan
  <2>4. Budget(s.seen, s.skipped, s.lowSignal)
    BY DEF Accounts
  <2>5. /\ s.lowSignal + k \in 0..MaxLowSignal
        /\ Budget(s.seen \cup T, s.skipped \cup K, s.lowSignal + k)
    <3> HIDE DEF t
    <3> QED BY <1>1, <2>1, <2>2, <2>3, <2>4, BudgetSpent
  <2> QED BY <2>1, <2>5
<1>3. t = [s EXCEPT !.seen = @ \cup T, !.todo = @ \cup (T \ K), !.skipped = @ \cup K,
                    !.lowSignal = n,
                    !.lost = @ \cup ((refs \ s.seen) \ T), !.capped = @ \/ (refs \ s.seen) # T]
  BY <1>2 DEF Enqueued
<1>4. t \in Scan
  <2>1. /\ s.seen \cup T \in SUBSET Asset /\ s.todo \cup (T \ K) \in SUBSET Asset
        /\ s.skipped \cup K \in SUBSET Asset /\ s.lost \cup ((refs \ s.seen) \ T) \in SUBSET Asset
    BY <1>1 DEF Scan
  <2>2. PICK capped \in BOOLEAN : capped = (s.capped \/ (refs \ s.seen) # T)
    BY DEF Scan
  <2>3. t = [s EXCEPT !.seen = s.seen \cup T, !.todo = s.todo \cup (T \ K),
                      !.skipped = s.skipped \cup K, !.lowSignal = n,
                      !.lost = s.lost \cup ((refs \ s.seen) \ T), !.capped = capped]
    BY <1>3, <2>2
  <2> HIDE DEF t
  <2> QED BY <1>2, <2>1, <2>3 DEF Scan
<1>5. /\ t.phase = "assets" /\ t.page = s.page /\ t.found = s.found
      /\ t.failed = s.failed /\ t.unauthorized = s.unauthorized
      /\ t.lost = s.lost \cup ((refs \ s.seen) \ T)
      /\ t.capped = (s.capped \/ (refs \ s.seen) # T)
      /\ t.seen = s.seen \cup T /\ t.todo = s.todo \cup (T \ K)
      /\ t.skipped = s.skipped \cup K /\ t.lowSignal = n
  BY <1>3 DEF Scan
<1> HIDE DEF t
<1>6. t.lost = {} <=> s.lost = {} /\ (refs \ s.seen) = T
  BY <1>1, <1>5
<1>7. LossesCounted(t)
  BY <1>5, <1>6 DEF LossesCounted
<1>8. PageScanned(t) /\ Validated(t) /\ t.phase # "read_fresh"
  BY <1>5 DEF PageScanned, Validated
<1>9. Accounts(t, {})
  <2>1. ASSUME NEW b \in Range(t.found) PROVE Refs[b] \subseteq t.seen \cup t.lost \cup {}
    <3>1. Refs[b] \subseteq s.seen \cup s.lost \cup refs
      BY <1>5 DEF Accounts
    <3> QED BY <1>1, <1>5, <3>1
  <2>2. ASSUME NEW a \in t.seen
        PROVE  a \in t.todo \cup t.lost \cup t.skipped
                 \/ \E k \in Build : BodyOf[k][a] \in Range(t.found)
    <3>1. CASE a \in T
      BY <1>5, <3>1
    <3>2. CASE a \in s.seen
      <4>1. a \in s.todo \cup s.lost \cup s.skipped
              \/ \E k \in Build : BodyOf[k][a] \in Range(s.found)
        BY <3>2 DEF Accounts
      <4> QED BY <1>5, <4>1
    <3> QED BY <1>5, <3>1, <3>2
  <2>3. Budget(t.seen, t.skipped, t.lowSignal)
    BY <1>2, <1>5
  <2> QED BY <2>1, <2>2, <2>3 DEF Accounts
<1> QED BY <1>4, <1>7, <1>8, <1>9, <1>5 DEF LocalOK, t

LEMMA StartAssetsStep ==
  ASSUME IInv, NEW p \in Proc, StartAssets(p)
  PROVE  IInv'
<1>1. scan[p] \in Scan /\ LocalOK(scan[p]) /\ scan[p].phase = "start"
  BY DEF IInv, Scans, StartAssets, In
<1> DEFINE s == [scan[p] EXCEPT !.phase = "assets"]
<1>2. PICK refs : refs = Refs[scan[p].page]
  OBVIOUS
<1>3. refs \in SUBSET Asset
  <2>1. scan[p].page \in PageBody
    BY <1>1 DEF LocalOK, PageScanned
  <2>2. scan[p].page \in Body
    BY <2>1, PageType DEF PageBody
  <2> QED BY <1>2, <2>2, SiteAssumption
<1>4. PICK T \in SUBSET refs, K \in SUBSET Asset :
        Enqueue(s, refs, T, K) /\ scan' = [scan EXCEPT ![p] = Enqueued(s, refs, T, K)]
  BY <1>2, <1>3 DEF StartAssets
<1>5. s \in Scan
  BY <1>1 DEF Scan, Phase
<1>6. /\ s.phase = "assets" /\ s.page = scan[p].page /\ s.found = scan[p].found
      /\ s.failed = scan[p].failed /\ s.unauthorized = scan[p].unauthorized
      /\ s.lost = scan[p].lost /\ s.capped = scan[p].capped
      /\ s.seen = scan[p].seen /\ s.skipped = scan[p].skipped
      /\ s.lowSignal = scan[p].lowSignal
  BY <1>1 DEF Scan
<1>7. UNCHANGED <<build, disk, out, job>>
  BY DEF StartAssets
<1> HIDE DEF s
<1>8. PageScanned(s) /\ LossesCounted(s)
  BY <1>1, <1>6 DEF LocalOK, PageScanned, LossesCounted
<1>9. Accounts(s, refs)
  <2>1. Range(s.found) = {s.page} /\ s.seen = {} /\ s.skipped = {} /\ s.lowSignal = 0
    BY <1>1, <1>6 DEF LocalOK, PageScanned
  <2>2. Budget(s.seen, s.skipped, s.lowSignal)
    <3>1. (s.seen \cap LowSignal) \ s.skipped = {}
      BY <2>1
    <3> QED BY <2>1, <3>1, FS_EmptySet DEF Budget
  <2> QED BY <1>2, <1>6, <2>1, <2>2 DEF Accounts
<1>10. Enqueued(s, refs, T, K) \in Scan /\ LocalOK(Enqueued(s, refs, T, K))
  BY <1>3, <1>4, <1>5, <1>6, <1>8, <1>9, EnqueuedOK
<1> QED BY <1>1, <1>4, <1>7, <1>10, LocalStep

LEMMA AssetScannedStep ==
  ASSUME IInv, NEW p \in Proc, NEW a \in Asset, AssetScanned(p, a)
  PROVE  IInv'
<1>1. scan[p] \in Scan /\ LocalOK(scan[p]) /\ scan[p].phase = "assets"
  BY DEF IInv, Scans, AssetScanned, In
<1>2. PICK b \in {BodyOf[k][a] : k \in IF scan[p].useCache THEN Build ELSE {build}} :
        LET s == [scan[p] EXCEPT !.todo = @ \ {a}, !.found = Append(@, b)]
        IN  \E T \in SUBSET Refs[b] : \E K \in SUBSET T :
              /\ Enqueue(s, Refs[b], T, K)
              /\ scan' = [scan EXCEPT ![p] = Enqueued(s, Refs[b], T, K)]
  BY DEF AssetScanned
<1>3. b \in Body /\ \E k \in Build : b = BodyOf[k][a]
  BY <1>2, PageType DEF IInv
<1>4. Refs[b] \in SUBSET Asset
  BY <1>3, SiteAssumption
<1> DEFINE s == [scan[p] EXCEPT !.todo = @ \ {a}, !.found = Append(@, b)]
<1>5. PICK T, K : Enqueue(s, Refs[b], T, K)
                    /\ scan' = [scan EXCEPT ![p] = Enqueued(s, Refs[b], T, K)]
  BY <1>2
<1>6. scan[p].found \in Seq(Body)
  BY <1>1 DEF Scan
<1>7. Append(scan[p].found, b) \in Seq(Body)
      /\ Range(Append(scan[p].found, b)) = Range(scan[p].found) \cup {b}
  <2>1. PICK t : t = Append(scan[p].found, b)
    OBVIOUS
  <2>2. t \in Seq(Body) /\ Appended(t, scan[p].found, b)
    BY <1>3, <1>6, <2>1, AppendNew
  <2>3. Range(t) = Range(scan[p].found) \cup {b}
    BY <1>6, <2>2 DEF Range, Appended
  <2> QED BY <2>1, <2>2, <2>3
<1>8. s \in Scan
  BY <1>1, <1>7 DEF Scan, Phase
<1>9. /\ s.phase = "assets" /\ s.page = scan[p].page /\ s.found = Append(scan[p].found, b)
      /\ s.failed = scan[p].failed /\ s.unauthorized = scan[p].unauthorized
      /\ s.lost = scan[p].lost /\ s.capped = scan[p].capped
      /\ s.seen = scan[p].seen /\ s.skipped = scan[p].skipped
      /\ s.lowSignal = scan[p].lowSignal /\ s.todo = scan[p].todo \ {a}
  BY <1>1 DEF Scan
<1>10. UNCHANGED <<build, disk, out, job>>
  BY DEF AssetScanned
<1> HIDE DEF s
<1>11. PageScanned(s) /\ LossesCounted(s)
  BY <1>1, <1>7, <1>9 DEF LocalOK, PageScanned, LossesCounted
<1>12. Accounts(s, Refs[b])
  <2>1. Accounts(scan[p], {}) /\ Range(s.found) = Range(scan[p].found) \cup {b}
    BY <1>1, <1>7, <1>9 DEF LocalOK
  <2>2. ASSUME NEW c \in Range(s.found)
        PROVE  Refs[c] \subseteq s.seen \cup s.lost \cup Refs[b]
    <3>1. CASE c = b
      BY <3>1
    <3>2. CASE c \in Range(scan[p].found)
      BY <1>9, <2>1, <3>2 DEF Accounts
    <3> QED BY <2>1, <3>1, <3>2
  <2>3. ASSUME NEW c \in s.seen
        PROVE  c \in s.todo \cup s.lost \cup s.skipped
                 \/ \E k \in Build : BodyOf[k][c] \in Range(s.found)
    <3>1. CASE c = a
      BY <1>3, <2>1, <3>1
    <3>2. CASE c # a
      <4>1. c \in scan[p].todo \cup scan[p].lost \cup scan[p].skipped
              \/ \E k \in Build : BodyOf[k][c] \in Range(scan[p].found)
        BY <1>9, <2>1 DEF Accounts
      <4> QED BY <1>9, <2>1, <3>2, <4>1
    <3> QED BY <3>1, <3>2
  <2> QED BY <1>9, <2>1, <2>2, <2>3 DEF Accounts
<1>13. Enqueued(s, Refs[b], T, K) \in Scan /\ LocalOK(Enqueued(s, Refs[b], T, K))
  BY <1>4, <1>5, <1>8, <1>9, <1>11, <1>12, EnqueuedOK
<1> QED BY <1>1, <1>5, <1>10, <1>13, LocalStep

LEMMA AssetFailsStep ==
  ASSUME IInv, NEW p \in Proc, NEW a \in Asset, AssetFails(p, a)
  PROVE  IInv'
<1>1. scan[p] \in Scan /\ LocalOK(scan[p]) /\ scan[p].phase = "assets"
  BY DEF IInv, Scans, AssetFails, In
<1> DEFINE t == [scan[p] EXCEPT !.todo = @ \ {a}, !.lost = @ \cup {a}, !.failed = @ + 1]
<1>2. scan[p].failed \in Nat /\ scan[p].failed + 1 \in Nat \ {0}
  BY <1>1 DEF Scan
<1>3. t \in Scan
  BY <1>1, <1>2 DEF Scan
<1>4. /\ t.phase = "assets" /\ t.page = scan[p].page /\ t.found = scan[p].found
      /\ t.failed = scan[p].failed + 1 /\ t.unauthorized = scan[p].unauthorized
      /\ t.lost = scan[p].lost \cup {a} /\ t.todo = scan[p].todo \ {a}
      /\ t.seen = scan[p].seen /\ t.skipped = scan[p].skipped
      /\ t.lowSignal = scan[p].lowSignal
  BY <1>1 DEF Scan
<1>5. scan' = [scan EXCEPT ![p] = t]
  BY DEF AssetFails
<1>6. UNCHANGED <<build, disk, out, job>>
  BY DEF AssetFails
<1> HIDE DEF t
<1>7. LossesCounted(t)
  <2>1. t.lost # {} /\ t.failed # 0
    BY <1>2, <1>4
  <2> QED BY <1>1, <1>4, <2>1 DEF LocalOK, LossesCounted
<1>8. Accounts(t, {})
  <2>1. Accounts(scan[p], {})
    BY <1>1 DEF LocalOK
  <2>2. ASSUME NEW c \in t.seen
        PROVE  c \in t.todo \cup t.lost \cup t.skipped
                 \/ \E k \in Build : BodyOf[k][c] \in Range(t.found)
    BY <1>4, <2>1 DEF Accounts
  <2>3. \A b \in Range(t.found) : Refs[b] \subseteq t.seen \cup t.lost \cup {}
    BY <1>4, <2>1 DEF Accounts
  <2> QED BY <1>4, <2>1, <2>2, <2>3 DEF Accounts
<1>9. LocalOK(t)
  BY <1>1, <1>4, <1>7, <1>8 DEF LocalOK, Validated, PageScanned
<1> QED BY <1>1, <1>3, <1>5, <1>6, <1>9, LocalStep

\* Warnings are there exactly when something is lost.
LEMMA WarningsSay ==
  ASSUME NEW s \in Scan, LocalOK(s), s.phase = "assets"
  PROVE  WarningsFromAssets(s) = {} <=> s.lost = {}
<1>1. /\ s.failed \in Nat /\ s.unauthorized = 0 /\ s.capped \in BOOLEAN
      /\ s.lost = {} <=> s.failed = 0 /\ ~s.capped
  BY DEF LocalOK, LossesCounted, Scan
<1>2. ASSUME s.failed # 0 PROVE WarningsFromAssets(s) # {}
  <2>1. "failed" \in WarningsFromAssets(s)
    BY <1>1, <1>2 DEF WarningsFromAssets, WarningKind
  <2> QED BY <2>1
<1>3. ASSUME s.capped PROVE WarningsFromAssets(s) # {}
  <2>1. "capped" \in WarningsFromAssets(s)
    BY <1>3 DEF WarningsFromAssets, WarningKind
  <2> QED BY <2>1
<1>4. ASSUME s.failed = 0, ~s.capped PROVE WarningsFromAssets(s) = {}
  BY <1>1, <1>4 DEF WarningsFromAssets
<1> QED BY <1>1, <1>2, <1>3, <1>4

\* When nothing waits, what the documents refer to is in the output, lost, or
\* beyond the budget.
LEMMA RefsAccounted ==
  ASSUME NEW s \in Scan, Accounts(s, {}), s.todo = {}, NEW o,
         o.from = Range(s.found), o.lost = s.lost, o.skipped = s.skipped
  PROVE  AccountsForRefs(o)
<1>1. ASSUME NEW a \in s.seen PROVE IsIn(a, o) \/ a \in o.lost \/ a \in o.skipped
  BY DEF Accounts, IsIn
<1>2. ASSUME NEW b \in o.from, NEW a \in Refs[b]
      PROVE  IsIn(a, o) \/ a \in o.lost \/ a \in o.skipped
  <2>1. a \in s.seen \/ a \in s.lost
    BY DEF Accounts
  <2> QED BY <1>1, <2>1
<1>3. o.skipped \subseteq LowSignal
  BY DEF Accounts, Budget
<1>4. ASSUME o.skipped # {}
      PROVE  MaxLowSignal <= Cardinality({a \in LowSignal \ o.skipped : IsIn(a, o) \/ a \in o.lost})
  <2> DEFINE low == (s.seen \cap LowSignal) \ s.skipped
             read == {a \in LowSignal \ o.skipped : IsIn(a, o) \/ a \in o.lost}
  <2>1. MaxLowSignal = Cardinality(low)
    BY <1>4 DEF Accounts, Budget
  <2>2. low \subseteq read
    BY <1>1
  <2>3. IsFiniteSet(read)
    <3>1. IsFiniteSet(Asset) /\ read \in SUBSET Asset
      BY SiteAssumption
    <3> HIDE DEF read
    <3> QED BY <3>1, FS_Subset
  <2>4. Cardinality(low) <= Cardinality(read)
    <3> HIDE DEF low, read
    <3> QED BY <2>2, <2>3, FS_Subset
  <2> QED BY <2>1, <2>4
<1> QED BY <1>2, <1>3, <1>4 DEF AccountsForRefs

LEMMA OutputHonest ==
  ASSUME NEW s \in Scan, LocalOK(s), s.phase = "assets", s.todo = {}
  PROVE  Honest(OutputOf(s)) /\ OutputOf(s).cache = "Miss"
<1>1. PICK o : o = OutputOf(s)
  OBVIOUS
<1>2. /\ o = [apis |-> o.apis, revision |-> o.revision, warnings |-> o.warnings,
              cache |-> o.cache, age |-> o.age, from |-> o.from, lost |-> o.lost,
              skipped |-> o.skipped]
      /\ o.revision = RevisionOf[s.page] /\ o.warnings = WarningsFromAssets(s)
      /\ o.cache = "Miss" /\ o.age = None /\ o.from = Range(s.found) /\ o.lost = s.lost
      /\ o.skipped = s.skipped
      /\ o.apis = CollectApis(Finish(EvidenceOf(s.found)))
  BY <1>1 DEF OutputOf
<1>3. s.page \in PageBody \cap Range(s.found)
  BY DEF LocalOK, PageScanned
<1>4. o.revision \in Revision /\ o.warnings \in SUBSET WarningKind /\ o.cache \in Status
  BY <1>2, <1>3 DEF Revision, WarningsFromAssets, Status
<1>5. /\ o.from \in SUBSET Body /\ o.lost \in SUBSET Asset /\ o.skipped \in SUBSET Asset
      /\ o.age \in (0..StaleLimit) \cup {None}
  <2>1. s.found \in Seq(Body) /\ s.lost \in SUBSET Asset /\ s.skipped \in SUBSET Asset
    BY DEF Scan
  <2>2. Range(s.found) \subseteq Body
    BY <2>1 DEF Range
  <2> QED BY <1>2, <2>1, <2>2
<1>6. o \in [apis : {o.apis}, revision : Revision, warnings : SUBSET WarningKind,
              cache : Status, age : (0..StaleLimit) \cup {None},
              from : SUBSET Body, lost : SUBSET Asset, skipped : SUBSET Asset]
  BY <1>2, <1>4, <1>5
<1>7. o.warnings = {} <=> o.lost = {}
  BY <1>2, WarningsSay
<1>8. \E b \in PageBody \cap o.from : o.revision = RevisionOf[b]
  BY <1>2, <1>3
<1>9. o.apis \in Maps /\ o.apis = ApisOf(Finished(EvidenceIn(o.from)))
  <2>1. PICK ev : ev = EvidenceOf(s.found)
    OBVIOUS
  <2>2. s.found \in Seq(Body)
    BY DEF Scan
  <2>3. ev \in Seq(Ev) /\ Range(ev) = EvidenceIn(Range(s.found))
    BY <2>1, <2>2, EvidenceOfIs
  <2>4. CollectApis(Finish(ev)) \in Maps /\ CollectApis(Finish(ev)) = ApisOf(Finished(Range(ev)))
    BY <2>3, ApisAre
  <2> QED BY <1>2, <2>1, <2>3, <2>4
<1>10. AccountsForRefs(o)
  BY <1>2, RefsAccounted DEF LocalOK
<1>11. Honest(o)
  BY <1>6, <1>7, <1>8, <1>9, <1>10 DEF Honest
<1> QED BY <1>1, <1>2, <1>11

LEMMA AssembleStep ==
  ASSUME IInv, NEW p \in Proc, Assemble(p)
  PROVE  IInv'
<1>1. scan[p] \in Scan /\ LocalOK(scan[p]) /\ scan[p].phase = "assets" /\ scan[p].todo = {}
  BY DEF IInv, Scans, Assemble, In
<1>2. PICK o : o = OutputOf(scan[p])
  OBVIOUS
<1>3. Honest(o) /\ o.cache = "Miss"
  BY <1>1, <1>2, OutputHonest
<1>4. OutOK(o, [phase |-> "done", page |-> scan[p].page])
  BY <1>3 DEF OutOK
<1>5. Scans' /\ Outs'
  BY <1>2, <1>4, ReturnStep DEF Assemble
<1>6. PICK m : m = Marked(o, "Stored", None)
  OBVIOUS
<1>7. Honest(m)
  BY <1>3, <1>6, MarkedHonest DEF Status
<1>8. job' = job \/ job' = [job EXCEPT ![p] = m]
  BY <1>2, <1>6 DEF Assemble
<1>9. Jobs'
  <2>1. job = [q \in Proc |-> job[q]] /\ \A q \in Proc : job[q] # None => Honest(job[q])
    BY DEF IInv, Jobs
  <2>2. job' = [q \in Proc |-> job'[q]] /\ \A q \in Proc : job'[q] = job[q] \/ job'[q] = m
    BY <1>8, <2>1
  <2>3. ASSUME NEW q \in Proc, job'[q] # None PROVE Honest(job'[q])
    <3>1. CASE job'[q] = m
      BY <1>7, <3>1
    <3>2. CASE job'[q] = job[q]
      <4>1. Honest(job[q])
        BY <2>1, <2>3, <3>2
      <4> QED BY <3>2, <4>1
    <3> QED BY <2>2, <3>1, <3>2
  <2> QED BY <2>2, <2>3 DEF Jobs
<1>10. Disk' /\ build' \in Build
  BY DEF Assemble, IInv, Disk
<1> QED BY <1>5, <1>9, <1>10 DEF IInv

-----------------------------------------------------------------------------
(* The process, the disk, the site and time                                *)

LEMMA WriteStep ==
  ASSUME IInv, NEW p \in Proc, Write(p)
  PROVE  IInv'
<1>1. /\ job[p] # None /\ job' = [job EXCEPT ![p] = None]
      /\ \E o \in {job[p], None} : disk' = [output |-> o, age |-> 0]
      /\ UNCHANGED <<build, scan, out>>
  BY DEF Write
<1>2. job = [q \in Proc |-> job[q]] /\ \A q \in Proc : job[q] # None => Honest(job[q])
  BY DEF IInv, Jobs
<1>3. /\ job' = [q \in Proc |-> job'[q]]
      /\ \A q \in Proc : job'[q] # None => job'[q] = job[q]
  BY <1>1, <1>2
<1>4. Jobs'
  <2>1. ASSUME NEW q \in Proc, job'[q] # None PROVE Honest(job'[q])
    <3>1. job'[q] = job[q] /\ Honest(job[q])
      BY <1>2, <1>3, <2>1
    <3> QED BY <3>1
  <2> QED BY <1>3, <2>1 DEF Jobs
<1>5. PICK o \in {job[p], None} : disk' = [output |-> o, age |-> 0]
  BY <1>1
<1>6. /\ disk' = [output |-> disk'.output, age |-> disk'.age]
      /\ disk'.age = 0 /\ disk'.output = o
  BY <1>5
<1>7. o # None => Honest(o)
  BY <1>1, <1>2, <1>5
<1>8. 0 \in 0..StaleLimit
  BY SiteAssumption
<1>9. Disk'
  <2>1. ASSUME disk'.output # None PROVE Honest(disk'.output)
    BY <1>6, <1>7, <2>1
  <2> QED BY <1>6, <1>8, <2>1 DEF Disk
<1> QED BY <1>1, <1>4, <1>9 DEF IInv, Scans, Outs

LEMMA ExitStep ==
  ASSUME IInv, NEW p \in Proc, Exit(p)
  PROVE  IInv'
<1>1. /\ scan' = [scan EXCEPT ![p] = Idle]
      /\ out' = [out EXCEPT ![p] = None] /\ job' = [job EXCEPT ![p] = None]
      /\ UNCHANGED <<build, disk>>
  BY DEF Exit
<1>2. Scans' /\ scan'[p] = Idle /\ \A q \in Proc \ {p} : scan'[q] = scan[q]
  BY <1>1, IdleOK, ScansUpdate DEF IInv
<1>3. out = [q \in Proc |-> out[q]] /\ job = [q \in Proc |-> job[q]]
  BY DEF IInv, Outs, Jobs
<1>4. /\ out' = [q \in Proc |-> out'[q]] /\ job' = [q \in Proc |-> job'[q]]
      /\ out'[p] = None /\ job'[p] = None
      /\ \A q \in Proc \ {p} : out'[q] = out[q] /\ job'[q] = job[q]
  BY <1>1, <1>3
<1>5. ASSUME NEW q \in Proc
      PROVE  OutOK(out'[q], scan'[q]) /\ (job'[q] # None => Honest(job'[q]))
  <2>1. CASE q = p
    BY <1>4, <2>1 DEF OutOK
  <2>2. CASE q # p
    <3>1. /\ OutOK(out[q], scan[q]) /\ (job[q] # None => Honest(job[q]))
          /\ scan'[q] = scan[q] /\ out'[q] = out[q] /\ job'[q] = job[q]
      BY <1>2, <1>4, <2>2 DEF IInv, Outs, Jobs
    <3> QED BY <3>1
  <2> QED BY <2>1, <2>2
<1>6. Outs' /\ Jobs'
  BY <1>4, <1>5 DEF Outs, Jobs
<1>7. Disk' /\ build' \in Build
  BY <1>1 DEF IInv, Disk
<1> QED BY <1>2, <1>6, <1>7 DEF IInv

LEMMA TickStep ==
  ASSUME IInv, Tick
  PROVE  IInv'
<1>1. /\ disk # None /\ disk.age < StaleLimit
      /\ disk' = [disk EXCEPT !.age = @ + 1]
      /\ UNCHANGED <<build, scan, out, job>>
  BY DEF Tick
<1>2. /\ disk = [output |-> disk.output, age |-> disk.age] /\ disk.age \in 0..StaleLimit
      /\ disk.output # None => Honest(disk.output)
  BY <1>1 DEF IInv, Disk
<1>3. disk.age + 1 \in 0..StaleLimit
  BY <1>1, <1>2, SiteAssumption
<1>4. /\ disk' = [output |-> disk'.output, age |-> disk'.age]
      /\ disk'.age = disk.age + 1 /\ disk'.output = disk.output
  BY <1>1, <1>2
<1>5. Disk'
  <2>1. ASSUME disk'.output # None PROVE Honest(disk'.output)
    BY <1>2, <1>4, <2>1
  <2> QED BY <1>3, <1>4, <2>1 DEF Disk
<1> QED BY <1>1, <1>5 DEF IInv, Scans, Outs, Jobs

LEMMA DeployStep ==
  ASSUME IInv, Deploy \/ UNCHANGED vars
  PROVE  IInv'
BY DEF Deploy, vars, IInv, Scans, Outs, Jobs, Disk

-----------------------------------------------------------------------------
(* The theorems                                                            *)

LEMMA InitInv == SiteInit => IInv
<1> SUFFICES ASSUME SiteInit PROVE IInv
  OBVIOUS
<1>1. Scans
  BY IdleOK DEF SiteInit, Scans
<1>2. Outs /\ Jobs
  BY DEF SiteInit, Outs, OutOK, Jobs
<1>3. Disk /\ build \in Build
  BY DEF SiteInit, Disk
<1> QED BY <1>1, <1>2, <1>3 DEF IInv

LEMMA NextInv == IInv /\ [SiteNext]_vars => IInv'
<1> SUFFICES ASSUME IInv, [SiteNext]_vars PROVE IInv'
  OBVIOUS
<1>1. ASSUME NEW p \in Proc, FetchRoot(p) PROVE IInv'
  BY <1>1, ValidateStep, RedirectedStep, RootFailsStep, RootScannedStep DEF FetchRoot
<1>2. ASSUME NEW p \in Proc, ReadCache(p) PROVE IInv'
  BY <1>2, StatFreshStep, ReadFreshStep, StatStaleStep, ReadStaleStep DEF ReadCache
<1>3. ASSUME NEW p \in Proc, ScanAssets(p) PROVE IInv'
  BY <1>3, StartAssetsStep, AssetScannedStep, AssetFailsStep DEF ScanAssets
<1>4. ASSUME NEW p \in Proc, Begin(p) \/ Assemble(p) \/ Write(p) \/ Exit(p) PROVE IInv'
  BY <1>4, BeginStep, AssembleStep, WriteStep, ExitStep
<1>5. ASSUME Deploy \/ Tick \/ UNCHANGED vars PROVE IInv'
  BY <1>5, DeployStep, TickStep
<1> QED BY <1>1, <1>2, <1>3, <1>4, <1>5 DEF SiteNext, Step

\* Whatever the processes that share a site's cache do, and whenever it is
\* deployed: scan_site's local variables and its outputs stay as IInv says.
THEOREM SiteInvariant == SiteSpec => []IInv
BY InitInv, NextInv, PTL DEF SiteSpec

\* net::fetch requests no URL that has not passed validate_request_url in the
\* same turn of its loop, and makes at most MAX_REDIRECTS requests.
THEOREM SiteHopsAreValidated == SiteSpec => []HopsAreValidated
<1>1. IInv => HopsAreValidated
  BY DEF IInv, Scans, LocalOK, Validated, Permits, Permitted, In, HopsAreValidated
<1> QED BY <1>1, SiteInvariant, PTL

\* What scan_site returns is of the revision it claims and warns exactly when a
\* reference could not be read or taken, also when another process made it,
\* another stored it and the site has changed since; and all else that its
\* documents refer to is in it, but for libraries beyond a budget that is spent.
THEOREM SiteOutputIsHonest == SiteSpec => []OutputIsHonest
<1>1. IInv => OutputIsHonest
  <2> SUFFICES ASSUME IInv, NEW p \in Proc, out[p] # None
               PROVE  /\ out[p].cache = "RevisionHit" =>
                           RevisionOf[scan[p].page] # None /\ out[p].revision = RevisionOf[scan[p].page]
                      /\ out[p].cache = "Fresh" => out[p].age < FreshLimit
                      /\ \E b \in PageBody \cap out[p].from : out[p].revision = RevisionOf[b]
                      /\ out[p].warnings = {} <=> out[p].lost = {}
                      /\ AccountsForRefs(out[p])
    BY DEF OutputIsHonest
  <2>1. OutOK(out[p], scan[p])
    BY DEF IInv, Outs
  <2> QED BY <2>1 DEF OutOK, Honest
<1> QED BY <1>1, SiteInvariant, PTL

\* An output is well-formed, an API of it a shape.
LEMMA HonestIsOutput ==
  ASSUME NEW o, Honest(o)
  PROVE  IsOutput(o)
<1>1. /\ o \in [apis : {o.apis}, revision : Revision, warnings : SUBSET WarningKind,
                 cache : Status, age : (0..StaleLimit) \cup {None},
                 from : SUBSET Body, lost : SUBSET Asset, skipped : SUBSET Asset]
      /\ o.apis \in Maps
  BY DEF Honest
<1>2. PICK P \in SUBSET Path : o.apis \in [P -> Sorted]
  BY <1>1 DEF Maps
<1>3. Sorted \subseteq Shape
  BY DEF Sorted, Shape, KeySeq
<1>4. DOMAIN o.apis \subseteq Path /\ \A path \in DOMAIN o.apis : o.apis[path] \in Shape
  BY <1>2, <1>3
<1> QED BY <1>1, <1>4 DEF IsOutput

\* The variables of ScanSite, the outputs and the file have the values that the
\* types of scan_site's variables and of Output allow.
THEOREM SiteTypes == SiteSpec => []SiteTypeOK
<1>1. IInv => SiteTypeOK
  <2> SUFFICES ASSUME IInv PROVE SiteTypeOK
    OBVIOUS
  <2>1. build \in Build /\ scan \in [Proc -> Scan]
    BY DEF IInv, Scans
  <2>2. disk # None => disk = [output |-> disk.output, age |-> disk.age] /\ disk.age \in 0..StaleLimit
    BY DEF IInv, Disk
  <2>3. DOMAIN out = Proc /\ DOMAIN job = Proc
    BY DEF IInv, Outs, Jobs
  <2>4. ASSUME NEW p \in Proc
        PROVE  (out[p] # None => Honest(out[p])) /\ (job[p] # None => Honest(job[p]))
    BY DEF IInv, Outs, OutOK, Jobs
  <2>5. Decoded # None => Honest(Decoded)
    BY DecodedHonest
  <2>6. ASSUME NEW o \in {out[p] : p \in Proc} \cup {job[p] : p \in Proc} \cup {Decoded},
               o # None
        PROVE  IsOutput(o)
    <3>1. Honest(o)
      BY <2>4, <2>5, <2>6
    <3> QED BY <3>1, HonestIsOutput
  <2> QED BY <2>1, <2>2, <2>3, <2>6 DEF SiteTypeOK
<1> QED BY <1>1, SiteInvariant, PTL

\* Assets finish in any order: what FindingsBuilder makes of their evidence and
\* what collect_apis makes of that depends on the set of documents alone, in the
\* output of this scan and in one that comes from the file.
THEOREM SiteSameInAnyOrder == SiteSpec => []SameInAnyOrder
<1>1. IInv => SameInAnyOrder
  <2> SUFFICES ASSUME IInv, NEW p \in Proc
               PROVE  /\ Range(Finish(EvidenceOf(scan[p].found)))
                           = Finished(EvidenceIn(Range(scan[p].found)))
                      /\ out[p] # None => out[p].apis = ApisOf(Finished(EvidenceIn(out[p].from)))
    BY DEF SameInAnyOrder
  <2>1. PICK ev : ev = EvidenceOf(scan[p].found)
    OBVIOUS
  <2>2. scan[p].found \in Seq(Body)
    BY DEF IInv, Scans, Scan
  <2>3. ev \in Seq(Ev) /\ Range(ev) = EvidenceIn(Range(scan[p].found))
    BY <2>1, <2>2, EvidenceOfIs
  <2>4. Range(Finish(ev)) = Finished(Range(ev))
    BY <2>3, FinishIs
  <2>5. out[p] # None => Honest(out[p])
    BY DEF IInv, Outs, OutOK
  <2> QED BY <2>1, <2>3, <2>4, <2>5 DEF Honest
<1> QED BY <1>1, SiteInvariant, PTL
=============================================================================
