------------------------------ MODULE Findings ------------------------------
(***************************************************************************)
(* What is found in documents, and how it becomes the APIs of an output:   *)
(* src/src/scan/findings.rs, the merging of src/src/scan/shape.rs, the     *)
(* normal forms of URLs in src/src/scan/classify.rs, and collect_apis of   *)
(* src/src/runtime/processor.rs. Evidence comes in the order in which      *)
(* assets finish.                                                          *)
(*                                                                         *)
(* A URL that is found is a record: its path, whether it ends in a slash,  *)
(* whether its last segment is spelled {dynamic} rather than :id, and the  *)
(* keys of its query in the order they are written.                        *)
(***************************************************************************)
EXTENDS Naturals, SequencesExt

CONSTANTS
  Path,     \* paths without trailing slash
  Key,      \* keys of queries: numbers, for their order
  Flag      \* methods, content types, body, headers, auth, server action

ASSUME FindingsAssumption == Key \subseteq Nat

Kind == {"api", "route", "candidate"}

FoundUrl == [path : Path, slash : BOOLEAN, dynamic : BOOLEAN, query : Seq(Key)]

Shape == [flags : SUBSET Flag, keys : Seq(Key)]

\* Routes and candidates have no shape.
NoShape == [flags |-> {}, keys |-> <<>>]

Evidence == [url : FoundUrl, kind : Kind, from : STRING, shape : Shape]

Increasing(s) == \A i, j \in DOMAIN s : i < j => s[i] < s[j]

\* What is handed over to be recorded: keys come to a shape one by one, sorted.
Hit == {e \in Evidence : Increasing(e.shape.keys)}

-----------------------------------------------------------------------------
(* Shapes                                                                  *)

\* A key that is new goes behind the lesser ones, where sorting puts it.
PushUniqueSorted(dst, key) ==
  IF Contains(dst, key) THEN dst
  ELSE InsertAt(dst, Max({0} \cup {i \in DOMAIN dst : dst[i] < key}) + 1, key)

AddKeys(dst, keys) == FoldLeft(PushUniqueSorted, dst, keys)

Merge(a, b) == [flags |-> a.flags \cup b.flags, keys |-> AddKeys(a.keys, b.keys)]

ApplyQueryParams(shape, url) == [shape EXCEPT !.keys = AddKeys(@, url.query)]

-----------------------------------------------------------------------------
(* FindingsBuilder: a hit of a scanner is recorded as evidence             *)

\* classify::normalize_api_url: the query goes when it has keys.
NormalizeApiUrl(url) == [url EXCEPT !.query = <<>>]

Record(hit) ==
  CASE hit.kind = "api" ->
         [hit EXCEPT !.url = NormalizeApiUrl(@), !.shape = ApplyQueryParams(@, hit.url)]
    [] hit.kind = "candidate" -> [hit EXCEPT !.url = NormalizeApiUrl(@)]
    [] hit.kind = "route" -> hit

RecordAll(hits) == [i \in DOMAIN hits |-> Record(hits[i])]

-----------------------------------------------------------------------------
(* FindingsBuilder::finish                                                 *)

CanonicalizeRoute(url) == [url EXCEPT !.slash = FALSE, !.query = <<>>]

CanonicalizeRoutes(evidence) ==
  [i \in DOMAIN evidence |->
     IF evidence[i].kind = "route"
     THEN [evidence[i] EXCEPT !.url = CanonicalizeRoute(@)] ELSE evidence[i]]

\* The URLs that evidence of a kind is about: api_map, candidate_map.
UrlsOfKind(evidence, kind) == {e.url : e \in {f \in Range(evidence) : f.kind = kind}}

Stays(evidence, e) ==
  LET apis == UrlsOfKind(evidence, "api")
      candidates == UrlsOfKind(evidence, "candidate")
  IN  CASE e.kind = "api" -> TRUE
        [] e.kind = "candidate" -> e.url \notin apis
        [] e.kind = "route" -> e.url \notin apis \cup candidates

DropDemoted(evidence) ==
  FoldLeft(LAMBDA kept, e : IF Stays(evidence, e) THEN Append(kept, e) ELSE kept, <<>>, evidence)

Same(e, f) == e.url = f.url /\ e.kind = f.kind /\ e.from = f.from

CompactOne(compacted, e) ==
  LET index == SelectInSeq(compacted, LAMBDA f : Same(e, f))
  IN  IF index = 0 THEN Append(compacted, e)
      ELSE [compacted EXCEPT ![index].shape = Merge(@, e.shape)]

Compact(evidence) == FoldLeft(CompactOne, <<>>, evidence)

\* Mutant: routes are compared with APIs before they are canonical.
Finish_DropFirst(evidence) == Compact(CanonicalizeRoutes(DropDemoted(evidence)))

Finish(evidence) == Compact(DropDemoted(CanonicalizeRoutes(evidence)))

-----------------------------------------------------------------------------
(* collect_apis: path -> shape                                             *)

\* prettify_path(normalize_path(url))
PrettyPath(url) == url.path

CollectOne(merged, e) ==
  LET path == PrettyPath(e.url)
  IN  IF e.kind # "api" THEN merged
      ELSE IF path \in DOMAIN merged THEN [merged EXCEPT ![path] = Merge(@, e.shape)]
      ELSE [p \in DOMAIN merged \cup {path} |-> IF p = path THEN e.shape ELSE merged[p]]

CollectApis(evidence) == FoldLeft(CollectOne, << >>, evidence)

-----------------------------------------------------------------------------
(* The reference: what a set of evidence amounts to, without an order      *)

Canonical(e) == IF e.kind = "route" THEN [e EXCEPT !.url = CanonicalizeRoute(@)] ELSE e

SortedKeys(K) == CHOOSE s \in [1..Cardinality(K) -> K] : Range(s) = K /\ Increasing(s)

\* All shapes of a set of evidence in one.
Union(S) ==
  [flags |-> UNION {e.shape.flags : e \in S},
   keys |-> SortedKeys(UNION {Range(e.shape.keys) : e \in S})]

\* One piece of evidence for each URL, kind and origin; an API takes the place
\* of candidates and routes for its URL, a candidate that of routes.
Finished(S) ==
  LET all == {Canonical(e) : e \in S}
      Outranks(f, e) == \/ f.kind = "api" /\ e.kind # "api"
                        \/ f.kind = "candidate" /\ e.kind = "route"
      Outranked(e) == \E f \in all : f.url = e.url /\ Outranks(f, e)
      kept == {e \in all : ~Outranked(e)}
  IN  {[e EXCEPT !.shape = Union({f \in kept : Same(e, f)})] : e \in kept}

ApisOf(S) ==
  LET apis == {e \in S : e.kind = "api"}
  IN  [p \in {PrettyPath(e.url) : e \in apis} |-> Union({e \in apis : PrettyPath(e.url) = p})]
=============================================================================
