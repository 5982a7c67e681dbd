-------------------------------- MODULE Codec -------------------------------
(***************************************************************************)
(* The files of the cache: src/src/runtime/codec, the layouts of assets,   *)
(* chunks and findings in src/src/runtime/cache/mod.rs and of outputs in   *)
(* src/src/runtime/processor.rs. There is no schema in the code: what one  *)
(* function puts, another must read in the same order. A layout is such an *)
(* order: the one of the functions that put, beside that of those that     *)
(* read.                                                                   *)
(*                                                                         *)
(* A file is a sequence of bytes. An integer of four bytes is one of them: *)
(* a file that ends within it is one that ends before it.                  *)
(***************************************************************************)
EXTENDS Integers, SequencesExt, FiniteSetsExt

CONSTANTS None, Char   \* Char: bytes that are text, among the others

Byte8 == 0..255

-----------------------------------------------------------------------------
(* wire.rs                                                                 *)

\* Layouts: a byte that is one of some, a boolean that any other byte than 0
\* makes true, text, something or nothing, a list, and a record of fields.
ByteOf(n) == [t |-> "byte", below |-> n]
Loose == [t |-> "loose"]
Text == [t |-> "string"]
Opt(layout) == [t |-> "opt", of |-> layout]
Vec(layout) == [t |-> "vec", of |-> layout]
Fields(layouts) == [t |-> "fields", of |-> layouts]

RECURSIVE Put(_, _)
Put(layout, v) ==
  CASE layout.t \in {"byte", "loose"} -> <<v>>
    [] layout.t = "string" -> <<Len(v)>> \o v
    [] layout.t = "opt" -> IF v = None THEN <<0>> ELSE <<1>> \o Put(layout.of, v)
    [] layout.t = "vec" -> <<Len(v)>> \o FlattenSeq([i \in DOMAIN v |-> Put(layout.of, v[i])])
    [] layout.t = "fields" -> FlattenSeq([i \in DOMAIN v |-> Put(layout.of[i], v[i])])

Failed == [ok |-> FALSE, value |-> None, rest |-> <<>>]
Got(value, rest) == [ok |-> TRUE, value |-> value, rest |-> rest]

Rest(bytes, n) == SubSeq(bytes, n + 1, Len(bytes))

GetString(bytes) ==
  IF bytes = <<>> \/ Head(bytes) >= Len(bytes) THEN Failed
  ELSE LET text == SubSeq(bytes, 2, Head(bytes) + 1)
       IN  IF Range(text) \subseteq Char THEN Got(text, Rest(bytes, Head(bytes) + 1)) ELSE Failed

\* Reads what the layout says from the beginning of bytes.
RECURSIVE Get(_, _)
Get(layout, bytes) ==
  LET Next(got, l) ==
        IF ~got.ok THEN Failed
        ELSE LET g == Get(l, got.rest)
             IN  IF g.ok THEN Got(Append(got.value, g.value), g.rest) ELSE Failed
  IN  CASE layout.t = "string" -> GetString(bytes)
        [] layout.t = "fields" -> FoldLeft(Next, Got(<<>>, bytes), layout.of)
        [] layout.t \in {"byte", "loose", "opt", "vec"} /\ bytes = <<>> -> Failed
        [] layout.t = "byte" /\ bytes # <<>> ->
             IF Head(bytes) < layout.below THEN Got(Head(bytes), Tail(bytes)) ELSE Failed
        [] layout.t = "loose" /\ bytes # <<>> ->
             Got(IF Head(bytes) = 0 THEN 0 ELSE 1, Tail(bytes))
        [] layout.t = "opt" /\ bytes # <<>> ->
             CASE Head(bytes) = 0 -> Got(None, Tail(bytes))
               [] Head(bytes) = 1 -> Get(layout.of, Tail(bytes))
               [] OTHER -> Failed
        [] layout.t = "vec" /\ bytes # <<>> ->
             FoldLeft(Next, Got(<<>>, Tail(bytes)), [i \in 1..Head(bytes) |-> layout.of])

EncodeFrame(magic, layout, v) == magic \o Put(layout, v)

\* Mutant: what follows is not looked at.
DecodeFrame_Open(magic, layout, bytes) ==
  LET got == Get(layout, Rest(bytes, Len(magic)))
  IN  IF IsPrefix(magic, bytes) /\ got.ok THEN got.value ELSE None

\* Everything must have been read.
DecodeFrame(magic, layout, bytes) ==
  LET got == Get(layout, Rest(bytes, Len(magic)))
  IN  IF IsPrefix(magic, bytes) /\ got.ok /\ got.rest = <<>> THEN got.value ELSE None

-----------------------------------------------------------------------------
(* What is put, and what is read: two layouts for everything               *)

U8 == ByteOf(256)
Bool == ByteOf(2)

\* methods, body, headers, content types, auth, server action, query keys.
PutShape == Fields(<<U8, U8, U8, U8, U8, U8, Vec(Text)>>)
ReadShape == Fields(<<U8, Bool, Bool, U8, Bool, Bool, Vec(Text)>>)

\* url, kind, channel, framework with 0 for none, shape.
PutEvidenceVec == Vec(Fields(<<Text, U8, U8, U8, Opt(PutShape)>>))
ReadEvidenceVec == Vec(Fields(<<Text, ByteOf(3), ByteOf(7), ByteOf(7), Opt(ReadShape)>>))

\* Six frameworks that are active or not, the primary one, what Next.js says of
\* itself (build, prefix, base path, locales, the default one, the one of the
\* page, the page), SvelteKit's root.
PutSite ==
  LET Next == Fields(<<Opt(Text), Opt(Text), Opt(Text), Vec(Text), Opt(Text), Opt(Text), Opt(Text)>>)
  IN  Fields([i \in 1..6 |-> U8] \o <<U8, Opt(Next), Opt(Text)>>)

ReadSite ==
  LET Next == Fields(<<Opt(Text), Opt(Text), Opt(Text), Vec(Text), Opt(Text), Opt(Text), Opt(Text)>>)
  IN  Fields([i \in 1..6 |-> Loose] \o <<ByteOf(6), Opt(Next), Opt(Text)>>)

\* Evidence, revision, site, and url, kind and source of every asset. That the
\* url is one again is Url's.
PutDocumentScan == <<PutEvidenceVec, Opt(Text), PutSite, Vec(Fields(<<Text, U8, U8>>))>>

ReadDocumentScan ==
  <<ReadEvidenceVec, Opt(Text), ReadSite, Vec(Fields(<<Text, ByteOf(3), ByteOf(7)>>))>>

\* etag and last-modified, for a chunk the hash of its content, the scan.
EncodeCachedScan(contentHash) == Fields(<<Opt(Text), Opt(Text)>> \o contentHash \o PutDocumentScan)
DecodeCachedScan(contentHash) == Fields(<<Opt(Text), Opt(Text)>> \o contentHash \o ReadDocumentScan)

\* Revision, framework, APIs, warnings.
EncodeOutput == Fields(<<Opt(Text), Opt(Text), Vec(Fields(<<Text, PutShape>>)), Vec(Text)>>)
DecodeOutput == Fields(<<Opt(Text), Opt(Text), Vec(Fields(<<Text, ReadShape>>)), Vec(Text)>>)

HIFI3 == <<3, 0>>
HIFI4 == <<4, 0>>

\* The kinds of files, with what they begin with.
FileKind ==
  {[magic |-> HIFI3, put |-> EncodeCachedScan(<<>>), read |-> DecodeCachedScan(<<>>)],
   [magic |-> HIFI3, put |-> EncodeCachedScan(<<Text>>), read |-> DecodeCachedScan(<<Text>>)],
   [magic |-> HIFI3, put |-> PutEvidenceVec, read |-> ReadEvidenceVec],
   [magic |-> HIFI4, put |-> EncodeOutput, read |-> DecodeOutput]}

FileOf(kind, v) == EncodeFrame(kind.magic, kind.put, v)
ReadFile(kind, bytes) == DecodeFrame(kind.magic, kind.read, bytes)

-----------------------------------------------------------------------------
(* Values to write: a full one, and every one that differs from it in one  *)
(* place                                                                   *)

RECURSIVE Full(_)
Full(layout) ==
  CASE layout.t = "byte" -> layout.below - 1
    [] layout.t = "loose" -> 1
    [] layout.t = "string" -> <<Max(Char), Max(Char)>>
    [] layout.t = "opt" -> Full(layout.of)
    [] layout.t = "vec" -> <<Full(layout.of)>>
    [] layout.t = "fields" -> [i \in DOMAIN layout.of |-> Full(layout.of[i])]

RECURSIVE Variants(_)
Variants(layout) ==
  CASE layout.t = "byte" -> {0, layout.below - 1}
    [] layout.t = "loose" -> {0, 1}
    [] layout.t = "string" -> {<<>>, <<Min(Char)>>, Full(layout)}
    [] layout.t = "opt" -> {None} \cup Variants(layout.of)
    [] layout.t = "vec" -> {<<>>, <<Full(layout.of), Full(layout.of)>>}
                             \cup {<<v>> : v \in Variants(layout.of)}
    [] layout.t = "fields" ->
         {[Full(layout) EXCEPT ![x[1]] = x[2]] :
            x \in UNION {{i} \X Variants(layout.of[i]) : i \in DOMAIN layout.of}}
=============================================================================
