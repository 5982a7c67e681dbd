-------------------------------- MODULE Grep --------------------------------
(***************************************************************************)
(* The text search of src/src/grep.rs: the hits in one file, the window of *)
(* bytes that is shown around each, and the merging of files with counts   *)
(* of what is not printed. Search is the loop that fetches the files.      *)
(*                                                                         *)
(* A file is any sequence of bytes, told apart by what the search looks    *)
(* at: the bytes of the pattern, line ends, and those that continue a      *)
(* character. Offsets are those of the code and begin at 0, and so do      *)
(* lines. bytes_not_displayed_estimate and the wording are left out.       *)
(***************************************************************************)
EXTENDS Integers, SequencesExt, FiniteSetsExt

CONSTANTS
  Byte,            \* the bytes that a search tells apart
  NL,              \* the one that ends a line
  Continuation,    \* those that continue a character
  Trail            \* the most of them that a character has

ASSUME ByteAssumption ==
  /\ NL \in Byte
  /\ Continuation \subseteq Byte \ {NL}
  /\ Trail \in Nat

Unlimited == -1        \* --all: max_hits is None

\* GrepOptions
Option == [context : Nat, maxBytes : Nat, maxHits : Nat \cup {Unlimited}]

At(bytes, i) == bytes[i + 1]

-----------------------------------------------------------------------------
(* snippet_window                                                          *)

Larger(a, b) == IF a > b THEN a ELSE b
Smaller(a, b) == IF a < b THEN a ELSE b

IsContinuation(bytes, i) == At(bytes, i) \in Continuation

\* The nearest boundary of a character, not below floor.
SnapDown(bytes, i, floor) ==
  IF i <= floor THEN i
  ELSE Max({k \in floor..i : k = floor \/ ~IsContinuation(bytes, k)})

\* The nearest one not above ceil.
SnapUp(bytes, i, ceil) ==
  IF i >= ceil THEN i
  ELSE Min({k \in i..ceil : k = ceil \/ ~IsContinuation(bytes, k)})

\* The window before its ends are snapped: budget that one side cannot use goes
\* to the other.
Unsnapped(lo, hi, abs, len, max) ==
  LET before == (max - len) \div 2
      after == max - len - before
      start == Larger(abs - before, lo)
      end == Smaller(abs + len + after, hi)
  IN  IF end - start >= max THEN <<start, end>>
      ELSE IF start = lo THEN <<start, Smaller(start + max, hi)>>
      ELSE IF end = hi THEN <<Larger(end - max, lo), end>>
      ELSE <<start, end>>

\* Mutant: the window is centered on the beginning of the match.
SnippetWindow_Begin(bytes, lo, hi, abs, len, max) ==
  IF hi - lo <= max THEN <<lo, hi>>
  ELSE IF len >= max THEN <<abs, SnapUp(bytes, abs + max, hi)>>
  ELSE LET w == <<Larger(abs - max \div 2, lo), Smaller(abs + max \div 2, hi)>>
       IN  <<SnapDown(bytes, w[1], lo), SnapUp(bytes, w[2], hi)>>

SnippetWindow(bytes, lo, hi, abs, len, max) ==
  IF hi - lo <= max THEN <<lo, hi>>
  ELSE IF len >= max THEN <<abs, SnapUp(bytes, abs + max, hi)>>
  ELSE LET w == Unsnapped(lo, hi, abs, len, max)
       IN  <<SnapDown(bytes, w[1], lo), SnapUp(bytes, w[2], hi)>>

-----------------------------------------------------------------------------
(* grep_bytes                                                              *)

Offsets(bytes) == [i \in 1..Len(bytes) |-> i - 1]

LineStarts(bytes) ==
  FoldLeft(LAMBDA starts, i : IF At(bytes, i) = NL THEN Append(starts, i + 1) ELSE starts,
           <<0>>, Offsets(bytes))

MatchesAt(bytes, pat, i) ==
  i + Len(pat) <= Len(bytes) /\ SubSeq(bytes, i + 1, i + Len(pat)) = pat

\* memmem::find_iter: from left to right, without overlaps.
FindIter(bytes, pat) ==
  LET Take(found, i) ==
        IF MatchesAt(bytes, pat, i) /\ (found = <<>> \/ Last(found) + Len(pat) <= i)
        THEN Append(found, i) ELSE found
  IN  FoldLeft(Take, <<>>, Offsets(bytes))

\* The hit at abs in the given line: the lines around it and its window.
HitInLine(file, bytes, pat, options, abs, starts, line) ==
  LET lo == starts[Larger(line - options.context, 1)]
      next == line + options.context + 1
      hi == IF next \in DOMAIN starts THEN starts[next] ELSE Len(bytes)
  IN  [file |-> file, line |-> line - 1, column |-> abs - starts[line], lo |-> lo, hi |-> hi,
       window |-> SnippetWindow(bytes, lo, hi, abs, Len(pat), options.maxBytes)]

HitAt(file, bytes, pat, options, abs, starts) ==
  HitInLine(file, bytes, pat, options, abs, starts, Max({k \in DOMAIN starts : starts[k] <= abs}))

Shortened(hit) == hit.window[1] > hit.lo \/ hit.window[2] < hit.hi

NoResult ==
  [hits |-> <<>>, filesFailed |-> 0, notPrinted |-> 0, filesNotPrinted |-> 0, shortened |-> 0]

Kept(found, options) ==
  IF options.maxHits = Unlimited THEN Len(found) ELSE Smaller(options.maxHits, Len(found))

ChunkOf(hits, omitted) ==
  [hits |-> hits, filesFailed |-> 0, notPrinted |-> omitted,
   filesNotPrinted |-> IF omitted > 0 THEN 1 ELSE 0,
   shortened |-> Cardinality({k \in DOMAIN hits : Shortened(hits[k])})]

HitsAt(file, bytes, pat, options, found, starts) ==
  ChunkOf([k \in 1..Kept(found, options) |-> HitAt(file, bytes, pat, options, found[k], starts)],
          Len(found) - Kept(found, options))

GrepBytes(file, bytes, pat, options) ==
  HitsAt(file, bytes, pat, options, FindIter(bytes, pat), LineStarts(bytes))

-----------------------------------------------------------------------------
(* grep_assets and run                                                     *)

\* Mutant: hits that a file has left out are not those of the result.
MergeChunk_Forgets(result, chunk, maxHits) ==
  LET room == IF maxHits = Unlimited THEN Len(chunk.hits)
              ELSE Larger(0, maxHits - Len(result.hits))
      omitted == Larger(0, Len(chunk.hits) - room)
  IN  [result EXCEPT !.hits = @ \o SubSeq(chunk.hits, 1, Smaller(room, Len(chunk.hits))),
                     !.filesFailed = @ + chunk.filesFailed,
                     !.notPrinted = @ + omitted,
                     !.shortened = @ + chunk.shortened]

\* A chunk's hits are cut where the result is full, and it is then a file with
\* hits not printed, unless it says of some itself.
MergeChunk(result, chunk, maxHits) ==
  LET room == IF maxHits = Unlimited THEN Len(chunk.hits)
              ELSE Larger(0, maxHits - Len(result.hits))
      omitted == Larger(0, Len(chunk.hits) - room)
  IN  [hits |-> result.hits \o SubSeq(chunk.hits, 1, Smaller(room, Len(chunk.hits))),
       filesFailed |-> result.filesFailed + chunk.filesFailed,
       notPrinted |-> result.notPrinted + chunk.notPrinted + omitted,
       filesNotPrinted |-> result.filesNotPrinted + chunk.filesNotPrinted
                             + (IF omitted > 0 /\ chunk.filesNotPrinted = 0 THEN 1 ELSE 0),
       shortened |-> result.shortened + chunk.shortened]

\* sort_by_key: file i goes behind those that are not later.
InsertByIndex(s, i) == InsertAt(s, Max({0} \cup {k \in DOMAIN s : s[k] <= i}) + 1, i)

Sorted(read) == FoldLeft(InsertByIndex, <<>>, read)

\* The assets that were read, in the order in which they were, and how many
\* others there are.
GrepAssets(assets, read, failures, pat, options) ==
  FoldLeft(LAMBDA result, i : MergeChunk(result, GrepBytes(i, assets[i], pat, options),
                                         options.maxHits),
           [NoResult EXCEPT !.filesFailed = failures], Sorted(read))

\* The page is file 0.
Run(page, assets, read, failures, pat, options) ==
  MergeChunk(GrepBytes(0, page, pat, options),
             GrepAssets(assets, read, failures, pat, options), options.maxHits)

-----------------------------------------------------------------------------
(* What a result is                                                        *)

\* UTF-8: every character begins with a byte of its own, and is not too long.
IsText(bytes) ==
  \A i \in DOMAIN bytes : bytes[i] \in Continuation =>
    \E k \in 1..Trail : /\ k < i
                        /\ bytes[i - k] \notin Continuation \cup {NL}
                        /\ \A j \in 1..k - 1 : bytes[i - j] \in Continuation

IsBoundary(bytes, i) == i = Len(bytes) \/ ~IsContinuation(bytes, i)

\* The line ends before an offset, and the offsets at which lines begin.
Breaks(bytes, i) == Cardinality({k \in 0..i - 1 : At(bytes, k) = NL})

BeginsLine(bytes, i) == i = 0 \/ (i \in 1..Len(bytes) /\ At(bytes, i - 1) = NL)

\* Where a match is and the lines that belong to it.
PlaceIsRight(bytes, options, abs, hit) ==
  /\ hit.line = Breaks(bytes, abs)
  /\ BeginsLine(bytes, abs - hit.column) /\ Breaks(bytes, abs - hit.column) = hit.line
  /\ BeginsLine(bytes, hit.lo) /\ Breaks(bytes, hit.lo) = Larger(hit.line - options.context, 0)
  /\ \/ BeginsLine(bytes, hit.hi) /\ Breaks(bytes, hit.hi) = hit.line + options.context + 1
     \/ hit.hi = Len(bytes) /\ Breaks(bytes, hit.hi) <= hit.line + options.context

\* What the window of a hit is, which is more than its comment says
\* (Search!SnippetsFit). It holds the match and lies in its lines, except that
\* of a match of max bytes or more it is the beginning, also where that goes on
\* behind the lines. One that is shortened has the max bytes that it may have;
\* its ends are then moved outwards, in a text to the whole characters that they
\* would cut, so that it has at most 2 * Trail bytes more.
WindowIsRight(bytes, pat, options, abs, hit) ==
  LET from == hit.window[1]
      to == hit.window[2]
      max == options.maxBytes
      long == Len(pat) >= max /\ hit.hi - hit.lo > max
  IN  /\ hit.lo <= from /\ from <= abs /\ from <= to /\ to <= Len(bytes)
      /\ ~Shortened(hit) => from = hit.lo /\ to = hit.hi
      /\ Shortened(hit) => to - from >= max
      /\ IF long THEN from = abs /\ (to > hit.hi => to = abs + max)
         ELSE Smaller(abs + Len(pat), hit.hi) <= to /\ to <= hit.hi
      /\ IsText(bytes) =>
           /\ IsBoundary(bytes, from)
           /\ IsBoundary(bytes, to) \/ to > hit.hi
           /\ Shortened(hit) => to - from <= max + 2 * Trail

HitIsRight(bytes, pat, options, hit) ==
  \E abs \in 0..Len(bytes) - 1 :
    /\ MatchesAt(bytes, pat, abs)
    /\ PlaceIsRight(bytes, options, abs, hit)
    /\ WindowIsRight(bytes, pat, options, abs, hit)

\* All hits in the files that were read, in the order of the page.
HitsOf(i, bytes, pat, options) ==
  GrepBytes(i, bytes, pat, [options EXCEPT !.maxHits = Unlimited]).hits

AssetHits(assets, failed, pat, options) ==
  FoldLeft(LAMBDA all, i : IF i \in failed THEN all ELSE all \o HitsOf(i, assets[i], pat, options),
           <<>>, [i \in DOMAIN assets |-> i])

AllHits(page, assets, failed, pat, options) ==
  HitsOf(0, page, pat, options) \o AssetHits(assets, failed, pat, options)

\* The first hits in the order of the page are printed, and the rest is counted.
Prints(result, all, options) ==
  /\ result.hits = SubSeq(all, 1, Kept(all, options))
  /\ result.notPrinted = Len(all) - Len(result.hits)
  /\ result.filesNotPrinted = 0 <=> result.notPrinted = 0
=============================================================================
