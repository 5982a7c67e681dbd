------------------------------- MODULE Search -------------------------------
(***************************************************************************)
(* hifi grep: run and grep_assets of src/src/grep.rs over bounded_map of   *)
(* src/src/runtime/concurrent.rs. The page is there, its assets are        *)
(* fetched and searched, a number of them at once, and what was found is   *)
(* put in the order of the page when the last one has ended.               *)
(*                                                                         *)
(* bounded_map is one task, and what a file holds is fixed in `search`:    *)
(* which fetch ends next, and whether it fails, is not.                    *)
(***************************************************************************)
EXTENDS Grep

CONSTANTS
  Searches,           \* pages with their assets, patterns and options
  ChunkConcurrency,   \* config.chunk_concurrency
  MaxTotalAssets,     \* MAX_TOTAL_ASSETS
  None

\* What is searched is bytes, and a pattern is a text that is not empty.
ASSUME SearchAssumption ==
  /\ Searches \subseteq [page : Seq(Byte), assets : Seq(Seq(Byte)),
                         pat : Seq(Byte) \ {<<>>}, options : Option]
  /\ \A s \in Searches : IsText(s.pat)
  /\ ChunkConcurrency \in Nat /\ MaxTotalAssets \in Nat

VARIABLES
  search,     \* one of Searches
  next,       \* the next of its assets that `items` gives
  running,    \* those whose futures are in `pending`
  searched,   \* `out`: the assets in the order in which they ended
  result      \* what run prints

searchVars == <<search, next, running, searched, result>>

\* assets.truncate
Assets == SubSeq(search.assets, 1, Smaller(Len(search.assets), MaxTotalAssets))

AtOnce == Larger(ChunkConcurrency, 1)

SearchInit ==
  /\ search \in Searches
  /\ next = Smaller(AtOnce, Len(Assets)) + 1
  /\ running = 1..next - 1
  /\ searched = <<>>
  /\ result = None

\* The pool without i, and with the next asset if there is one.
Refilled(i) == (running \ {i}) \cup (IF next <= Len(Assets) THEN {next} ELSE {})

\* grep_one has ended for asset i, which could be read or not.
Searched(i, read) ==
  /\ i \in running
  /\ searched' = Append(searched, [file |-> i, read |-> read])
  /\ running' = Refilled(i)
  /\ next' = Smaller(next, Len(Assets)) + 1
  /\ UNCHANGED <<search, result>>

\* The files of those that could be read, or could not, in the order of `out`.
FilesOf(out, read) ==
  FoldLeft(LAMBDA files, o : IF o.read = read THEN Append(files, o.file) ELSE files, <<>>, out)

\* bounded_map has returned.
Report ==
  /\ running = {} /\ result = None
  /\ result' = Run(search.page, Assets, FilesOf(searched, TRUE), Len(FilesOf(searched, FALSE)),
                   search.pat, search.options)
  /\ UNCHANGED <<search, next, running, searched>>

SearchNext ==
  \/ \E i \in DOMAIN Assets, read \in BOOLEAN : Searched(i, read)
  \/ Report

SearchSpec == SearchInit /\ [][SearchNext]_searchVars

-----------------------------------------------------------------------------
(* Properties                                                              *)

SearchTypeOK ==
  /\ search \in Searches
  /\ next \in Nat
  /\ running \subseteq DOMAIN Assets
  /\ searched \in Seq([file : DOMAIN Assets, read : BOOLEAN])

\* bounded_map: as many assets are being fetched as may be, for as long as
\* there are that many left.
PoolIsFull == Cardinality(running) = Smaller(AtOnce, Len(Assets) - Len(searched))

Failed == {searched[k].file : k \in {j \in DOMAIN searched : ~searched[j].read}}

\* grep: what is printed does not depend on the order in which the files came,
\* and every hit of the page and of each asset that could be read is printed or
\* counted; an asset that could not be read is counted too.
HitsAreCounted ==
  result # None =>
    /\ Prints(result, AllHits(search.page, Assets, Failed, search.pat, search.options),
              search.options)
    /\ result.filesFailed = Cardinality(Failed)

FileOf(i) == IF i = 0 THEN search.page ELSE Assets[i]

\* grep: every hit that is printed is a match of the pattern at that line and
\* column of that file. Its snippet holds the match, or the beginning of one
\* that does not fit, is never shorter than it may be, and longer only by what
\* makes its first and last characters whole.
SnippetsHoldHits ==
  result # None =>
    \A k \in DOMAIN result.hits :
      HitIsRight(FileOf(result.hits[k].file), search.pat, search.options, result.hits[k])

\* In UTF-8 no match ends within a character.
MatchesAreWhole(bytes) ==
  \A i \in 0..Len(bytes) - 1 :
    MatchesAt(bytes, search.pat, i) => IsBoundary(bytes, i + Len(search.pat))

\* Said of snippet_window: "Pick a byte range inside [lo, hi] that fits within
\* `max` bytes", with "both ends" at "UTF-8 boundaries so the slice decodes
\* cleanly"; and the README has each snippet truncated to a number of bytes.
\* Here it is asked of texts alone.
SnippetsFit ==
  result # None =>
    \A k \in DOMAIN result.hits :
      LET hit == result.hits[k]
          bytes == FileOf(hit.file)
      IN  IsText(bytes) /\ MatchesAreWhole(bytes) =>
            /\ hit.lo <= hit.window[1] /\ hit.window[2] <= hit.hi
            /\ hit.window[2] - hit.window[1] <= search.options.maxBytes
            /\ \A end \in Range(hit.window) : IsBoundary(bytes, end)
=============================================================================
