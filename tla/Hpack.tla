------------------------------- MODULE Hpack --------------------------------
(***************************************************************************)
(* The HPACK decoder of one HTTP/2 session (hpack.rs) beside the encoder   *)
(* of the server, which is external: it keeps the table that RFC 7541      *)
(* gives it, written down here as a definition of its own, and never       *)
(* learns what the decoder keeps. Header blocks arrive whole and in order, *)
(* so encoding and decoding one are one step. Integers, strings, Huffman   *)
(* codes and the static table are data: a name is written out or taken     *)
(* from the dynamic table.                                                 *)
(***************************************************************************)
EXTENDS Integers, SequencesExt, FiniteSetsExt

CONSTANTS
  Name, Value,
  EntrySize,    \* [Name \X Value -> Nat]: dynamic_entry_size
  DefaultSize,  \* size of the dynamic table before anything is said of it
  Sizes,        \* sizes in SETTINGS_HEADER_TABLE_SIZE and in size updates
  MaxFields     \* header fields of a block

Field == Name \X Value

ASSUME HpackAssumption ==
  /\ EntrySize \in [Field -> Nat \ {0}]
  /\ DefaultSize \in Nat /\ Sizes \subseteq Nat /\ MaxFields \in Nat

VARIABLES
  decoder,  \* HpackDecoder: [dynamic, size, max, allowed]
  encoder,  \* the server's encoder: [dynamic, max]
  header,   \* the fields of the last block: [sent, got]
  open,     \* the reader has not met a block it refuses
  least     \* the smallest table size the server's SETTINGS have named

hpackVars == <<decoder, encoder, header, open, least>>

TotalSize(t) == FoldLeft(LAMBDA sum, f : sum + EntrySize[f], 0, t)

-----------------------------------------------------------------------------
(* HpackDecoder                                                            *)

\* dynamic_size when only the first k entries are left.
SizeOfFirst(d, k) == d.size - TotalSize(SubSeq(d.dynamic, k + 1, Len(d.dynamic)))

\* evict_dynamic drops the oldest entries until the rest fits.
Evict(d) ==
  LET k == Max({i \in 0..Len(d.dynamic) : SizeOfFirst(d, i) <= d.max} \cup {0})
  IN  [d EXCEPT !.dynamic = SubSeq(d.dynamic, 1, k), !.size = SizeOfFirst(d, k)]

SetMaxSize(d, n) == Evict([d EXCEPT !.max = n])

SetAllowedMaxSize(d, n) ==
  LET e == [d EXCEPT !.allowed = n]
  IN  IF d.max > n THEN SetMaxSize(e, n) ELSE e

\* Mutant: an entry that does not fit leaves the table as it is.
InsertDynamic_Skips(d, f) ==
  IF EntrySize[f] > d.max THEN d
  ELSE Evict([d EXCEPT !.dynamic = <<f>> \o @, !.size = @ + EntrySize[f]])

\* An entry larger than the table empties it.
InsertDynamic(d, f) ==
  IF EntrySize[f] > d.max THEN [d EXCEPT !.dynamic = <<>>, !.size = 0]
  ELSE Evict([d EXCEPT !.dynamic = <<f>> \o @, !.size = @ + EntrySize[f]])

\* One turn of the loop of decode over what it has come to: the decoder, the
\* fields so far, whether a size update may still come and whether it failed.
DecodeOne(x, r) ==
  LET d == x.decoder
      found == r.index \in DOMAIN d.dynamic
      name == IF r.index = 0 THEN r.name ELSE d.dynamic[r.index][1]
  IN IF ~x.ok THEN x
     ELSE CASE r.kind = "resize" ->
                 IF x.canResize /\ r.index <= d.allowed
                 THEN [x EXCEPT !.decoder = SetMaxSize(d, r.index)]
                 ELSE [x EXCEPT !.ok = FALSE]
            [] r.kind # "resize" /\ r.index # 0 /\ ~found -> [x EXCEPT !.ok = FALSE]
            [] r.kind = "indexed" /\ found ->
                 [x EXCEPT !.canResize = FALSE, !.out = Append(@, d.dynamic[r.index])]
            [] r.kind = "insert" /\ (r.index = 0 \/ found) ->
                 [x EXCEPT !.canResize = FALSE, !.out = Append(@, <<name, r.value>>),
                           !.decoder = InsertDynamic(d, <<name, r.value>>)]
            [] r.kind = "literal" /\ (r.index = 0 \/ found) ->
                 [x EXCEPT !.canResize = FALSE, !.out = Append(@, <<name, r.value>>)]

Decode(d, block) ==
  FoldLeft(DecodeOne, [decoder |-> d, out |-> <<>>, canResize |-> TRUE, ok |-> TRUE], block)

-----------------------------------------------------------------------------
(* The server's encoder                                                    *)

\* As many of the newest entries as fit.
Fitting(t, max) ==
  SubSeq(t, 1, Max({k \in 0..Len(t) : TotalSize(SubSeq(t, 1, k)) <= max}))

Rep(kind, i, f) == [kind |-> kind, index |-> i, name |-> f[1], value |-> f[2]]

\* The representation of f that is asked for, if the table has what it takes.
Encoding(t, f, how) ==
  LET same == {i \in DOMAIN t : t[i] = f}
      named == {i \in DOMAIN t : t[i][1] = f[1]}
  IN IF how = "indexed" /\ same # {} THEN Rep("indexed", Min(same), f)
     ELSE LET kind == IF how = "indexed" THEN "insert" ELSE how
          IN  Rep(kind, IF named = {} THEN 0 ELSE Max(named), f)

EncodeOne(x, c) ==
  LET r == Encoding(x.dynamic, c.field, c.how)
  IN  [x EXCEPT !.block = Append(@, r),
                !.dynamic = IF r.kind = "insert" THEN Fitting(<<c.field>> \o @, x.max)
                                                 ELSE @]

Choice == [field : Field, how : {"indexed", "insert", "literal"}]

\* A block of the fields in choices, after a size update if the encoder's
\* table is to have another size.
Encode(e, size, choices) ==
  LET resized == [dynamic |-> Fitting(e.dynamic, size), max |-> size,
                  block |-> IF size = e.max THEN <<>>
                            ELSE <<[kind |-> "resize", index |-> size,
                                    name |-> choices[1].field[1],
                                    value |-> choices[1].field[2]]>>]
  IN  FoldLeft(EncodeOne, resized, choices)

-----------------------------------------------------------------------------
(* The session                                                             *)

HpackInit ==
  /\ decoder = [dynamic |-> <<>>, size |-> 0, max |-> DefaultSize, allowed |-> DefaultSize]
  /\ encoder = [dynamic |-> <<>>, max |-> DefaultSize]
  /\ header = [sent |-> <<>>, got |-> <<>>]
  /\ open = TRUE
  /\ least = DefaultSize

\* apply_settings: a size in the server's SETTINGS is what its decoder has
\* room for, yet it bounds the table of this one.
ApplySettings(n) ==
  /\ open
  /\ decoder' = SetAllowedMaxSize(decoder, n)
  /\ least' = Min({least, n})
  /\ UNCHANGED <<encoder, header, open>>

\* A header block is read. The size of the encoder's table is at most what
\* the client has offered: it never says, so the default.
ReadBlock(size, choices) ==
  /\ open
  /\ size <= DefaultSize
  /\ LET e == Encode(encoder, size, choices)
         x == Decode(decoder, e.block)
     IN /\ encoder' = [dynamic |-> e.dynamic, max |-> e.max]
        /\ decoder' = x.decoder
        /\ open' = x.ok
        /\ header' = [sent |-> [i \in DOMAIN choices |-> choices[i].field],
                      got |-> x.out]
  /\ UNCHANGED least

HpackNext ==
  \/ \E n \in Sizes : ApplySettings(n)
  \/ \E n \in Sizes \cup {encoder.max}, k \in 1..MaxFields :
       \E choices \in [1..k -> Choice] : ReadBlock(n, choices)

HpackSpec == HpackInit /\ [][HpackNext]_hpackVars

-----------------------------------------------------------------------------
(* Properties                                                              *)

\* The two tables are kept apart, over any number of blocks, evictions and
\* resizings, and still every block that the decoder accepts gives the header
\* fields which the server has sent. As long as the server's SETTINGS name no
\* smaller table, the two evict alike, entry by entry, and no block is refused,
\* which would end all requests of the session. A smaller one leaves the decoder
\* with the newest part of the encoder's entries. The size that is kept beside
\* the entries is theirs.
DecodesAsSent ==
  /\ open => header.got = header.sent
  /\ open => IsPrefix(decoder.dynamic, encoder.dynamic)
  /\ least >= DefaultSize => open /\ decoder.dynamic = encoder.dynamic
  /\ decoder.size = TotalSize(decoder.dynamic)
  /\ decoder.size <= decoder.max /\ decoder.max <= decoder.allowed
=============================================================================
