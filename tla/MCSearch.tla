------------------------------ MODULE MCSearch ------------------------------
(***************************************************************************)
(* Every short page alone, with characters of one byte and of three, lines *)
(* and a byte that is no text, under every kind of option; and every page  *)
(* with up to three short assets, under caps, two fetched at once.         *)
(***************************************************************************)
EXTENDS Search

CONSTANTS MaxTokens, MaxLetters

\* "e" is a character of three bytes, "cut" is a part of one, and "end" begins
\* another file.
Bytes == [x |-> <<"x">>, e |-> <<"lead", "c", "c">>, cut |-> <<"c">>, nl |-> <<"nl">>, end |-> <<>>]

InBytes(t) == FlattenSeq([i \in DOMAIN t |-> Bytes[t[i]]])

Texts(S, n) == UNION {[1..k -> S] : k \in 0..n}

Alone ==
  [page : {InBytes(t) : t \in Texts({"x", "e", "cut", "nl"}, MaxTokens)}, assets : {<<>>},
   pat : {<<"x">>, <<"x", "x">>, <<"lead", "c", "c">>, <<"x", "nl">>, <<"nl", "lead", "c", "c">>},
   options : [context : {0, 1}, maxBytes : {0, 1, 2, 3, 4, 6}, maxHits : {Unlimited}]]

Files(t) ==
  LET ends == SetToSortSeq({0, Len(t) + 1} \cup {i \in DOMAIN t : t[i] = "end"}, <)
  IN  [k \in 1..Len(ends) - 1 |-> InBytes(SubSeq(t, ends[k] + 1, ends[k + 1] - 1))]

\* One asset more than are searched.
WithAssets ==
  {[page |-> Head(Files(t)), assets |-> Tail(Files(t)), pat |-> <<"x">>, options |-> o] :
     t \in {s \in Texts({"x", "nl", "end"}, MaxLetters) : Len(Files(s)) <= 2 + MaxTotalAssets},
     o \in [context : {0}, maxBytes : {3}, maxHits : {0, 1, 2, Unlimited}]}

MCSearches == Alone \cup WithAssets
=============================================================================
