-------------------------------- MODULE Url ---------------------------------
(***************************************************************************)
(* The URLs of src/src/url.rs: parsing, references and queries, with the   *)
(* keys that src/src/runtime/cache/mod.rs makes of them and the input of   *)
(* src/src/util/url_input.rs.                                              *)
(*                                                                         *)
(* A text is a sequence of tokens: the characters that delimit something,  *)
(* and words that hold none of them. No token is two others put together,  *)
(* and two numbers side by side are larger than a port can be. The ranges  *)
(* of Parts are the fields of a record, and raw is what AsStr puts         *)
(* together from them.                                                     *)
(***************************************************************************)
EXTENDS Naturals, SequencesExt, FiniteSetsExt

CONSTANTS
  None,
  Word,         \* letters, "http" and "https" among them
  Lower,        \* Word -> Word: to_ascii_lowercase
  Number,       \* digits
  PortOf,       \* Number -> the same number as a port is written, or None
  Escape,       \* %XX -> the token it stands for, one of Token
  Foreign,      \* a character that is not ASCII -> its %XX, one of Escape's
  Ipv6          \* the texts of addresses of version 6

Delimiter == {":", "/", "?", "#", "@", "[", "]", ".", "&", "=", "+", " "}

Token == Delimiter \cup Word \cup Number \cup DOMAIN Escape \cup DOMAIN Foreign

\* The first place of one of the delimiters in a text, 0 without one.
First(text, delimiters) == SelectInSeq(text, LAMBDA t : t \in delimiters)

Before(text, i) == SubSeq(text, 1, i - 1)
After(text, i) == SubSeq(text, i + 1, Len(text))

\* What comes before the first d, and what after it: None without one.
SplitOnce(text, d) ==
  LET i == First(text, {d})
  IN  IF i = 0 THEN <<text, None>> ELSE <<Before(text, i), After(text, i)>>

\* The parts between the places of d.
Split(text, d) ==
  LET cuts == SetToSortSeq({0, Len(text) + 1} \cup {i \in DOMAIN text : text[i] = d}, <)
  IN  [k \in 1..Len(cuts) - 1 |-> SubSeq(text, cuts[k] + 1, cuts[k + 1] - 1)]

Joined(parts, d) ==
  IF parts = <<>> THEN <<>>
  ELSE FoldLeft(LAMBDA text, part : text \o d \o part, Head(parts), Tail(parts))

StartsWith(text, prefix) == IsPrefix(prefix, text)
EndsWith(text, suffix) == IsSuffix(suffix, text)

Lowered(text) == [i \in DOMAIN text |-> IF text[i] \in Word THEN Lower[text[i]] ELSE text[i]]

-----------------------------------------------------------------------------
(* Paths                                                                   *)

\* Empty segments go as well.
Pushed(stack, part) ==
  CASE part \in {<<>>, <<".">>} -> stack
    [] part = <<".", ".">> -> IF stack = <<>> THEN stack ELSE Front(stack)
    [] OTHER -> Append(stack, part)

WithLastSlash(path, out) ==
  IF EndsWith(out, <<"/">>)
     \/ \A end \in {<<"/">>, <<"/", ".">>, <<"/", ".", ".">>} : ~EndsWith(path, end)
  THEN out ELSE Append(out, "/")

RemoveDotSegments(path) ==
  WithLastSlash(path,
    (IF StartsWith(path, <<"/">>) THEN <<"/">> ELSE <<>>)
      \o Joined(FoldLeft(Pushed, <<>>, Split(path, "/")), <<"/">>))

-----------------------------------------------------------------------------
(* parse_ascii                                                             *)

ValidScheme(text) ==
  /\ text # <<>> /\ Head(text) \in Word
  /\ Range(text) \subseteq Word \cup Number \cup {"+", "."}

\* u16::from_str takes a plus sign.
ParsePort(text) ==
  LET digits == IF StartsWith(text, <<"+">>) THEN Tail(text) ELSE text
  IN  IF Len(digits) = 1 /\ digits[1] \in Number THEN PortOf[digits[1]] ELSE None

Refused == [ok |-> FALSE, host |-> <<>>, port |-> None]

\* split_host_port, and what parse_ascii asks of a host.
HostInBrackets(address, after) ==
  LET port == IF StartsWith(after, <<":">>) THEN ParsePort(Tail(after)) ELSE None
  IN  IF (after # <<>> /\ port = None) \/ address \notin Ipv6 THEN Refused
      ELSE [ok |-> TRUE, host |-> <<"[">> \o Lowered(address) \o <<"]">>, port |-> port]

PlainHost(host, hasPort, port) ==
  IF \/ host = <<>> \/ (hasPort /\ port = None)
     \/ \E t \in Range(host) : t \in {":", "[", "]", " "} \cup DOMAIN Escape
  THEN Refused
  ELSE [ok |-> TRUE, host |-> Lowered(host), port |-> port]

HostAndPort(authority) ==
  LET end == First(authority, {"]"})
      parts == SplitOnce(authority, ":")
      hasPort == /\ Cardinality({i \in DOMAIN authority : authority[i] = ":"}) = 1
                 /\ parts[2] # <<>> /\ Range(parts[2]) \subseteq Number
  IN  IF StartsWith(authority, <<"[">>) THEN
        IF end = 0 THEN Refused
        ELSE HostInBrackets(SubSeq(authority, 2, end - 1), After(authority, end))
      ELSE IF hasPort THEN PlainHost(parts[1], TRUE, ParsePort(parts[2]))
      ELSE PlainHost(authority, FALSE, None)

DefaultPort(scheme) ==
  CASE scheme = <<"http">> -> "80" [] scheme = <<"https">> -> "443" [] OTHER -> None

\* A path, query and fragment, the last two None when there are none.
SplitTail(text) ==
  LET f == SplitOnce(text, "#")
      q == SplitOnce(f[1], "?")
  IN  [path |-> q[1], query |-> q[2], fragment |-> f[2]]

\* A user name ends at the last @.
SplitUserinfo(authority) ==
  LET at == SelectLastInSeq(authority, LAMBDA t : t = "@")
  IN  IF at = 0 THEN <<None, authority>> ELSE <<Before(authority, at), After(authority, at)>>

ParseAuthority(scheme, authority, at, tail) ==
  IF ~at.ok THEN None
  ELSE [scheme |-> scheme, userinfo |-> authority[1], host |-> at.host,
        port |-> IF at.port = DefaultPort(scheme) THEN None ELSE at.port,
        path |-> IF tail.path = <<>> THEN <<"/">> ELSE RemoveDotSegments(tail.path),
        query |-> tail.query, fragment |-> tail.fragment]

\* split: where the authority ends.
ParseHosted(scheme, body, split) ==
  LET authority == SplitUserinfo(Before(body, split))
  IN  ParseAuthority(scheme, authority, HostAndPort(authority[2]),
                     SplitTail(SubSeq(body, split, Len(body))))

ParseOpaque(scheme, tail) ==
  IF scheme \in {<<"http">>, <<"https">>} THEN None
  ELSE [scheme |-> scheme, userinfo |-> None, host |-> None, port |-> None,
        path |-> tail.path, query |-> tail.query, fragment |-> tail.fragment]

ParseRest(scheme, rest) ==
  LET body == SubSeq(rest, 3, Len(rest))
      ends == {i \in DOMAIN body : body[i] \in {"/", "?", "#"}} \cup {Len(body) + 1}
  IN  IF StartsWith(rest, <<"/", "/">>) THEN ParseHosted(scheme, body, Min(ends))
      ELSE ParseOpaque(scheme, SplitTail(rest))

ParseAscii(input) ==
  LET colon == First(input, {":"})
  IN  IF colon = 0 \/ ~ValidScheme(Before(input, colon)) THEN None
      ELSE ParseRest(Lowered(Before(input, colon)), After(input, colon))

\* Wherever it is: a scheme or a host that is not ASCII is refused either way.
EncodeNonAscii(text) ==
  [i \in DOMAIN text |-> IF text[i] \in DOMAIN Foreign THEN Foreign[text[i]] ELSE text[i]]

Parse(input) == ParseAscii(EncodeNonAscii(input))

-----------------------------------------------------------------------------
(* Url                                                                     *)

\* userinfo, host and port: serialized_authority.
Authority(u) ==
  (IF u.userinfo = None THEN <<>> ELSE Append(u.userinfo, "@")) \o u.host
    \o (IF u.port = None THEN <<>> ELSE <<":", u.port>>)

SchemeAndAuthority(u) ==
  Append(u.scheme, ":") \o (IF u.host = None THEN <<>> ELSE <<"/", "/">> \o Authority(u))

QueryAndFragment(query, fragment) ==
  (IF query = None THEN <<>> ELSE <<"?">> \o query)
    \o (IF fragment = None THEN <<>> ELSE <<"#">> \o fragment)

AsStr(u) == SchemeAndAuthority(u) \o u.path \o QueryAndFragment(u.query, u.fragment)

HasScheme(text) ==
  LET colon == First(text, {":"}) IN colon # 0 /\ ValidScheme(Before(text, colon))

\* Mutant: the query of the base stays when the reference has a path.
JoinedQuery_Kept(base, ref) == IF ref.query # None THEN ref.query ELSE base.query

JoinedQuery(base, ref) ==
  IF ref.query # None THEN ref.query ELSE IF ref.path = <<>> THEN base.query ELSE None

\* The path of a reference, put after the directory of the base unless it
\* begins at the root.
JoinedPath(base, ref) ==
  LET slash == SelectLastInSeq(base.path, LAMBDA t : t = "/")
      path == CASE ref.path = <<>> -> base.path
                [] StartsWith(ref.path, <<"/">>) -> RemoveDotSegments(ref.path)
                [] OTHER -> RemoveDotSegments(SubSeq(base.path, 1, slash) \o ref.path)
  IN  IF path = <<>> THEN <<"/">> ELSE path

Join(base, input) ==
  LET ref == SplitTail(input)
  IN  IF HasScheme(input) THEN Parse(input)
      ELSE IF StartsWith(ref.path, <<"/", "/">>)
      THEN Parse(Append(base.scheme, ":") \o ref.path \o QueryAndFragment(ref.query, ref.fragment))
      ELSE Parse(SchemeAndAuthority(base) \o JoinedPath(base, ref)
                   \o QueryAndFragment(JoinedQuery(base, ref), ref.fragment))

\* set_path, set_query and set_fragment.
Rebuild(u, path, query, fragment) ==
  Parse(SchemeAndAuthority(u) \o (IF path = <<>> THEN <<"/">> ELSE path)
          \o QueryAndFragment(query, fragment))

\* What is scanned: the argument of the command line.
NormalizeUrl(input) ==
  LET complete == \E i \in 1..Len(input) - 2 : SubSeq(input, i, i + 2) = <<":", "/", "/">>
      u == Parse(IF complete THEN input ELSE <<"https", ":", "/", "/">> \o input)
  IN  IF u # None /\ complete /\ u.scheme \notin {<<"http">>, <<"https">>} THEN None ELSE u

-----------------------------------------------------------------------------
(* Queries and the keys of cache files                                     *)

DecodeQueryComponent(text) ==
  [i \in DOMAIN text |-> IF text[i] = "+" THEN " "
                         ELSE IF text[i] \in DOMAIN Escape THEN Escape[text[i]] ELSE text[i]]

Pair(field) ==
  LET parts == SplitOnce(field, "=")
  IN  <<DecodeQueryComponent(parts[1]),
        IF parts[2] = None THEN <<>> ELSE DecodeQueryComponent(parts[2])>>

QueryPairs(query) == LET fields == Split(query, "&") IN [k \in DOMAIN fields |-> Pair(fields[k])]

\* A path without its last slash.
CachePath(path) == IF Len(path) > 1 /\ EndsWith(path, <<"/">>) THEN Front(path) ELSE path

\* The pairs in an order that is theirs, not the query's.
Sorted(pairs) ==
  LET places == {f \in [DOMAIN pairs -> DOMAIN pairs] : IsInjective(f)}
  IN  CHOOSE list \in {[k \in DOMAIN pairs |-> pairs[f[k]]] : f \in places} : TRUE

\* Mutant: the pairs stay in the order of the query.
CacheQuery_Unsorted(query) ==
  LET pairs == QueryPairs(query)
  IN  Joined([k \in DOMAIN pairs |-> pairs[k][1] \o <<"=">> \o pairs[k][2]], <<"&">>)

\* Decoded, in order, and not encoded again.
CacheQuery(query) ==
  LET pairs == Sorted(QueryPairs(query))
  IN  Joined([k \in DOMAIN pairs |-> pairs[k][1] \o <<"=">> \o pairs[k][2]], <<"&">>)

NormalizeForCache(u) ==
  [scheme |-> u.scheme, host |-> u.host, port |-> u.port, path |-> CachePath(u.path),
   query |-> IF u.query = None THEN None ELSE CacheQuery(u.query)]

-----------------------------------------------------------------------------
(* What these functions are for                                            *)

IsName(segment) == segment \notin {<<>>, <<".">>, <<".", ".">>}

\* A name in a path is undone by the first ".." that finds no other to undo.
Undone(segments, i) ==
  LET Names(j) == Cardinality({k \in i + 1 .. j : IsName(segments[k])})
      Dots(j) == Cardinality({k \in i + 1 .. j : segments[k] = <<".", ".">>})
  IN  \E j \in i + 1 .. Len(segments) : Dots(j) > Names(j)

\* The names that are left, and a slash at the end if the path ends in no name.
ResolvedPath(path) ==
  LET segments == Split(path, "/")
      left == {i \in DOMAIN segments : IsName(segments[i]) /\ ~Undone(segments, i)}
      names == [k \in 1..Cardinality(left) |-> segments[SetToSortSeq(left, <)[k]]]
  IN  <<"/">> \o Joined(names, <<"/">>)
        \o (IF left # {} /\ ~IsName(Last(segments)) THEN <<"/">> ELSE <<>>)

\* What a reference in a document of base stands for. One without scheme and
\* host stays at the host of the document, with its user name and port.
Resolved(base, input) ==
  LET ref == SplitTail(input)
      directory == SubSeq(base.path, 1, SelectLastInSeq(base.path, LAMBDA t : t = "/"))
  IN  IF HasScheme(input) THEN Parse(input)
      ELSE IF StartsWith(input, <<"/", "/">>) THEN Parse(Append(base.scheme, ":") \o input)
      ELSE [base EXCEPT
              !.path = IF ref.path = <<>> THEN @
                       ELSE ResolvedPath(IF Head(ref.path) = "/" THEN ref.path
                                         ELSE directory \o ref.path),
              !.query = IF ref.path = <<>> /\ ref.query = None THEN @ ELSE ref.query,
              !.fragment = ref.fragment]

\* A URL that was written down is the same when it is read.
ReadsBack(u) == Parse(AsStr(u)) = u

\* Paths are cut where a directory of a framework ends, without query and
\* fragment; "rebuilt URL remains valid" (src/src/url.rs:236), at its host.
RebuiltIsValid(u) ==
  \A k \in 1..Len(u.path) :
    LET root == Rebuild(u, SubSeq(u.path, 1, k), None, None)
    IN  root # None /\ Authority(root) = Authority(u)

\* The key of a query names its pairs, in whatever order they were, as long as
\* none of them has an encoded delimiter.
KeyNamesQuery(query) ==
  LET pairs == QueryPairs(query)
      Plain(p) == {"&", "="} \cap Range(p[1]) = {} /\ "&" \notin Range(p[2])
      fields == Split(CacheQuery(query), "&")
      Read(field) == LET parts == SplitOnce(field, "=") IN <<parts[1], parts[2]>>
  IN  /\ (\A p \in Range(pairs) : Plain(p)) =>
           Sorted([k \in DOMAIN fields |-> Read(fields[k])]) = Sorted(pairs)
      /\ CacheQuery(query) = CacheQuery(Joined(Reverse(Split(query, "&")), <<"&">>))
=============================================================================
