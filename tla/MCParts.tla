------------------------------ MODULE MCParts -------------------------------
(***************************************************************************)
(* Parts that share no state with one another, so that a behaviour is of   *)
(* one of them: what the two ends of an HTTP/2 session keep in step, text  *)
(* searches, and the functions over texts, whose input grows token by      *)
(* token.                                                                  *)
(***************************************************************************)
EXTENDS H2Flow, Hpack, MCSearch, TLC

CONSTANTS s1, s2, n1, n2, v1, v2

\* Three sizes of entry, one larger than the smaller tables.
MCEntrySize == [f \in Field |-> IF f[1] = n2 THEN 4 ELSE IF f[2] = v1 THEN 1 ELSE 2]

VARIABLES
  part,    \* the part that this behaviour is of
  text,    \* the input so far
  given,   \* what is being written, for files, documents and scripts
  whole    \* and how it is written in the end

-----------------------------------------------------------------------------
(* URLs: two that are scanned, and what documents may refer to             *)

MCLower == [w \in {"http", "https", "a", "b", "B", "fe"} |-> IF w = "B" THEN "b" ELSE w]

\* The port of http with zeros before it, as it is written, that of https, and
\* a number no port can be.
MCPortOf == ("00080" :> "80") @@ ("80" :> "80") @@ ("443" :> "443") @@ ("66666" :> None)

U == INSTANCE Url WITH
  Word <- DOMAIN MCLower, Lower <- MCLower, Number <- DOMAIN MCPortOf, PortOf <- MCPortOf,
  Escape <- ("%26" :> "&") @@ ("%E9" :> "%E9"), Foreign <- ("e'" :> "%E9"),
  Ipv6 <- {<<"fe", ":", ":">>}

UrlTyped == {":", "/", "?", "#", "@", "a", "B", ".", "00080"}
UrlBegun == {<<>>, <<"http", ":", "/", "/">>, <<"https", ":", "/", "/", "b", "/">>,
             <<"http", ":", "/", "/", "[", "fe", ":", ":", "]">>}

Scanned == {<<"https", ":", "/", "/", "a", "@", "b", ":", "00080", "/", "a", "/", "b", "?", "a">>,
            <<"http", ":", "/", "/", "b">>}
Base == {U!Parse(u) : u \in Scanned}

QueryTyped == {"a", "b", "&", "=", "%26", "+"}

-----------------------------------------------------------------------------
(* Files of the cache, and JSON documents                                  *)

C == INSTANCE Codec WITH Char <- {6, 7}

J == INSTANCE JsonWalk WITH
  String <- {"k", "l"}, Plain <- {"u"}, Unit <- {"0041", "D83D", "DE00"},
  High <- {"D83D"}, Low <- {"DE00"}

UpToTwo(S) == {<<>>} \cup {<<x>> : x \in S} \cup {<<x, y>> : x, y \in S}

Containers(S) ==
  {[array |-> a] : a \in UpToTwo(S)} \cup {[object |-> o] : o \in UpToTwo({"k", "l"} \X S)}

Atom == {J!Str("k"), J!Sign("1")}
Inner == {J!Str("l"), [array |-> <<J!Str("k")>>], [object |-> <<>>],
          [object |-> <<<<"k", J!Str("l")>>>>],
          [array |-> <<[object |-> <<<<"l", J!Sign("t")>>>>], J!Str("k")>>]}
Document == Atom \cup Containers(Atom) \cup Containers(Inner)

-----------------------------------------------------------------------------
(* Calls and declarations in scripts                                       *)

S == INSTANCE Source WITH
  UrlWord <- {"/a"},
  Identifier <- {"f", "b", "c", "method", "headers", "body"} \cup {"POST", "PUT", "DELETE"}

\* Quotes and brackets that are not what they seem, in an expression of a
\* template among others.
PieceIn(quote) ==
  {S!Plain("/a"), S!Plain("}"), S!Escaped(quote), S!Escaped(S!Backslash)}
    \cup (IF quote # S!Backquote THEN {S!Plain(S!Backquote)}
          ELSE {S!Expr(<<"b">>, "b"), S!Expr(<<"f", "(", S!Backquote, "b", S!Backquote, ")">>, None),
                S!Expr(<<"{", S!Backslash, "}", "}">>, None),
                S!Expr(<<"f", "(", "'", "}", "'", ")">>, None)})

Literal == UNION {[quote : {q}, pieces : UpToTwo(PieceIn(q))] : q \in S!Quotes}

Options(written, methods, flags) == [text |-> written, methods |-> methods, flags |-> flags]

\* A template in an expression, a name in quotes, and one in a string.
UnreadOptions ==
  {Options(<<"{", "body", ":", S!Backquote, S!Dollar, "f", "(", S!Backquote, "{", S!Backquote, ")",
             "}", S!Backquote, ",", "method", ":", "'", "PUT", "'", "}">>, {"PUT"}, {"body"}),
   Options(<<"{", "\"", "method", "\"", ":", "\"", "POST", "\"", "}">>, {"POST"}, {}),
   Options(<<"{", "headers", ":", "\"", "method", ":", "PUT", "\"", "}">>, {}, {"headers"})}

CallOptions ==
  {Options(<<>>, {}, {}),
   Options(<<"{", "method", ":", "'", "POST", "'", "}">>, {"POST"}, {}),
   Options(<<"{", "headers", ":", "{", "c", ":", "\"", "}", "\"", "}", ",", S!Space,
             "method", S!Space, ":", S!Space, "\"", "PUT", "\"", "}">>, {"PUT"}, {"headers"}),
   Options(<<"{", "body", ":", "f", "(", S!Backquote, "{", S!Backquote, ")", "}">>, {}, {"body"}),
   Options(<<"{", "body", ":", S!Backquote, S!Dollar, "b", "}", "]", S!Backquote, ",",
             "method", ":", "'", "PUT", "'", "}">>, {"PUT"}, {"body"})}

OnePiece == {l \in Literal : Len(l.pieces) = 1}

Call ==
  [anchor : {"fetch("}, literal : Literal, options : CallOptions]
    \cup [anchor : {"fetch("}, literal : OnePiece, options : UnreadOptions]
    \cup [anchor : {"axios.post(", "axios.get("}, literal : OnePiece,
          options : CallOptions \cup UnreadOptions]

\* What follows a call has options of its own.
Following == <<",", "{", "method", ":", "\"", "DELETE", "\"", "}", ")">>

Term ==
  {S!NameTerm("b"), S!NameTerm("c"),
   [quote |-> "'", pieces |-> <<S!Plain("/a"), S!Escaped("'")>>],
   [quote |-> S!Backquote, pieces |-> <<S!Plain("/a"), S!Expr(<<S!Space, "b">>, "b")>>],
   [quote |-> S!Backquote, pieces |-> <<S!Expr(<<"c">>, "c"), S!Plain("/a")>>],
   [quote |-> S!Backquote,
    pieces |-> <<S!Plain("/a"), S!Expr(<<"f", "(", S!Backquote, "c", S!Backquote, ")">>, None)>>],
   [quote |-> S!Backquote, pieces |-> <<S!Plain("/a"), S!Expr(<<"f", "(", "'", "}", "'", ")">>, None)>>],
   [quote |-> "\"", pieces |-> <<S!Plain("f")>>]}

Decl(n) == [name : {n}, terms : UpToTwo(Term) \ {<<>>}]

-----------------------------------------------------------------------------
(* The behaviours                                                          *)

Typed == [url |-> UrlTyped, query |-> QueryTyped, string |-> J!Form]

\* How many tokens are typed after those that an input begins with.
MaxTyped == [url |-> 3, query |-> 5, string |-> 4]

Begun(p) == IF p = "url" THEN UrlBegun ELSE {<<>>}

textVars == <<text, given, whole>>
vars == <<part, textVars, flowVars, hpackVars, searchVars>>

\* What a part does not use has one value.
NoSearch == search = None /\ next = 0 /\ running = {} /\ searched = <<>> /\ result = None

Init ==
  /\ FlowInit /\ HpackInit
  /\ \/ part \in {"windows", "headers", "search"} /\ text = <<>> /\ given = None /\ whole = text
     \/ \E p \in DOMAIN Typed : part = p /\ text \in Begun(p) /\ given = text /\ whole = text
     \/ /\ part = "file" /\ text = <<>>
        /\ \E k \in C!FileKind : given \in [kind : {k}, value : C!Variants(k.read)]
        /\ whole = C!FileOf(given.kind, given.value)
     \/ part = "document" /\ text = <<>> /\ given \in Document /\ whole = J!Written(given)
     \/ part = "call" /\ text = <<>> /\ given \in Call /\ whole = S!CallText(given) \o Following
     \/ /\ part = "declarations"
        /\ \E first \in Decl("b"), second \in Decl("c") : given = <<first, second>>
        /\ text = S!DeclText(given) /\ whole = text
  /\ part # "windows" => capacity = Max(Capacity)
  /\ IF part = "search" THEN SearchInit ELSE NoSearch

\* One more token.
Type ==
  /\ part \in DOMAIN Typed
  /\ Len(text) < Len(given) + MaxTyped[part]
  /\ \E t \in Typed[part] : text' = Append(text, t)
  /\ UNCHANGED <<part, given, whole, flowVars, hpackVars, searchVars>>

\* One more token of what is written.
Write ==
  /\ part \in {"file", "document", "call"}
  /\ Len(text) < Len(whole)
  /\ text' = Append(text, whole[Len(text) + 1])
  /\ UNCHANGED <<part, given, whole, flowVars, hpackVars, searchVars>>

\* The end of a longer file that another process has written to the same path
\* since, which is of other values or of the same and one byte.
Overlap ==
  /\ part = "file" /\ text = whole
  /\ \/ \E b \in {0, 7} : text' = Append(text, b)
     \/ \E v \in C!Variants(given.kind.read) :
          LET other == C!FileOf(given.kind, v)
          IN  Len(other) > Len(whole)
                /\ text' = whole \o SubSeq(other, Len(whole) + 1, Len(other))
  /\ UNCHANGED <<part, given, whole, flowVars, hpackVars, searchVars>>

Next ==
  \/ part = "windows" /\ FlowNext /\ UNCHANGED <<part, textVars, hpackVars, searchVars>>
  \/ part = "headers" /\ HpackNext /\ UNCHANGED <<part, textVars, flowVars, searchVars>>
  \/ part = "search" /\ SearchNext /\ UNCHANGED <<part, textVars, flowVars, hpackVars>>
  \/ Type
  \/ Write
  \/ Overlap

Spec == Init /\ [][Next]_vars

-----------------------------------------------------------------------------
(* Properties                                                              *)

\* Url::join: a reference in a document stands for what its parts say, however
\* text is put together and taken apart on the way: it does not climb above the
\* root, and without a host of its own it stays at the document's.
RefsResolve ==
  part = "url" => \A base \in Base : U!Join(base, text) = U!Resolved(base, text)

\* Url::parse: a URL that was written to a file or a header reads as the same
\* one, cut to a directory it is still at its host, and what the command line
\* takes is a page of the web. A cache file that names a query names its pairs.
UrlsReadBack ==
  /\ part = "url" =>
       \A u \in ({U!Parse(text), U!NormalizeUrl(text)} \cup {U!Join(b, text) : b \in Base}) \ {None} :
         U!ReadsBack(u) /\ (u.host # None => U!RebuiltIsValid(u))
  /\ part = "url" /\ U!NormalizeUrl(text) # None =>
       U!NormalizeUrl(text).scheme \in {<<"http">>, <<"https">>}
  /\ part = "query" => U!KeyNamesQuery(text)

\* codec: a file of the cache reads as what was written when it is whole, and as
\* nothing when it was cut off or the end of a longer file is left behind it. No
\* checksum is in it: one that is of two files before the end of the shorter
\* (a write that failed half way over another) is not claimed to be told.
FilesReadBack ==
  part = "file" =>
    C!ReadFile(given.kind, text) = IF text = whole THEN given.value ELSE None

\* json: all keys and strings of a document come in order and under their keys,
\* and what comes of one that is cut off is what would have come first. A string
\* reads as it was written or not at all.
JsonReadsBack ==
  /\ part = "document" => J!WalksRight(given, text)
  /\ part = "string" => J!StringReadsRight(text)

\* scan: a call whose URL is one literal is read with it and with its own method
\* and options, whatever follows, and whatever quotes and brackets are in them
\* but those that IsReadable excepts. One that is cut off gives a beginning of
\* its URL, and GET for a method that was not reached. Constants have the values
\* that were declared, but for those that TermIsRead excepts.
CallsAreRead ==
  /\ part = "call" => S!CallReadsRight(given, text)
  /\ part = "declarations" => S!DeclarationsReadRight(given)
=============================================================================
