------------------------------ MODULE JsonWalk ------------------------------
(***************************************************************************)
(* The streaming JSON scanner of src/src/json.rs, with which manifests and *)
(* payloads of frameworks are read: its events, the walk over strings and  *)
(* keys, the keys of an object, and the strings themselves.                *)
(*                                                                         *)
(* A document is a sequence of tokens without white space: punctuation,    *)
(* texts [text |-> ...] and values of which only the kind is told, "1" for *)
(* numbers and "t" for true, false and null. How a text between quotes is  *)
(* read is a part of its own, over characters.                             *)
(***************************************************************************)
EXTENDS Integers, SequencesExt, FiniteSetsExt

CONSTANTS
  None,
  String,      \* the texts in documents
  Plain,       \* characters that stand for themselves and are no hex digits
  Unit,        \* four hex digits
  High, Low    \* disjoint sets of Unit: the halves of one character beyond 16 bits

Scalar == {"1", "t"}
Str(s) == [text |-> s]
TextOf(token) == token.text
IsText(token) == "text" \in DOMAIN token

\* Tokens are records, for one kind of them to be told from another.
Sign(c) == [sign |-> c]
Is(token, c) == "sign" \in DOMAIN token /\ token.sign = c
IsOneOf(token, cs) == "sign" \in DOMAIN token /\ token.sign \in cs

-----------------------------------------------------------------------------
(* Parser::next                                                            *)

\* rest: what pos has not come to. open: the containers, the innermost last.
Parser(document) ==
  [rest |-> document, open |-> <<>>, expectKey |-> FALSE, expectSep |-> FALSE, event |-> None]

Event(kind, text) == [kind |-> kind, text |-> text]

\* No event: the end, or a token that does not belong there.
Stop(p) == [p EXCEPT !.event = None]

\* After a token: what is expected then, and the event.
Step(p, expectKey, expectSep, event) ==
  [p EXCEPT !.rest = Tail(@), !.expectKey = expectKey, !.expectSep = expectSep, !.event = event]

Opened(p, c) == [p EXCEPT !.open = Append(@, c)]

Closed(p, c, event) ==
  IF p.open = <<>> \/ Last(p.open) # c THEN Stop(p)
  ELSE [Step(p, FALSE, TRUE, event) EXCEPT !.open = Front(@)]

NextKey(p) ==
  IF Len(p.rest) < 2 \/ ~Is(p.rest[2], ":") THEN Stop(p)
  ELSE [Step(p, FALSE, p.expectSep, Event("Key", TextOf(p.rest[1]))) EXCEPT !.rest = Tail(@)]

\* Mutant: what follows a comma is a value.
AfterSep_Value(p) ==
  IF p.rest # <<>> /\ p.expectSep /\ Is(Head(p.rest), ",")
  THEN [p EXCEPT !.rest = Tail(@), !.expectSep = FALSE]
  ELSE p

\* A comma is passed over, and a key must follow in an object.
AfterSep(p) ==
  IF p.rest # <<>> /\ p.expectSep /\ Is(Head(p.rest), ",")
  THEN [p EXCEPT !.rest = Tail(@), !.expectSep = FALSE,
                 !.expectKey = p.open # <<>> /\ Last(p.open) = "{"]
  ELSE p

NextEvent(before) ==
  LET p == AfterSep(before)
      t == Head(p.rest)
  IN  CASE p.rest = <<>> -> Stop(p)
        [] p.rest # <<>> /\ p.expectSep /\ ~IsOneOf(t, {"}", "]"}) -> Stop(p)
        [] p.rest # <<>> /\ (p.expectSep => IsOneOf(t, {"}", "]"})) ->
             CASE Is(t, "}") -> Closed(p, "{", Event("EndObject", None))
               [] Is(t, "]") -> Closed(p, "[", Event("EndArray", None))
               [] Is(t, "{") -> Opened(Step(p, TRUE, FALSE, Event("BeginObject", None)), "{")
               [] Is(t, "[") -> Opened(Step(p, FALSE, FALSE, Event("BeginArray", None)), "[")
               [] IsText(t) /\ p.expectKey -> NextKey(p)
               [] IsText(t) /\ ~p.expectKey -> Step(p, FALSE, TRUE, Event("String", TextOf(t)))
               [] IsOneOf(t, Scalar) -> Step(p, p.expectKey, TRUE, Event("Scalar", None))
               [] OTHER -> Stop(p)

\* skip_value: the parser behind the next value.
SkipValue(p) ==
  LET RECURSIVE Until(_)
      Until(q) == IF q.event = None \/ Len(q.open) <= Len(p.open) THEN q ELSE Until(NextEvent(q))
  IN  Until(NextEvent(p))

-----------------------------------------------------------------------------
(* walk and object_keys                                                    *)

\* What the visitor is given of an event, with the key it is under. Arrays do
\* not change the key, and an object gives back the one it was under.
Visit(w, event) ==
  CASE event.kind = "BeginObject" ->
         [w EXCEPT !.keys = Append(@, w.current), !.current = None]
    [] event.kind = "EndObject" ->
         IF w.keys = <<>> THEN [w EXCEPT !.current = None]
         ELSE [w EXCEPT !.keys = Front(@), !.current = Last(w.keys)]
    [] event.kind = "Key" ->
         [w EXCEPT !.current = event.text, !.visits = Append(@, <<"Key", event.text>>)]
    [] event.kind = "String" ->
         [w EXCEPT !.visits = Append(@, <<"String", w.current, event.text>>)]
    [] event.kind \in {"BeginArray", "EndArray", "Scalar"} -> w

RECURSIVE WalkFrom(_, _)
WalkFrom(p, w) ==
  LET q == NextEvent(p) IN IF q.event = None THEN w.visits ELSE WalkFrom(q, Visit(w, q.event))

Walk(document) == WalkFrom(Parser(document), [keys |-> <<>>, current |-> None, visits |-> <<>>])

\* The keys of the object that p is in, None when it does not end well.
RECURSIVE KeysFrom(_, _)
KeysFrom(p, keys) ==
  LET q == NextEvent(p)
  IN  IF q.event = None THEN None
      ELSE CASE q.event.kind = "EndObject" -> keys
             [] q.event.kind = "Key" ->
                  LET r == SkipValue(q)
                  IN  IF r.event = None THEN None ELSE KeysFrom(r, Append(keys, q.event.text))
             [] OTHER -> None

IsBegin(p) == p.event # None /\ p.event.kind = "BeginObject"

RECURSIVE KeysUnder(_, _)
KeysUnder(p, parent) ==
  LET q == NextEvent(p)
  IN  IF q.event = None \/ q.event.kind # "Key" THEN None
      ELSE IF q.event.text = parent
      THEN IF IsBegin(NextEvent(q)) THEN KeysFrom(NextEvent(q), <<>>) ELSE None
      ELSE LET r == SkipValue(q) IN IF r.event = None THEN None ELSE KeysUnder(r, parent)

ObjectKeys(document, parent) ==
  LET p == NextEvent(Parser(document))
  IN  IF ~IsBegin(p) THEN None
      ELSE IF parent = None THEN KeysFrom(p, <<>>) ELSE KeysUnder(p, parent)

-----------------------------------------------------------------------------
(* read_string                                                             *)

Backslash == "\\"
Quote == "\""

\* What may follow a backslash, and what it then is.
Unescaped == [c \in {Quote, Backslash, "/", "n"} |-> IF c = "n" THEN "newline" ELSE c]

\* \uXXXX, or \uXXXX\uXXXX for two halves: how long it is, 0 when it is not
\* one, and the character.
UnicodeAt(text) ==
  IF Len(text) < 3 \/ text[3] \notin Unit \ Low THEN [n |-> 0, char |-> <<>>]
  ELSE IF text[3] \notin High THEN [n |-> 3, char |-> <<text[3]>>]
  ELSE IF Len(text) >= 6 /\ text[4] = Backslash /\ text[5] = "u" /\ text[6] \in Low
  THEN [n |-> 6, char |-> <<text[3], text[6]>>]
  ELSE [n |-> 0, char |-> <<>>]

\* Reads to the next quote; None when there is none or an escape is not right.
RECURSIVE ReadString(_, _)
ReadString(text, out) ==
  LET From(n, char) == ReadString(SubSeq(text, n + 1, Len(text)), Append(out, char))
      unicode == UnicodeAt(text)
  IN  CASE text = <<>> -> None
        [] text # <<>> /\ Head(text) = Quote -> out
        [] text # <<>> /\ Head(text) = Backslash ->
             CASE Len(text) >= 2 /\ text[2] \in DOMAIN Unescaped -> From(2, <<Unescaped[text[2]]>>)
               [] Len(text) >= 2 /\ text[2] = "u" /\ unicode.n # 0 -> From(unicode.n, unicode.char)
               [] OTHER -> None
        [] OTHER -> From(1, <<Head(text)>>)

-----------------------------------------------------------------------------
(* The reference: documents are values that are written down               *)

\* Values: [text], [sign |-> "1"], [array |-> values], [object |-> <<key, value>>s].
Separated(parts) ==
  IF parts = <<>> THEN <<>>
  ELSE FoldLeft(LAMBDA all, part : all \o <<Sign(",")>> \o part, Head(parts), Tail(parts))

RECURSIVE Written(_)
Written(v) ==
  CASE "array" \in DOMAIN v ->
         <<Sign("[")>> \o Separated([i \in DOMAIN v.array |-> Written(v.array[i])]) \o <<Sign("]")>>
    [] "object" \in DOMAIN v ->
         LET Member(m) == <<Str(m[1]), Sign(":")>> \o Written(m[2])
         IN  <<Sign("{")>> \o Separated([i \in DOMAIN v.object |-> Member(v.object[i])])
               \o <<Sign("}")>>
    [] OTHER -> <<v>>

\* All keys and strings of a value under key, in order.
RECURSIVE VisitsOf(_, _)
VisitsOf(v, key) ==
  CASE "array" \in DOMAIN v -> FlattenSeq([i \in DOMAIN v.array |-> VisitsOf(v.array[i], key)])
    [] "object" \in DOMAIN v ->
         LET Member(m) == <<<<"Key", m[1]>>>> \o VisitsOf(m[2], m[1])
         IN  FlattenSeq([i \in DOMAIN v.object |-> Member(v.object[i])])
    [] IsText(v) -> <<<<"String", key, TextOf(v)>>>>
    [] OTHER -> <<>>

KeysOf(v) ==
  IF "object" \in DOMAIN v THEN [i \in DOMAIN v.object |-> v.object[i][1]] ELSE None

\* The keys of the first member of that name.
KeysOfMember(v, parent) ==
  IF KeysOf(v) = None THEN None
  ELSE LET i == SelectInSeq(v.object, LAMBDA m : m[1] = parent)
       IN  IF i = 0 THEN None ELSE KeysOf(v.object[i][2])

\* A document that is cut off gives the beginning of what it would have given
\* and no keys, and a whole one everything, under the right keys.
WalksRight(v, document) ==
  IF document = Written(v)
  THEN /\ Walk(document) = VisitsOf(v, None)
       /\ ObjectKeys(document, None) = KeysOf(v)
       /\ \A k \in String : ObjectKeys(document, k) = KeysOfMember(v, k)
  ELSE IsPrefix(document, Written(v)) =>
         IsPrefix(Walk(document), VisitsOf(v, None)) /\ ObjectKeys(document, None) = None

\* Ways to write a character, or half of one, of a text.
Form ==
  {<<c>> : c \in Plain \cup Unit} \cup {<<Backslash, c>> : c \in DOMAIN Unescaped}
    \cup {<<Backslash, "u", u>> : u \in Unit}

\* The half of a character that a form is, if it is one.
IsHalf(form, half) == Len(form) = 3 /\ form[3] \in half

\* Halves come in twos, and only then is there a text. Otherwise each form gives
\* its character, two halves give one.
StringReadsRight(forms) ==
  LET text == FlattenSeq(forms)
      paired == \A i \in DOMAIN forms :
                  /\ IsHalf(forms[i], High) => i < Len(forms) /\ IsHalf(forms[i + 1], Low)
                  /\ IsHalf(forms[i], Low) => i > 1 /\ IsHalf(forms[i - 1], High)
      CharOf(i) == CASE Len(forms[i]) = 1 -> forms[i]
                     [] Len(forms[i]) = 2 -> <<Unescaped[forms[i][2]]>>
                     [] IsHalf(forms[i], High) -> <<forms[i][3], forms[i + 1][3]>>
                     [] OTHER -> <<forms[i][3]>>
      places == SetToSortSeq({i \in DOMAIN forms : ~IsHalf(forms[i], Low)}, <)
  IN  /\ ReadString(text, <<>>) = None
      /\ ReadString(Append(text, Quote), <<>>) =
           IF paired THEN [k \in DOMAIN places |-> CharOf(places[k])] ELSE None
=============================================================================
