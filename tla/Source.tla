------------------------------- MODULE Source -------------------------------
(***************************************************************************)
(* How calls and declarations are read from JavaScript without a parser:   *)
(* the scanning of literals, template expressions and brackets in          *)
(* src/src/source.rs, calls with their options in src/src/scan/shape.rs,   *)
(* and constants that URLs are put together from in                        *)
(* src/src/scan/clients.rs.                                                *)
(*                                                                         *)
(* A text is a sequence of tokens: quotes, brackets, a backslash, "${",    *)
(* other punctuation, and words. It begins after the anchor by which a     *)
(* call was found, or after the keyword of a declaration. Places are those *)
(* of sequences, and one beyond the last stands for the end.               *)
(***************************************************************************)
EXTENDS Naturals, SequencesExt, FiniteSetsExt

CONSTANTS
  None,
  Identifier,   \* words that may be names
  UrlWord       \* words that a URL may begin with: useful_binding

Backquote == "tick"   \* of templates
Quotes == {"\"", "'", Backquote}
Backslash == "\\"
Dollar == "${"
Space == " "
Dynamic == "{dynamic}"

Methods == {"GET", "POST", "PUT", "DELETE", "PATCH"}
Hints == {"body", "headers"}

At(text, i) == IF i \in DOMAIN text THEN text[i] ELSE None

SkipWs(text, i) == Min({j \in i..Len(text) + 1 : At(text, j) # Space})

-----------------------------------------------------------------------------
(* Literals                                                                *)

\* Behind the brace that ends a template expression. A backslash hides the
\* dollar of "${" and not its brace.
RECURSIVE SkipTemplateExpr(_, _, _)
SkipTemplateExpr(text, i, depth) ==
  CASE i > Len(text) \/ depth = 0 -> i
    [] i <= Len(text) /\ depth > 0 ->
         CASE text[i] \in {"{", Dollar} -> SkipTemplateExpr(text, i + 1, depth + 1)
           [] text[i] = "}" -> SkipTemplateExpr(text, i + 1, depth - 1)
           [] text[i] = Backslash /\ i < Len(text) ->
                SkipTemplateExpr(text, i + 2, IF text[i + 1] = Dollar THEN depth + 1 ELSE depth)
           [] OTHER -> SkipTemplateExpr(text, i + 1, depth)

\* One step through a literal: where it leads to, and what it adds.
Piece(text, i, replace) ==
  CASE text[i] = Backslash /\ i < Len(text) -> [next |-> i + 2, adds |-> <<text[i + 1]>>]
    [] text[i] = Dollar /\ replace ->
         [next |-> SkipTemplateExpr(text, i + 1, 1), adds |-> <<Dynamic>>]
    [] OTHER -> [next |-> i + 1, adds |-> <<text[i]>>]

\* The literal from i on: the place of the quote that ends it, and its text.
RECURSIVE Through(_, _, _, _, _)
Through(text, i, quote, replace, out) ==
  IF i > Len(text) \/ text[i] = quote THEN [end |-> i, value |-> out]
  ELSE LET p == Piece(text, i, replace) IN Through(text, p.next, quote, replace, out \o p.adds)

\* string_from_parts: without backslashes at its ends.
Trimmed(value) ==
  LET kept == {i \in DOMAIN value : value[i] # Backslash}
  IN  IF kept = {} THEN <<>> ELSE SubSeq(value, Min(kept), Max(kept))

\* Expressions are replaced in templates, unless they are to be preserved.
QuotedString(text, start, quote, replace) ==
  Trimmed(Through(text, start, quote, replace /\ quote = Backquote, <<>>).value)

\* Mutant: an expression ends with the literal.
QuotedArgEnd_NoExpr(text, start) ==
  LET i == SkipWs(text, start)
      end == Through(text, i + 1, text[i], FALSE, <<>>).end
  IN  IF At(text, i) \notin Quotes THEN None ELSE Min({end, Len(text)}) + 1

\* Behind the quote, or the end of what is there.
QuotedArgEnd(text, start) ==
  LET i == SkipWs(text, start)
      end == Through(text, i + 1, text[i], text[i] = Backquote, <<>>).end
  IN  IF At(text, i) \notin Quotes THEN None ELSE Min({end, Len(text)}) + 1

\* Expressions are not looked for.
QuotedEnd(text, start, quote) ==
  LET end == Through(text, start, quote, FALSE, <<>>).end
  IN  IF end <= Len(text) THEN end ELSE None

\* The bracket that closes the one at the beginning, past the literals.
RECURSIVE BalancedFrom(_, _, _)
BalancedFrom(text, i, depth) ==
  LET end == QuotedEnd(text, i + 1, text[i])
  IN  CASE At(text, i) = None -> None
        [] At(text, i) \in Quotes -> IF end = None THEN None ELSE BalancedFrom(text, end + 1, depth)
        [] At(text, i) \in {"{", Dollar, "[", "("} -> BalancedFrom(text, i + 1, depth + 1)
        [] At(text, i) \in {"}", "]", ")"} ->
             IF depth = 0 THEN None ELSE IF depth = 1 THEN i ELSE BalancedFrom(text, i + 1, depth - 1)
        [] OTHER -> BalancedFrom(text, i + 1, depth)

BalancedEnd(text, open) == BalancedFrom(text, open, 0)

-----------------------------------------------------------------------------
(* Calls: scan_call                                                        *)

IsDynamic(value) == IsPrefix(<<Dynamic>>, value)

\* The anchor may have been up to the quote.
UrlArg(text, start) ==
  LET i == IF start > 1 /\ At(text, start - 1) \in Quotes THEN start - 1 ELSE SkipWs(text, start)
      url == QuotedString(text, i + 1, text[i], TRUE)
  IN  IF At(text, i) \notin Quotes \/ IsDynamic(url) THEN None ELSE url

Pass(text, i, tokens) == IF At(text, i) \in tokens THEN i + 1 ELSE i

\* The word after "method": a colon and a quote may be before it.
ParseMethod(text, i) ==
  LET colon == Pass(text, SkipWs(text, i), {":"})
      word == Pass(text, SkipWs(text, colon), Quotes)
  IN  {At(text, word)} \cap Methods

\* Wherever they are in the options.
ShapeFromObject(text) ==
  [methods |-> UNION {ParseMethod(text, i + 1) : i \in {j \in DOMAIN text : text[j] = "method"}},
   flags |-> Range(text) \cap Hints]

NoShape == [methods |-> {}, flags |-> {}]

\* Where the second argument of a call begins, None without one.
SecondArg(text) ==
  LET end == QuotedArgEnd(text, 1)
      comma == SkipWs(text, end)
  IN  IF end = None \/ At(text, comma) # "," THEN None ELSE SkipWs(text, comma + 1)

ApplyFetchOptionsShape(text) ==
  LET open == SecondArg(text)
      end == BalancedEnd(text, open)
  IN  IF open = None \/ At(text, open) # "{" \/ end = None THEN NoShape
      ELSE ShapeFromObject(SubSeq(text, open, end))

ApplySecondArgBodyShape(text, hint) ==
  LET second == SecondArg(text)
  IN  IF second = None \/ At(text, second) \in {None, ")"} THEN [methods |-> hint, flags |-> {}]
      ELSE [methods |-> hint,
            flags |-> IF text[second] = "{" THEN {"body", "json"} ELSE {"body"}]

MethodHint(anchor) ==
  CASE anchor = "axios.post(" -> {"POST"}
    [] anchor = "axios.get(" -> {"GET"}
    [] anchor = "fetch(" -> {}

ScanCall(text, anchor) ==
  CASE anchor = "fetch(" -> ApplyFetchOptionsShape(text)
    [] anchor = "axios.post(" -> ApplySecondArgBodyShape(text, MethodHint(anchor))
    [] anchor = "axios.get(" -> [methods |-> MethodHint(anchor), flags |-> {}]

\* A call without a method is a GET.
OnApiCall(text, anchor) ==
  LET shape == ScanCall(text, anchor)
  IN  IF UrlArg(text, 1) = None THEN None
      ELSE [url |-> UrlArg(text, 1),
            methods |-> IF shape.methods = {} THEN {"GET"} ELSE shape.methods,
            flags |-> shape.flags]

-----------------------------------------------------------------------------
(* Constants that URLs are put together from                               *)

\* The name that an expression from i up to its brace consists of, or None.
NameOf(text, i, end) ==
  LET name == SkipWs(text, i)
  IN  IF At(text, name) \in Identifier /\ SkipWs(text, name + 1) = end - 1 THEN text[name] ELSE None

RECURSIVE TemplateWithBindings(_, _, _, _)
TemplateWithBindings(text, i, bindings, out) ==
  IF i > Len(text) \/ text[i] = Backquote THEN out
  ELSE LET p == Piece(text, i, TRUE)
           name == NameOf(text, i + 1, p.next)
       IN  TemplateWithBindings(text, p.next, bindings,
             out \o (IF text[i] = Dollar /\ name \in DOMAIN bindings THEN bindings[name] ELSE p.adds))

\* Literals and names that are known, with plus signs between them.
RECURSIVE StaticFrom(_, _, _, _)
StaticFrom(text, start, bindings, out) ==
  LET i == SkipWs(text, start)
      end == QuotedEnd(text, i + 1, text[i])
      part == IF text[i] = Backquote THEN TemplateWithBindings(text, i + 1, bindings, <<>>)
              ELSE QuotedString(text, i + 1, text[i], FALSE)
      Done(value, place) ==
        IF value = None \/ IsDynamic(value) THEN None ELSE [value |-> value, end |-> place]
      After(value, place) ==
        LET plus == SkipWs(text, place)
            all == IF out = None THEN value ELSE out \o value
        IN  IF At(text, plus) = "+" /\ plus < Len(text) THEN StaticFrom(text, plus + 1, bindings, all)
            ELSE Done(all, Pass(text, plus, {"+"}))
  IN  CASE At(text, i) = None -> None
        [] At(text, i) \in Quotes -> IF end = None THEN None ELSE After(part, end + 1)
        [] At(text, i) \in Identifier ->
             IF text[i] \in DOMAIN bindings THEN After(bindings[text[i]], i + 1) ELSE None
        [] OTHER -> Done(out, i)

StaticStringExpr(text, start, bindings) == StaticFrom(text, start, bindings, None)

UsefulBinding(value) == value # <<>> /\ Head(value) \in UrlWord

\* Names and their values, until one is not known or the list ends.
RECURSIVE CollectDeclBindings(_, _, _)
CollectDeclBindings(text, start, bindings) ==
  LET i == SkipWs(text, start)
      equals == SkipWs(text, i + 1)
      expr == StaticStringExpr(text, equals + 1, bindings)
      known == IF UsefulBinding(expr.value)
               THEN [n \in DOMAIN bindings \cup {text[i]} |->
                       IF n = text[i] THEN expr.value ELSE bindings[n]]
               ELSE bindings
      next == SkipWs(text, expr.end)
  IN  IF At(text, i) \notin Identifier \/ At(text, equals) # "=" \/ expr = None THEN bindings
      ELSE IF At(text, next) = "," THEN CollectDeclBindings(text, next + 1, known)
      ELSE known

FirstArgUrl(text, bindings) ==
  IF UrlArg(text, 1) # None THEN UrlArg(text, 1)
  ELSE LET expr == StaticStringExpr(text, 1, bindings)
       IN  IF expr = None THEN None ELSE expr.value

-----------------------------------------------------------------------------
(* The reference: what was written                                         *)

\* A piece of a literal: how it is written, what it is, and the name it stands
\* for when it is an expression that consists of one.
Plain(word) == [as |-> <<word>>, is |-> <<word>>, name |-> None]
Escaped(token) == [as |-> <<Backslash, token>>, is |-> <<token>>, name |-> None]
Expr(tokens, name) ==
  [as |-> <<Dollar>> \o tokens \o <<"}">>, is |-> <<Dynamic>>, name |-> name]

LiteralText(l) ==
  <<l.quote>> \o FlattenSeq([i \in DOMAIN l.pieces |-> l.pieces[i].as]) \o <<l.quote>>

LiteralValue(l) == Trimmed(FlattenSeq([i \in DOMAIN l.pieces |-> l.pieces[i].is]))

\* A call is an anchor, a literal and options, which say what is in them.
CallText(call) ==
  LiteralText(call.literal)
    \o (IF call.options.text = <<>> THEN <<>> ELSE <<",">> \o call.options.text) \o <<")">>

CallMethods(call) ==
  IF call.anchor # "fetch(" THEN MethodHint(call.anchor)
  ELSE IF call.options.methods = {} THEN {"GET"} ELSE call.options.methods

CallFlags(call) ==
  CASE call.anchor = "fetch(" -> call.options.flags
    [] call.anchor = "axios.post(" /\ call.options.text # <<>> -> {"body", "json"}
    [] OTHER -> {}

\* The place is within quotes, where expressions of templates are not told from
\* their text.
Within(text, i) ==
  FoldLeft(LAMBDA open, t : CASE open = None /\ t \in Quotes -> t
                              [] open = t -> None
                              [] OTHER -> open,
           None, SubSeq(text, 1, i - 1)) # None

\* Where the passes over a text agree with JavaScript. skip_template_expr takes
\* braces in strings for those of the expression; quoted_end takes a backquote in
\* an expression for the end of the template; shape_from_object finds the names
\* of options anywhere, and a method only if its name is not quoted.
ExpressionsAreRead(pieces) ==
  \A piece \in Range(pieces) : Head(piece.as) = Dollar =>
    \A i \in DOMAIN piece.as : piece.as[i] \in {"{", "}"} => ~Within(piece.as, i)

OptionsAreRead(text) ==
  \A i \in DOMAIN text :
    /\ text[i] \in Hints \cup {"method"} => ~Within(text, i)
    /\ text[i] = Dollar =>
         \E k \in i..Len(text) : text[k] = "}" /\ Backquote \notin Range(SubSeq(text, i, k))

IsReadable(call) ==
  /\ ExpressionsAreRead(call.literal.pieces)
  /\ call.anchor = "fetch(" => OptionsAreRead(call.options.text)

\* What is read is right, as far as what is written is there.
ReadsAs(got, url, methods, flags, hasUrl, hasOptions) ==
  /\ hasUrl => IF IsDynamic(url) THEN got = None ELSE got # None /\ got.url = url
  /\ got # None =>
       /\ IsPrefix(got.url, url) /\ got.flags \subseteq flags /\ got.methods \in {{"GET"}, methods}
       /\ hasOptions => got.methods = methods /\ got.flags = flags

\* A call whose URL is one literal is read with that URL as soon as it is there,
\* and with the method and the hints of its own options, and no others, when
\* these are there. From one that is cut off before comes a beginning of its URL,
\* none but its hints, and its method or, in its place, the GET of a call that
\* names none.
CallReadsRight(call, text) ==
  IsReadable(call) =>
    ReadsAs(OnApiCall(text, call.anchor),
            LiteralValue(call.literal), CallMethods(call), CallFlags(call),
            Len(text) >= Len(LiteralText(call.literal)), Len(text) >= Len(CallText(call)) - 1)

\* A declaration is a name and terms: literals, and names without quotes.
NameTerm(n) == [quote |-> None, pieces |-> <<[as |-> <<n>>, is |-> <<n>>, name |-> n]>>]

IsName(term) == term.quote = None
NameIn(term) == term.pieces[1].name

TermText(term) == IF IsName(term) THEN <<NameIn(term)>> ELSE LiteralText(term)

ExprText(terms) ==
  FoldLeft(LAMBDA text, term : text \o <<"+">> \o TermText(term),
           TermText(Head(terms)), Tail(terms))

DeclText(decls) ==
  LET One(d) == <<d.name, "=">> \o ExprText(d.terms)
  IN  FoldLeft(LAMBDA text, d : text \o <<",", Space>> \o One(d), One(Head(decls)), Tail(decls))
        \o <<";">>

PieceValue(piece, known) == IF piece.name \in DOMAIN known THEN known[piece.name] ELSE piece.is

TermValue(term, known) ==
  CASE IsName(term) -> known[NameIn(term)]
    [] ~IsName(term) /\ term.quote = Backquote ->
         FlattenSeq([i \in DOMAIN term.pieces |-> PieceValue(term.pieces[i], known)])
    [] OTHER -> LiteralValue(term)

\* The value of an expression, None when a name in it is not known or nobody
\* knows how it begins.
ExprValue(terms, known) ==
  LET value == FlattenSeq([i \in DOMAIN terms |-> TermValue(terms[i], known)])
  IN  IF \E t \in Range(terms) : IsName(t) /\ NameIn(t) \notin DOMAIN known THEN None
      ELSE IF IsDynamic(value) THEN None ELSE value

\* What is known after the first n declarations, as long as each has a value.
RECURSIVE KnownAfter(_, _)
KnownAfter(decls, n) ==
  IF n = 0 THEN << >>
  ELSE LET known == KnownAfter(decls, n - 1)
           value == ExprValue(decls[n].terms, known)
       IN  IF value = None \/ ~UsefulBinding(value) THEN known
           ELSE [m \in DOMAIN known \cup {decls[n].name} |->
                   IF m = decls[n].name THEN value ELSE known[m]]

\* static_string_expr looks for the end of a template with quoted_end, and for
\* its value with skip_template_expr.
TermIsRead(term) ==
  /\ ExpressionsAreRead(term.pieces)
  /\ \A piece \in Range(term.pieces) : Head(piece.as) = Dollar => Backquote \notin Range(piece.as)

\* Names are known by what was declared, in order, up to the first that cannot
\* be known; an argument that begins with a name has the value of its expression.
DeclarationsReadRight(decls) ==
  LET unknown == {i \in DOMAIN decls : ExprValue(decls[i].terms, KnownAfter(decls, i - 1)) = None}
      known == KnownAfter(decls, Min({i - 1 : i \in unknown} \cup {Len(decls)}))
  IN  (\A d \in Range(decls) : \A term \in Range(d.terms) : TermIsRead(term)) =>
        /\ CollectDeclBindings(DeclText(decls), 1, << >>) = known
        /\ \A d \in Range(decls) : IsName(d.terms[1]) =>
             FirstArgUrl(ExprText(d.terms) \o <<")">>, known) = ExprValue(d.terms, known)
=============================================================================
