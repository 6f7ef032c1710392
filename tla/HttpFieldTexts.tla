---------------------------- MODULE HttpFieldTexts ----------------------------
(***************************************************************************)
(* What the parsers of the HTTP fields promise.  The subject of a text is  *)
(* the field.  The parsers are compared with the ABNF that the comments of *)
(* the code give for the fields, read as a grammar (every way to derive a  *)
(* text counts, Ends), and the parsed values with definitions that look    *)
(* only at the text: where its commas are, what stands between two of      *)
(* them.                                                                   *)
(***************************************************************************)
EXTENDS HttpFields, Texts, SequencesExt

-------------------------------------------------------------------------------
(* Grammars: `in` is a character of a set, `seq` and `alt` are lists of    *)
(* grammars, `star` repeats, `not` looks ahead, `ref` names a rule.        *)

In(set) == [t |-> "in", set |-> set]
Ch(c) == In({c})
Seq2(gs) == [t |-> "seq", gs |-> gs]
Alt(gs) == [t |-> "alt", gs |-> gs]
Star(g) == [t |-> "star", g |-> g]
Not(g) == [t |-> "not", g |-> g]
Opt(g) == Alt(<<Seq2(<<>>), g>>)
Plus(g) == Seq2(<<g, Star(g)>>)
Word(w) == Seq2([i \in DOMAIN w |-> Ch(w[i])])
CaselessWord(w) == Seq2([i \in DOMAIN w |-> In({w[i], w[i] - 32})])
Count(min, max, g) == [t |-> "count", min |-> min, max |-> max, g |-> g]

OWS == Star(In(IsSpace))
TOKEN == Plus(In(IsTokenChar))
QUOTED == Seq2(<<Ch(DQUOTE),
                 Star(Alt(<<In(IsQdtext), Seq2(<<Ch(BACKSLASH), In(IsQuotable)>>)>>)),
                 Ch(DQUOTE)>>)
COMMENT == [t |-> "ref"]
CommentBody ==
    Seq2(<<Ch(40),
           Star(Alt(<<In(IsCtext), Seq2(<<Ch(BACKSLASH), In(IsQuotable)>>), COMMENT>>)),
           Ch(41)>>)

\* The positions at which a derivation from g that starts at i may end.
RECURSIVE Ends(_, _, _), SeqEnds(_, _, _), StarEnds(_, _, _), CountEnds(_, _, _, _)
Ends(g, s, i) ==
    CASE g.t = "in" -> IF i < Len(s) /\ s[i + 1] \in g.set THEN {i + 1} ELSE {}
      [] g.t = "seq" -> SeqEnds(g.gs, s, {i})
      [] g.t = "alt" -> UNION {Ends(g.gs[k], s, i) : k \in DOMAIN g.gs}
      [] g.t = "star" -> StarEnds(g.g, s, {i})
      [] g.t = "not" -> IF Ends(g.g, s, i) = {} THEN {i} ELSE {}
      [] g.t = "ref" -> Ends(CommentBody, s, i)
      [] g.t = "count" -> CountEnds(g, s, {i}, 0)

SeqEnds(gs, s, from) ==
    IF gs = <<>> \/ from = {} THEN from
    ELSE SeqEnds(Tail(gs), s, UNION {Ends(Head(gs), s, i) : i \in from})

StarEnds(g, s, from) ==
    LET more == from \cup UNION {Ends(g, s, i) : i \in from}
    IN  IF more = from THEN from ELSE StarEnds(g, s, more)

CountEnds(g, s, from, n) ==
    LET here == IF n >= g.min THEN from ELSE {}
    IN  IF n = g.max \/ from = {} THEN here
        ELSE here \cup CountEnds(g, s, UNION {Ends(g.g, s, i) : i \in from}, n + 1)

Derives(g, s) == Len(s) \in Ends(g, s, 0)

-------------------------------------------------------------------------------
(* The ABNF of the fields.                                                 *)

LIST_TAIL(g) == Star(Seq2(<<OWS, Ch(COMMA), Opt(Seq2(<<OWS, g>>))>>))
LIST1(g) == Seq2(<<Star(Seq2(<<Ch(COMMA), OWS>>)), g, LIST_TAIL(g)>>)
LIST0(g) == Opt(Seq2(<<Alt(<<Ch(COMMA), g>>), LIST_TAIL(g)>>))

QVALUE == Alt(<<Seq2(<<Ch(48), Opt(Seq2(<<Ch(46), Count(0, 3, In(IsDigit))>>))>>),
                Seq2(<<Ch(49), Opt(Seq2(<<Ch(46), Count(0, 3, Ch(48))>>))>>)>>)
WEIGHT == Seq2(<<OWS, Ch(SEMICOLON), OWS, In({81, 113}), Ch(EQUALS), QVALUE>>)
TOKEN_OR_QUOTED == Alt(<<TOKEN, QUOTED>>)
PARAM == Seq2(<<OWS, Ch(SEMICOLON), OWS, TOKEN, Ch(EQUALS), TOKEN_OR_QUOTED>>)
OPT_PARAM ==
    Seq2(<<OWS, Ch(SEMICOLON), OWS, TOKEN, Opt(Seq2(<<Ch(EQUALS), TOKEN_OR_QUOTED>>))>>)
MEDIA_TYPE(params) == Seq2(<<TOKEN, Ch(SLASH), TOKEN, params>>)
LANGUAGE_TAG ==
    Seq2(<<Count(1, 8, In(IsAlpha)), Star(Seq2(<<Ch(45), Count(1, 8, In(IsAlphanum))>>))>>)
PRODUCT == Seq2(<<TOKEN, Opt(Seq2(<<Ch(SLASH), TOKEN>>))>>)
POS == Plus(In(IsDigit))
EXT_VALUE ==
    Seq2(<<Plus(In(MimeCharsetc)), Ch(APOSTROPHE), Star(In(LanguageChar)), Ch(APOSTROPHE),
           Star(Alt(<<In(AttrChar), Seq2(<<Ch(37), In(IsHexdigit), In(IsHexdigit)>>)>>))>>)
TOKEN68 == Seq2(<<Plus(In(Token68Char)), Star(Ch(EQUALS))>>)
AUTH_PARAM == Seq2(<<TOKEN, OWS, Ch(EQUALS), OWS, TOKEN_OR_QUOTED>>)

Grammar(s) ==
    CASE s = "accept_charset" -> LIST1(Seq2(<<TOKEN, Opt(WEIGHT)>>))
      [] s = "content_encoding" -> LIST1(TOKEN)
      [] s = "accept_encoding" -> LIST0(Seq2(<<TOKEN, Opt(WEIGHT)>>))
      [] s = "accept_language" ->
            LIST1(Seq2(<<Alt(<<Ch(ASTERISK), LANGUAGE_TAG>>), Opt(WEIGHT)>>))
      [] s = "content_type" -> MEDIA_TYPE(Star(PARAM))
      [] s = "accept" ->
            LIST0(Seq2(<<MEDIA_TYPE(Star(Seq2(<<Not(WEIGHT), PARAM>>))),
                         Opt(Seq2(<<WEIGHT, Star(OPT_PARAM)>>))>>))
      [] s = "cache_control" ->
            LIST1(Seq2(<<TOKEN, Opt(Seq2(<<Ch(EQUALS), TOKEN_OR_QUOTED>>))>>))
      [] s = "user_agent" ->
            Seq2(<<PRODUCT,
                   Star(Seq2(<<In(IsSpace), OWS, Alt(<<PRODUCT, COMMENT>>)>>))>>)
      [] s = "range" ->
            Alt(<<Seq2(<<Word(BYTES), Ch(EQUALS),
                         LIST1(Alt(<<Seq2(<<POS, Ch(45), Opt(POS)>>), Seq2(<<Ch(45), POS>>)>>))>>),
                  Seq2(<<Not(Seq2(<<Word(BYTES), Ch(EQUALS)>>)),
                         TOKEN, Ch(EQUALS), Plus(In(IsVchar))>>)>>)
      [] s = "content_disposition" ->
            Seq2(<<TOKEN,
                   Star(Seq2(<<OWS, Ch(SEMICOLON), OWS,
                       Alt(<<Seq2(<<Star(In(IsTokenChar)), In(IsTokenChar \ {ASTERISK}),
                                    Ch(EQUALS), TOKEN_OR_QUOTED>>),
                             Seq2(<<Star(In(IsTokenChar)), Ch(ASTERISK), Ch(EQUALS),
                                    EXT_VALUE>>)>>)>>))>>)
      [] s = "authorization" ->
            Seq2(<<TOKEN,
                   Opt(Seq2(<<Plus(In(IsSpace)),
                              Alt(<<TOKEN68, LIST0(AUTH_PARAM)>>)>>))>>)

FieldSubjects ==
    {"accept_charset", "accept_encoding", "accept_language", "content_encoding",
     "content_type", "accept",
     "cache_control", "user_agent", "range", "content_disposition", "authorization"}

Parser(s) ==
    CASE s = "accept_charset" -> AcceptCharsetP
      [] s = "content_encoding" -> ContentEncodingP
      [] s = "accept_encoding" -> AcceptEncodingP
      [] s = "accept_language" -> AcceptLanguageP
      [] s = "content_type" -> ContentTypeP
      [] s = "accept" -> AcceptP
      [] s = "cache_control" -> CacheControlP
      [] s = "user_agent" -> UserAgentP
      [] s = "range" -> RangeP
      [] s = "content_disposition" -> ContentDispositionP
      [] s = "authorization" -> AuthorizationP

\* What try_parse_field() returns for a request that has the field, or that
\* does not have it as long as the text has no chunk; no default is given.
Parsed == TryParseField(IF chunks = 0 THEN NoValue ELSE text, <<>>, Parser(subject))

-------------------------------------------------------------------------------
(* What the text says, without a parser: it is cut at separators outside   *)
(* of quoted strings, and the pieces are trimmed.                          *)

CutStep(acc, c, sep) ==
    CASE acc.mode = "out" /\ c = sep ->
            [acc EXCEPT !.done = Append(@, acc.cur), !.cur = <<>>]
      [] acc.mode = "out" /\ c = DQUOTE ->
            [acc EXCEPT !.cur = Append(@, c), !.mode = "in"]
      [] acc.mode = "in" /\ c = DQUOTE ->
            [acc EXCEPT !.cur = Append(@, c), !.mode = "out"]
      [] acc.mode = "in" /\ c = BACKSLASH ->
            [acc EXCEPT !.cur = Append(@, c), !.mode = "escape"]
      [] acc.mode = "escape" -> [acc EXCEPT !.cur = Append(@, c), !.mode = "in"]
      [] OTHER -> [acc EXCEPT !.cur = Append(@, c)]

Trim(s) ==
    LET kept == {i \in DOMAIN s : s[i] \notin IsSpace}
    IN  IF kept = {} THEN <<>>
        ELSE SubSeq(s, CHOOSE i \in kept : \A j \in kept : i <= j,
                       CHOOSE i \in kept : \A j \in kept : i >= j)

Mapped(Op(_), s) == [k \in DOMAIN s |-> Op(s[k])]
AllPieces(r) == Mapped(Trim, Append(r.done, r.cur))
Pieces(s, sep) ==
    AllPieces(FoldLeft(LAMBDA acc, c : CutStep(acc, c, sep),
                       [done |-> <<>>, cur |-> <<>>, mode |-> "out"], s))

Items(s) == SelectSeq(Pieces(s, COMMA), LAMBDA p : p # <<>>)

Unquoted(s) ==
    IF s = <<>> \/ s[1] # DQUOTE THEN s
    ELSE FoldLeft(LAMBDA acc, c :
                      IF c = BACKSLASH /\ ~acc.escape THEN [acc EXCEPT !.escape = TRUE]
                      ELSE [out |-> Append(acc.out, c), escape |-> FALSE],
                  [out |-> <<>>, escape |-> FALSE], SubSeq(s, 2, Len(s) - 1)).out

Numeral(s) == FoldLeft(LAMBDA acc, c : acc * 10 + c - 48, 0, s)

Thousandths(w) ==
    LET digit(i) == IF i <= Len(w) THEN w[i] - 48 ELSE 0
    IN  digit(1) * 1000 + digit(3) * 100 + digit(4) * 10 + digit(5)

\* name "=" value, or a name alone.
PairOf(at) ==
    [first |-> ToLower(at[1]), second |-> IF Len(at) = 1 THEN NoValue ELSE Unquoted(at[2])]
Pair(piece) == PairOf(Pieces(piece, EQUALS))

IsWeight(piece) == Derives(Seq2(<<In({81, 113}), Ch(EQUALS), QVALUE>>), piece)

WeightedOf(parts) ==
    [name |-> parts[1],
     weight |-> IF Len(parts) = 1 THEN QvalueMaximum
                ELSE Thousandths(SubSeq(parts[2], 3, Len(parts[2])))]
Weighted(item) == WeightedOf(Pieces(item, SEMICOLON))

MediaType(at, params) ==
    [type |-> ToLower(at[1]), subtype |-> ToLower(at[2]), parameters |-> Mapped(Pair, params)]

\* The parameters before the first weight belong to the media type, those
\* after it are the accept-params.
MediaRangeOf(parts, w) ==
    [media_type |-> MediaType(Pieces(parts[1], SLASH), SubSeq(parts, 2, w - 1)),
     weight |-> IF w > Len(parts) THEN NoValue
                ELSE Thousandths(SubSeq(parts[w], 3, Len(parts[w]))),
     accept_params |-> Mapped(Pair, SubSeq(parts, w + 1, Len(parts)))]
FirstWeight(parts) == Min({k \in 2 .. Len(parts) : IsWeight(parts[k])} \cup {Len(parts) + 1})
MediaRangeAt(parts) == MediaRangeOf(parts, FirstWeight(parts))
MediaRange(item) == MediaRangeAt(Pieces(item, SEMICOLON))

ByteRangeOf(at) ==
    CASE at[1] = <<>> -> [length |-> Numeral(at[2])]
      [] at[2] = <<>> -> [first |-> Numeral(at[1])]
      [] OTHER -> [first |-> Numeral(at[1]), last |-> Numeral(at[2])]
ByteRange(item) == ByteRangeOf(Pieces(item, 45))

-------------------------------------------------------------------------------
(* The properties.                                                         *)

\* A parser accepts exactly the texts that the ABNF in its comments derives:
\* no alternative, optional part or repetition that was tried and failed
\* keeps a character that another derivation needs, and a text that only
\* starts like a field value is refused as a whole.
AcceptanceExact ==
    subject \in FieldSubjects =>
        (Parsed.ok <=> chunks > 0 /\ Derives(Grammar(subject), RemoveTrailingSpaces(text)))

\* The elements of Accept-Charset, Accept-Encoding, Accept-Language and
\* Content-Encoding are the non-empty pieces between the commas, in order,
\* the first three with the weight that stands behind them; an element
\* without a weight has the greatest one.  Names of charsets and codings are
\* in lower case.  The text that a weight is printed as parses to the same
\* weight.
WeightedListExact(r) ==
    LET charsets == subject \in {"accept_charset", "accept_encoding"}
    IN  /\ charsets =>
              (r.ok => /\ r.val = Mapped(LAMBDA i : [Weighted(i) EXCEPT !.name = ToLower(@)],
                                         Items(text))
                       /\ \A k \in DOMAIN r.val :
                              ParseAll(QvalueAsString(r.val[k].weight), QvalueP).val
                                  = r.val[k].weight)
        /\ subject = "accept_language" => (r.ok => r.val = Mapped(Weighted, Items(text)))
        /\ subject = "content_encoding" => (r.ok => r.val = Mapped(ToLower, Items(text)))

\* The first weight of an Accept element divides its parameters: those before
\* it belong to the media type, those behind it are extensions.
AcceptExact(r) == subject = "accept" => (r.ok => r.val = Mapped(MediaRange, Items(text)))

\* The directives of Cache-Control and the parameters of Content-Type hold
\* the names in lower case and the values with their quotes and backslashes
\* removed, and a look-up by a name in any case gives the first of its values.
ParametersExact(r) ==
    LET params == r.val.media_type.parameters
        pairs == Mapped(Pair, Tail(Pieces(text, SEMICOLON)))
    IN  /\ subject = "cache_control" => (r.ok => r.val = Mapped(Pair, Items(text)))
        /\ subject = "content_type" =>
              (r.ok => /\ params = pairs
                       /\ \A k \in DOMAIN pairs :
                              (\A j \in 1 .. k - 1 : pairs[j].first # pairs[k].first) =>
                                  FindFirst(params, pairs[k].first) = pairs[k].second)

\* A Range value that starts with "bytes=" holds the byte ranges of its
\* pieces, and is never taken for a range of another unit when one of them
\* is malformed (force_only_this_alternative).
RangeExact(r) ==
    subject = "range" /\ IsPrefix(Append(BYTES, EQUALS), text) =>
        (r.ok => r.val.value = [ranges |-> Mapped(ByteRange, Items(SubSeq(text, 7, Len(text))))])

\* The accumulator of a number "will be changed only if there is no overflow":
\* a byte range that is accepted has the numbers that its text spells.
AcceptedNumbersExact == RangeExact(Parsed)

BearerIs(bearer) ==
    LET given == "token" \in DOMAIN bearer /\ bearer.token # <<>>
    IN  /\ given <=> Derives(Seq2(<<CaselessWord(BEARER), Plus(In(IsSpace)), TOKEN68>>),
                             RemoveTrailingSpaces(text))
        /\ given => bearer.token = Trim(SubSeq(text, Len(BEARER) + 1, Len(text)))

\* try_extract_params of basic_auth gives back the user name (the text before
\* the first colon, not empty) and the password that a client has encoded;
\* that of bearer_auth gives a token that is not empty exactly for the scheme
\* in any case, spaces and a token68, and it is that token68.  (For the scheme
\* alone the code returns an empty token.)
CredentialsExact ==
    /\ subject = "basic" =>
          LET colons == {i \in DOMAIN text : text[i] = COLON}
              at == CHOOSE i \in colons : \A j \in colons : i <= j
          IN  BasicAuth(BASIC \o <<SP>> \o Encode(text)) =
                  CASE text = <<>> -> [error |-> "token68_decode_error"]
                    [] text # <<>> /\ colons = {} -> [error |-> "invalid_username_password_pair"]
                    [] colons # {} /\ at = 1 -> [error |-> "empty_username"]
                    [] colons # {} /\ at > 1 ->
                          [username |-> SubSeq(text, 1, at - 1),
                           password |-> SubSeq(text, at + 1, Len(text))]
    /\ subject = "authorization" =>
          BearerIs(BearerAuth(IF chunks = 0 THEN NoValue ELSE text))

-------------------------------------------------------------------------------
(* easy_parser itself, on texts of digits and signs.                       *)

Digit(c) == IF c \in IsDigit THEN c - 48 ELSE 10 + ToLowerChar(c) - 97
Magnitude(s, base) == FoldLeft(LAMBDA acc, c : acc * base + Digit(c), 0, s)

\* The number producers read every number of their type, up to the least and
\* the greatest one, as its value, whatever the zeros before it; the limit of
\* the digits of a hexadecimal number holds at both ends.  (That they refuse
\* every other number is AcceptedNumbersExact.)
RepresentableNumbersRead ==
    subject = "number" /\ text # <<>> =>
        LET sign == text[1] \in {43, 45}
            digits == IF sign THEN Tail(text) ELSE text
            all(set) == digits # <<>> /\ \A i \in DOMAIN digits : digits[i] \in set
            value == (IF text[1] = 45 THEN -1 ELSE 1) * Magnitude(digits, 10)
            decimal == ParseAll(text, DecimalNumberP(Int8))
            hex == ParseAll(text, HexadecimalNumberP(UInt8, 2, 3))
        IN  /\ all(IsDigit) /\ value \in TypeMin(Int8) .. TypeMax(Int8) =>
                   decimal.ok /\ decimal.val = value
            /\ decimal.ok => all(IsDigit)
            /\ ~sign /\ all(IsHexdigit) /\ Magnitude(digits, 16) <= TypeMax(UInt8) =>
                   /\ hex.ok <=> Len(digits) \in 2 .. 3
                   /\ hex.ok => hex.val = Magnitude(digits, 16)

\* The clauses that try something out leave no trace of it in the input:
\* and_clause() is the opposite of not_clause() and neither takes a
\* character, maybe() is an alternative between its clauses and nothing, and
\* repeat(0, 1) stops where maybe() stops.
TriedClausesLeaveInput ==
    subject = "number" =>
        LET cs == <<Consume(DigitP, ToContainer), Symbol(45), Consume(DigitP, ToContainer)>>
            run(c) == TryProcess(c, text, 0, <<>>)
            fits == run(Sequence(cs))
        IN  /\ run(AndClause(cs)).ok = fits.ok
            /\ run(NotClause(cs)).ok = ~fits.ok
            /\ run(AndClause(cs)).pos = 0 /\ run(NotClause(cs)).pos = 0
            /\ ~fits.ok => fits.pos = 0
            /\ run(Maybe(cs)) = run(Alternatives(<<Sequence(cs), Sequence(<<>>)>>))
            /\ run(Repeat(0, 1, cs)).pos = run(Maybe(cs)).pos

\* The combinators of easy_parser try, give back and take input so that each
\* field parser accepts exactly the texts of its grammar.
GrammarExact == AcceptanceExact /\ TriedClausesLeaveInput

ValuesExact(r) == WeightedListExact(r) /\ AcceptExact(r) /\ ParametersExact(r) /\ RangeExact(r)

\* What a field parser delivers for a text it accepts: the elements, weights,
\* parameters, byte ranges and credentials that the text spells.
FieldValuesExact == ValuesExact(Parsed) /\ CredentialsExact
===============================================================================
