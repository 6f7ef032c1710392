---------------------------- MODULE HttpFieldBasics ----------------------------
(***************************************************************************)
(* helpers/http_field_parsers/basics.hpp: the producers that the parsers   *)
(* of the HTTP fields share.  Those written by hand as loops over the      *)
(* source (ows, token, quoted-string, quoted-pair and the two kinds of     *)
(* parameter names of Content-Disposition) are the cases of FieldTryParse; *)
(* the others are trees of easy_parser.                                    *)
(***************************************************************************)
EXTENDS EasyParser

CONSTANT NoValue        \* an empty optional_t, or a value that is not there

IsAlpha == Upper \cup Lower
IsAlphanum == IsAlpha \cup IsDigit
IsVchar == 33 .. 126
IsObsText == 128 .. 255
IsQdtext == {SP, HTAB, 33} \cup 35 .. 91 \cup 93 .. 126 \cup IsObsText
IsCtext == {SP, HTAB} \cup 33 .. 39 \cup 42 .. 91 \cup 93 .. 126 \cup IsObsText
IsTokenChar ==      \* letters, digits and ! # $ % & ' * + - . ^ _ ` | ~
    IsAlphanum \cup {33} \cup 35 .. 39 \cup {42, 43, 45, 46, 94, 95, 96, 124, 126}
IsQuotable == {SP, HTAB} \cup IsVchar \cup IsObsText

DQUOTE == 34
ASTERISK == 42
COMMA == 44
SLASH == 47
COLON == 58
SEMICOLON == 59
EQUALS == 61
BACKSLASH == 92

-------------------------------------------------------------------------------
(* The producers written by hand.                                          *)

\* The end of the run of characters of `set` that starts at pos.
RECURSIVE RunEnd(_, _, _)
RunEnd(src, pos, set) ==
    IF ~Eof(src, pos) /\ At(src, pos) \in set THEN RunEnd(src, pos + 1, set) ELSE pos

\* ows_producer_t::try_parse(): one space stands for all the spaces taken.
OwsTryParse(src, pos) ==
    LET end == RunEnd(src, pos, IsSpace)
    IN  Value(end, IF end > pos THEN SP ELSE NoValue)

\* token_producer_t::try_parse()
TokenTryParse(src, pos) ==
    LET end == RunEnd(src, pos, IsTokenChar)
    IN  IF end > pos THEN Value(end, SubSeq(src, pos + 1, end))
        ELSE Error(pos, IF Eof(src, pos) THEN "unexpected_eof" ELSE "unexpected_character")

\* A form of QuotedFrom in which the character after a backslash is looked
\* at again as an ordinary one.
RECURSIVE QuotedFrom(_, _, _, _)
QuotedFromRereads(src, start, pos, acc) ==
    IF Eof(src, pos) THEN Error(start, "unexpected_eof")
    ELSE IF At(src, pos) = DQUOTE THEN Value(pos + 1, acc)
    ELSE IF At(src, pos) = BACKSLASH THEN QuotedFrom(src, start, pos + 1, acc)
    ELSE IF At(src, pos) \in IsQdtext THEN QuotedFrom(src, start, pos + 1, Append(acc, At(src, pos)))
    ELSE Error(start, "unexpected_character")

\* quoted_string_producer_t::try_parse_value(): the text after the opening
\* quote; every failure gives all the characters back.
QuotedFrom(src, start, pos, acc) ==
    IF Eof(src, pos) THEN Error(start, "unexpected_eof")
    ELSE IF At(src, pos) = DQUOTE THEN Value(pos + 1, acc)
    ELSE IF At(src, pos) = BACKSLASH
         THEN IF Eof(src, pos + 1) THEN Error(start, "unexpected_eof")
              ELSE IF At(src, pos + 1) \in IsQuotable
                   THEN QuotedFrom(src, start, pos + 2, Append(acc, At(src, pos + 1)))
              ELSE Error(start, "unexpected_character")
    ELSE IF At(src, pos) \in IsQdtext THEN QuotedFrom(src, start, pos + 1, Append(acc, At(src, pos)))
    ELSE Error(start, "unexpected_character")

\* quoted_string_producer_t::try_parse()
QuotedStringTryParse(src, pos) ==
    IF Eof(src, pos) THEN Error(pos, "unexpected_eof")
    ELSE IF At(src, pos) = DQUOTE THEN QuotedFrom(src, pos, pos + 1, <<>>)
    ELSE Error(pos, "unexpected_character")

\* quoted_pair_producer_t::try_parse()
QuotedPairTryParse(src, pos) ==
    IF Eof(src, pos) THEN Error(pos, "unexpected_eof")
    ELSE IF At(src, pos) # BACKSLASH THEN Error(pos, "unexpected_character")
    ELSE IF Eof(src, pos + 1) THEN Error(pos, "unexpected_eof")
    ELSE IF At(src, pos + 1) \in IsQuotable THEN Value(pos + 2, At(src, pos + 1))
    ELSE Error(pos, "unexpected_character")

\* regular_token_producer_t and ext_token_producer_t of
\* content-disposition.hpp: a token without and with an asterisk at its end.
RegularTokenTryParse(src, pos) ==
    LET r == TokenTryParse(src, pos)
    IN  IF r.ok /\ r.val[Len(r.val)] = ASTERISK THEN Error(pos, "unexpected_character") ELSE r
ExtTokenTryParse(src, pos) ==
    LET r == TokenTryParse(src, pos)
    IN  IF r.ok /\ r.val[Len(r.val)] # ASTERISK THEN Error(pos, "pattern_not_found") ELSE r

FieldTryParse(p, src, pos) ==
    CASE p.name = "ows" -> OwsTryParse(src, pos)
      [] p.name = "token" -> TokenTryParse(src, pos)
      [] p.name = "quoted_string" -> QuotedStringTryParse(src, pos)
      [] p.name = "quoted_pair" -> QuotedPairTryParse(src, pos)
      [] p.name = "regular_token" -> RegularTokenTryParse(src, pos)
      [] p.name = "ext_token" -> ExtTokenTryParse(src, pos)

OwsP == CustomP("ows")
Ows == Consume(OwsP, Skip)
TokenP == CustomP("token")
QuotedStringP == CustomP("quoted_string")
QuotedPairP == CustomP("quoted_pair")
AlphaSymbolP == SymbolFromP(IsAlpha)
AlphanumSymbolP == SymbolFromP(IsAlphanum)
VcharSymbolP == SymbolFromP(IsVchar)
CtextSymbolP == SymbolFromP(IsCtext)

-------------------------------------------------------------------------------
(* comment_p(): comments nest; the text of an inner comment is joined to   *)
(* the text of the outer one without its parentheses.                      *)

CommentP == RuleP("comment")
CommentRule ==
    ProduceP(<<>>, <<Sequence(<<
        Symbol(40),
        Repeat(0, N, <<Alternatives(<<
            Consume(CtextSymbolP, ToContainer),
            Consume(QuotedPairP, ToContainer),
            Consume(CommentP, AppendText)>>)>>),
        Symbol(41)>>)>>)
FieldRules == [name \in {"comment"} |-> CommentRule]

-------------------------------------------------------------------------------
(* qvalue_p() and weight_p(): a weight in thousandths.                     *)

QvalueMaximum == 1000

\* A form of QvalueP that gives every digit the weight of the first one.
QvalueTenthsP ==
    LET digit(m, then) == Maybe(<<Consume(DigitP, AddScaled(100))>> \o then)
        zero(then) == Maybe(<<Symbol(48)>> \o then)
    IN  ProduceP(0, <<Alternatives(<<
            Sequence(<<Symbol(48),
                       Maybe(<<Symbol(46), digit(100, <<digit(10, <<digit(1, <<>>)>>)>>)>>)>>),
            Sequence(<<Consume(SymbolP(49), AddScaled(1000)),
                       Maybe(<<Symbol(46), zero(<<zero(<<zero(<<>>)>>)>>)>>)>>)>>)>>)

QvalueP ==
    LET digit(m, then) == Maybe(<<Consume(DigitP, AddScaled(m))>> \o then)
        zero(then) == Maybe(<<Symbol(48)>> \o then)
    IN  ProduceP(0, <<Alternatives(<<
            Sequence(<<Symbol(48),
                       Maybe(<<Symbol(46), digit(100, <<digit(10, <<digit(1, <<>>)>>)>>)>>)>>),
            Sequence(<<Consume(SymbolP(49), AddScaled(1000)),
                       Maybe(<<Symbol(46), zero(<<zero(<<zero(<<>>)>>)>>)>>)>>)>>)>>)

\* qvalue_t::make_char_array()
QvalueAsString(v) ==
    IF v = QvalueMaximum THEN <<49, 46, 48, 48, 48>>
    ELSE <<48, 46, 48 + v \div 100, 48 + (v % 100) \div 10, 48 + (v % 10)>>

WeightP ==
    ProduceP(0, <<Ows, Symbol(SEMICOLON), Ows, CaselessSymbol(113), Symbol(EQUALS),
                  Consume(QvalueP, AsResult)>>)

-------------------------------------------------------------------------------
(* The comma-separated lists of RFC 7230 and the parameters after ';'.     *)

\* *( OWS "," [ OWS element ] ), the tail of both kinds of lists.
ListTail(element) ==
    Repeat(0, N, <<Ows, Symbol(COMMA), Maybe(<<Ows, Consume(element, ToContainer)>>)>>)

\* non_empty_comma_separated_list_p()
NonEmptyListP(element) ==
    ProduceP(<<>>, <<Sequence(<<
        Repeat(0, N, <<Symbol(COMMA), Ows>>),
        Consume(element, ToContainer),
        ListTail(element)>>)>>)

\* maybe_empty_comma_separated_list_p()
MaybeEmptyListP(element) ==
    ProduceP(<<>>, <<Maybe(<<
        Alternatives(<<Symbol(COMMA), Consume(element, ToContainer)>>),
        ListTail(element)>>)>>)

TokenOrQuoted(field) ==
    Alternatives(<<Consume(TokenP, Setter(field)), Consume(QuotedStringP, Setter(field))>>)

\* params_with_value_p() and params_with_opt_value_p(): a parameter is the
\* pair of its name in lower case and its value.
ParamsWithValueP ==
    ProduceP(<<>>, <<Repeat(0, N, <<Consume(
        ProduceP([first |-> <<>>, second |-> <<>>], <<
            Ows, Symbol(SEMICOLON), Ows,
            Consume(TransformP(TokenP, ToLowerT), Setter("first")),
            Symbol(EQUALS), TokenOrQuoted("second")>>),
        ToContainer)>>)>>)
ParamsWithOptValueP ==
    ProduceP(<<>>, <<Repeat(0, N, <<Consume(
        ProduceP([first |-> <<>>, second |-> NoValue], <<
            Ows, Symbol(SEMICOLON), Ows,
            Consume(TransformP(TokenP, ToLowerT), Setter("first")),
            Maybe(<<Symbol(EQUALS), TokenOrQuoted("second")>>)>>),
        ToContainer)>>)>>)

\* find_first(): the value of the first parameter of that name, caseless.
FindFirst(params, name) ==
    LET at == {i \in 1 .. Len(params) : ToLower(params[i].first) = ToLower(name)}
    IN  IF at = {} THEN NoValue
        ELSE params[CHOOSE i \in at : \A j \in at : i <= j].second
===============================================================================
