------------------------------ MODULE HttpFields ------------------------------
(***************************************************************************)
(* The parsers of the HTTP fields (helpers/http_field_parsers): one        *)
(* producer for every make_parser(), the two authentication helpers and    *)
(* try_parse_field().                                                      *)
(***************************************************************************)
EXTENDS HttpFieldBasics, Base64

CONSTANT RangeInt       \* the integer type of range_value_t<T>

LowerTokenP == TransformP(TokenP, ToLowerT)

\* Field values with a weight: the weight is 1.000 unless it is given.
WeightedP(name) ==
    ProduceP([name |-> <<>>, weight |-> QvalueMaximum], <<
        Consume(name, Setter("name")), Maybe(<<Consume(WeightP, Setter("weight"))>>)>>)

AcceptCharsetP == NonEmptyListP(WeightedP(LowerTokenP))
AcceptEncodingP == MaybeEmptyListP(WeightedP(LowerTokenP))
ContentEncodingP == NonEmptyListP(LowerTokenP)

-------------------------------------------------------------------------------
(* accept-language.hpp                                                     *)

LanguageTagP ==
    ProduceP(<<>>, <<
        Repeat(1, 8, <<Consume(AlphaSymbolP, ToContainer)>>),
        Repeat(0, N, <<
            Consume(SymbolP(45), ToContainer),
            Repeat(1, 8, <<Consume(AlphanumSymbolP, ToContainer)>>)>>)>>)
LanguageRangeP ==
    ProduceP(<<>>, <<Alternatives(<<
        Consume(SymbolP(ASTERISK), ToContainer), Consume(LanguageTagP, AsResult)>>)>>)
AcceptLanguageP == NonEmptyListP(WeightedP(LanguageRangeP))

-------------------------------------------------------------------------------
(* media-type.hpp, content-type.hpp and accept.hpp                         *)

MediaTypeP(params) ==
    ProduceP([type |-> <<>>, subtype |-> <<>>, parameters |-> <<>>], <<
        Consume(LowerTokenP, Setter("type")),
        Symbol(SLASH),
        Consume(LowerTokenP, Setter("subtype")),
        Consume(params, Setter("parameters"))>>)

\* media_type_value_t::make_default_parser()
MediaTypeDefaultP == MediaTypeP(ParamsWithValueP)

\* A form of the parameters of make_weight_aware_parser() that does not stop
\* at a weight.
WeightUnawareParamsP == ParamsWithValueP

\* The parameters of make_weight_aware_parser(): a parameter that reads as a
\* weight ends them.
WeightAwareParamsP ==
    ProduceP(<<>>, <<Repeat(0, N, <<Consume(
        ProduceP([first |-> <<>>, second |-> <<>>], <<
            NotClause(<<Consume(WeightP, Skip)>>),
            Ows, Symbol(SEMICOLON), Ows,
            Consume(LowerTokenP, Setter("first")),
            Symbol(EQUALS), TokenOrQuoted("second")>>),
        ToContainer)>>)>>)

ContentTypeP ==
    ProduceP([media_type |-> NoValue], <<Consume(MediaTypeDefaultP, Setter("media_type"))>>)

AcceptP ==
    MaybeEmptyListP(
        ProduceP([media_type |-> NoValue, weight |-> NoValue, accept_params |-> <<>>], <<
            Consume(MediaTypeP(WeightAwareParamsP), Setter("media_type")),
            Maybe(<<Consume(WeightP, Setter("weight")),
                    Consume(ParamsWithOptValueP, Setter("accept_params"))>>)>>))

-------------------------------------------------------------------------------
(* cache-control.hpp and user-agent.hpp                                    *)

CacheControlP ==
    NonEmptyListP(
        ProduceP([first |-> <<>>, second |-> NoValue], <<
            Consume(LowerTokenP, Setter("first")),
            Maybe(<<Symbol(EQUALS), TokenOrQuoted("second")>>)>>))

ProductP ==
    ProduceP([product |-> <<>>, version |-> NoValue], <<
        Consume(TokenP, Setter("product")),
        Maybe(<<Symbol(SLASH), Consume(TokenP, Setter("version"))>>)>>)
UserAgentP ==
    ProduceP([product |-> NoValue, tail |-> <<>>], <<
        Consume(ProductP, Setter("product")),
        Consume(ProduceP(<<>>, <<Repeat(0, N, <<
                    Space, Ows,
                    Alternatives(<<Consume(ProductP, ToContainer),
                                   Consume(CommentP, ToContainer)>>)>>)>>),
                Setter("tail"))>>)

-------------------------------------------------------------------------------
(* range.hpp                                                               *)

PosP == NonNegativeDecimalNumberP(RangeInt)
BYTES == <<98, 121, 116, 101, 115>>

ByteRangeSpecP ==
    ProduceP(NoValue, <<Alternatives(<<
        Consume(ProduceP([first |-> 0, last |-> 0], <<
                    Consume(PosP, Setter("first")), Symbol(45), Consume(PosP, Setter("last"))>>),
                AsResult),
        Consume(ProduceP([first |-> 0], <<Consume(PosP, Setter("first")), Symbol(45)>>), AsResult),
        Consume(ProduceP([length |-> 0], <<Symbol(45), Consume(PosP, Setter("length"))>>), AsResult)
        >>)>>)

ByteRangesSpecifierP ==
    ProduceP([ranges |-> <<>>], <<
        Sequence(<<Exact(BYTES), Symbol(EQUALS)>>),
        ForceOnlyThisAlternative(<<Consume(NonEmptyListP(ByteRangeSpecP), Setter("ranges"))>>)>>)

OtherRangesSpecifierP ==
    ProduceP([range_unit |-> <<>>, range_set |-> <<>>], <<
        Consume(TokenP, Setter("range_unit")),
        Symbol(EQUALS),
        ForceOnlyThisAlternative(<<
            Consume(ProduceP(<<>>, <<Repeat(1, N, <<Consume(VcharSymbolP, ToContainer)>>)>>),
                    Setter("range_set"))>>)>>)

RangeP ==
    ProduceP([value |-> NoValue], <<Alternatives(<<
        Consume(ByteRangesSpecifierP, Setter("value")),
        Consume(OtherRangesSpecifierP, Setter("value"))>>)>>)

-------------------------------------------------------------------------------
(* content-disposition.hpp                                                 *)

APOSTROPHE == 39
MimeCharsetc == IsAlphanum \cup {33, 35, 36, 37, 38, 43, 45, 94, 95, 96, 123, 125, 126}
LanguageChar == IsAlphanum \cup {45}
AttrChar == IsAlphanum \cup {33, 35, 36, 38, 43, 45, 46, 94, 95, 96, 124, 126}

PctEncodedSymbolsP ==
    ProduceP(<<>>, <<Consume(SymbolP(37), ToContainer),
                     Consume(HexdigitP, ToContainer), Consume(HexdigitP, ToContainer)>>)

ExtParameterValueP ==
    ProduceP(<<>>, <<
        Repeat(1, N, <<Consume(SymbolFromP(MimeCharsetc), ToContainer)>>),
        Consume(SymbolP(APOSTROPHE), ToContainer),
        Repeat(0, N, <<Consume(SymbolFromP(LanguageChar), ToContainer)>>),
        Consume(SymbolP(APOSTROPHE), ToContainer),
        Repeat(0, N, <<Alternatives(<<
            Consume(SymbolFromP(AttrChar), ToContainer),
            Consume(PctEncodedSymbolsP, AppendText)>>)>>)>>)

ContentDispositionP ==
    ProduceP([value |-> <<>>, parameters |-> <<>>], <<
        Consume(LowerTokenP, Setter("value")),
        Consume(ProduceP(<<>>, <<Repeat(0, N, <<Consume(
            ProduceP([first |-> <<>>, second |-> <<>>], <<
                Ows, Symbol(SEMICOLON), Ows,
                Alternatives(<<
                    Sequence(<<
                        Consume(TransformP(CustomP("regular_token"), ToLowerT), Setter("first")),
                        Symbol(EQUALS), TokenOrQuoted("second")>>),
                    Sequence(<<
                        Consume(TransformP(CustomP("ext_token"), ToLowerT), Setter("first")),
                        Symbol(EQUALS), Consume(ExtParameterValueP, Setter("second"))>>)>>)>>),
            ToContainer)>>)>>),
            Setter("parameters"))>>)

-------------------------------------------------------------------------------
(* authorization.hpp, basic_auth.hpp and bearer_auth.hpp                   *)

Token68Char == IsAlphanum \cup {45, 46, 95, 126, 43, 47}

Token68P ==
    ProduceP([token68 |-> <<>>], <<
        Consume(ProduceP(<<>>, <<
                    Repeat(1, N, <<Consume(SymbolFromP(Token68Char), ToContainer)>>),
                    Repeat(0, N, <<Consume(SymbolP(EQUALS), ToContainer)>>)>>),
                Setter("token68"))>>)

AuthParamP ==
    ProduceP([name |-> <<>>, value |-> NoValue], <<
        Consume(LowerTokenP, Setter("name")),
        Ows, Symbol(EQUALS), Ows,
        Consume(ProduceP(NoValue, <<Alternatives(<<
                    Consume(TransformP(TokenP, TaggedT("token")), AsResult),
                    Consume(TransformP(QuotedStringP, TaggedT("quoted_string")), AsResult)>>)>>),
                Setter("value"))>>)
AuthParamsP ==
    ProduceP([params |-> <<>>], <<Consume(MaybeEmptyListP(AuthParamP), Setter("params"))>>)


\* auth_param is a variant of token68 and the parameters; it holds an empty
\* token68 unless it is set.
AuthorizationP ==
    ProduceP([auth_scheme |-> <<>>, auth_param |-> [token68 |-> <<>>]], <<
        Consume(LowerTokenP, Setter("auth_scheme")),
        Maybe(<<
            Repeat(1, N, <<Space>>),
            Consume(ProduceP([token68 |-> <<>>], <<Alternatives(<<
                        Sequence(<<Consume(Token68P, AsResult),
                                   NotClause(<<Consume(AnySymbolP, Skip)>>)>>),
                        Consume(AuthParamsP, AsResult)>>)>>),
                    Setter("auth_param"))>>)>>)

IsToken68(param) == "token68" \in DOMAIN param

BASIC == <<98, 97, 115, 105, 99>>
BEARER == <<98, 101, 97, 114, 101, 114>>

\* basic_auth::try_extract_params() from a parsed field.
BasicParams(field) ==
    LET decoded == TryDecode(field.auth_param.token68)
        colons == {i \in 1 .. Len(decoded.bytes) : decoded.bytes[i] = COLON}
        first == CHOOSE i \in colons : \A j \in colons : i <= j
    IN  IF ~IsToken68(field.auth_param) THEN [error |-> "invalid_basic_auth_param"]
        ELSE IF ~decoded.ok THEN [error |-> "token68_decode_error"]
        ELSE IF colons = {} THEN [error |-> "invalid_username_password_pair"]
        ELSE IF first = 1 THEN [error |-> "empty_username"]
        ELSE [username |-> SubSeq(decoded.bytes, 1, first - 1),
              password |-> SubSeq(decoded.bytes, first + 1, Len(decoded.bytes))]

\* bearer_auth::try_extract_params() from a parsed field.
BearerParams(field) ==
    IF ~IsToken68(field.auth_param) THEN [error |-> "invalid_bearer_auth_param"]
    ELSE [token |-> field.auth_param.token68]

\* perform_extraction_attempt() of both helpers: opt is the text of the field
\* or NoValue, r what parsing it gives and params the parameters found in it.
ExtractionAttempt(opt, r, scheme, other, params) ==
    IF opt = NoValue THEN [error |-> "no_auth_http_field"]
    ELSE IF ~r.ok THEN [error |-> "illegal_http_field_value"]
    ELSE IF r.val.auth_scheme # scheme THEN [error |-> other]
    ELSE params

BasicExtraction(opt, r) ==
    ExtractionAttempt(opt, r, BASIC, "not_basic_auth_scheme", BasicParams(r.val))
BearerExtraction(opt, r) ==
    ExtractionAttempt(opt, r, BEARER, "not_bearer_auth_scheme", BearerParams(r.val))

BasicAuth(opt) == BasicExtraction(opt, ParseAll(opt, AuthorizationP))
BearerAuth(opt) == BearerExtraction(opt, ParseAll(opt, AuthorizationP))

-------------------------------------------------------------------------------
\* try_parse_field(): a missing field is parsed from a default value that is
\* not empty.
TryParseField(opt, default, p) ==
    IF opt = NoValue /\ default = <<>> THEN Error(0, "field_not_found")
    ELSE ParseAll(IF opt = NoValue THEN default ELSE opt, p)
===============================================================================
