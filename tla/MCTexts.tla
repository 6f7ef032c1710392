--------------------------------- MODULE MCTexts ---------------------------------
(* The texts of HttpFieldTexts, CodecTexts, RouterTexts and MessageTexts. *)
EXTENDS HttpFieldTexts, CodecTexts, RouterTexts, MessageTexts

-------------------------------------------------------------------------------
(* Fields                                                                  *)

ChunkTexts(s) ==
    CASE s = "accept_charset" -> {"a", "B", ",", " ", ";q=0.5", ";Q=1", "0"}
      [] s = "accept_encoding" -> {"gzip", ",", " ", ";q=0.25", ";q=1.0", "1"}
      [] s = "accept_language" -> {"en", "-", "*", ",", ";q=0.1", "abcdefgh", "7"}
      [] s = "content_type" -> {"a/", "a", ";N=", " ;n=", "\"", "\\", "="}
      [] s = "accept" -> {"a/B", ",", "; ", ";q=0.5", "q=1.1", "x=1", "="}
      [] s = "cache_control" -> {"B", "=", "\"", "\\", ", "}
      [] s = "user_agent" -> {"a", "/", " ", "(", ")", "\\"}
      [] s = "range" -> {"bytes=", "5", "3", "-", ",", "x="}
      [] s = "content_disposition" -> {"F", ";n=", "; n*=", "\"", "u''", "%4a", " ", ";"}
      [] s = "authorization" -> {"Bearer", " ", "a", "=", ",", "\""}
      [] s = "content_encoding" -> {"gzip", "X", ",", " ", "="}
      [] s = "basic" -> {"u", ":", "~"}
      [] s = "number" -> {"0", "1", "2", "7", "8", "a", "F", "+", "-"}

OtherSubjects == {"basic", "number"}

ChunkSets == [s \in FieldSubjects \cup OtherSubjects |-> {Txt(c) : c \in ChunkTexts(s)}]

-------------------------------------------------------------------------------
(* Codecs                                                                  *)

Esc(c1, c2) == <<PERCENT, c1, c2>>
CodecSubjects == {"utf8", "percent", "query", "integer", "sha1", "base64"}
CodecChunks(s) ==
    CASE s = "utf8" ->
            {<<b>> : b \in {97, 128, 143, 144, 159, 160, 191, 193, 194, 223, 224, 237, 239,
                            240, 244, 245}}
      [] s = "percent" ->
            {<<97>>, <<PLUS>>, <<42>>, <<47>>, <<PERCENT>>, Esc(54, 49), Esc(50, 70), Esc(55, 101),
             Esc(69, 50), Esc(56, 50), Esc(65, 67)}
      [] s = "query" ->
            {<<97>>, <<EQ>>, <<38>>, <<59>>, <<PLUS>>, <<PERCENT>>, Esc(50, 54), Esc(51, 68),
             Esc(67, 51)}
      [] s = "integer" -> {<<c>> : c \in {48, 49, 50, 53, 54, 55, 56, 57, 43, 45, 47, AT}}
      [] s = "sha1" -> {[i \in 1 .. n |-> c] : n \in {1, 9, 23}, c \in {97, 98}}
      [] s = "base64" -> {<<0>>, <<1>>, <<62>>, <<127>>, <<128>>, <<251>>, <<255>>}
CodecMaxChunks(s) == IF s = "sha1" THEN 5 ELSE 4

-------------------------------------------------------------------------------
(* Routers: tables in both notations where both can express them.          *)

S == <<47>>                                             \* "/"
A == <<97>>                                             \* "a"
B == <<98>>                                             \* "b"
None == <<>>
Sensitive == [DefaultOptions EXCEPT !.sensitive = TRUE]

Lit(s) == [t |-> "text", text |-> s]
Arg(p) == [t |-> "producer", p |-> p]
Fragment == PathFragmentP(47)
OptionalFragment ==
    ProduceP(<<>>, <<Maybe(<<Exact(S), Consume(Fragment, AsResult)>>)>>)
DigitsRe == RePlusLazy(ReIn({49}))                      \* a pattern of the user

AnyMethod == AnyOfMethods({"GET", "POST"})
Exp(m, items) == AddHandler(m, items, Sensitive)
ExpI(m, items) == AddHandler(m, items, DefaultOptions)
Easy(m, args) == [matcher |-> m, route |-> args]

Users(method) ==
    [decoded |-> FALSE, non_matched |-> FALSE, method |-> method,
        express |->
            <<Exp(SimpleMatcher("GET"), <<Text(S \o A)>>),
              Exp(AnyMethod, <<Text(S \o A \o S), Param("x", None, "")>>),
              Exp(NoneOfMethods({"GET"}),
                  <<Text(S), Param("x", None, ""), Text(S \o B \o S), Param("y", None, "")>>),
              Exp(AnyMethod, <<Text(S)>>)>>,
        easy |->
            <<Easy(SimpleMatcher("GET"), <<Lit(S \o A)>>),
              Easy(AnyMethod, <<Lit(S \o A \o S), Arg(Fragment)>>),
              Easy(NoneOfMethods({"GET"}),
                  <<Lit(S), Arg(Fragment), Lit(S \o B \o S), Arg(Fragment)>>),
              Easy(AnyMethod, <<Lit(S)>>)>>]

RouteTables ==
    [users_get |-> Users("GET"),
     users_post |-> Users("POST"),
     optional |-> [decoded |-> FALSE, non_matched |-> TRUE, method |-> "GET",
        express |->
            <<Exp(AnyMethod, <<Text(S \o A \o S), Param("x", None, "?")>>),
              Exp(AnyMethod, <<Text(S), Param("x", None, ""), Text(S), Param("y", None, "?")>>)>>,
        easy |->
            <<Easy(AnyMethod, <<Lit(S \o A), Arg(OptionalFragment)>>),
              Easy(AnyMethod, <<Lit(S), Arg(Fragment), Arg(OptionalFragment)>>)>>],
     decoded |-> [decoded |-> TRUE, non_matched |-> FALSE, method |-> "GET",
        express |->
            <<Exp(AnyMethod, <<Text(S), Param("x", None, "")>>),
              Exp(AnyMethod, <<Text(S), Param("x", None, ""), Text(S), Param("y", None, "")>>)>>,
        easy |->
            <<Easy(AnyMethod, <<Lit(S), Arg(UnescapeP(Fragment, "restinio_default"))>>),
              Easy(AnyMethod, <<Lit(S), Arg(UnescapeP(Fragment, "restinio_default")), Lit(S),
                          Arg(UnescapeP(Fragment, "restinio_default"))>>)>>],
     files |-> [decoded |-> FALSE, non_matched |-> FALSE, method |-> "GET", easy |-> <<>>,
        express |->
            <<ExpI(AnyMethod, <<Text(S), Param("x", None, ""), Text(<<46>>), Param("y", None, "?")>>),
              ExpI(AnyMethod, <<Text(S), Param("x", None, "?"), Text(<<45>>), Param("y", None, "")>>),
              ExpI(AnyMethod, <<Text(S), Param("x", None, "+"), Text(S \o A)>>),
              ExpI(AnyMethod, <<Text(S), Param("x", None, "*")>>),
              ExpI(AnyMethod, <<Text(S), Escaped(58), Param(NoName, <<DigitsRe>>, ""), Text(S)>>),
              ExpI(AnyMethod, <<Text(A), Escaped(46), Param("x", None, "?")>>)>>]]

RouteChunks(s) ==
    CASE s \in {"users_get", "users_post"} ->
            {S, A, S \o B \o S, Esc(50, 70), Esc(56, 48)}
      [] s = "optional" -> {S, A, B, Esc(54, 49), <<37>>}
      [] s = "decoded" -> {S, A, <<43>>, Esc(50, 70), Esc(67, 50), Esc(65, 48)}
      [] s = "files" -> {S, A, S \o <<65>>, <<46>>, <<45>>, <<58, 49>>}

-------------------------------------------------------------------------------
(* Messages                                                                *)

MessageSubjects == {"request", "multipart", "part", "boundary", "upload"}

MessageChunksOf(s) ==
    CASE s = "request" ->
            {Txt("X:v") \o EOL, Txt("y: wv") \o EOL, Txt("x:") \o EOL, EOL, Txt("b")}
      [] s = "multipart" -> {Mark, EOL, EOL \o Mark, LastSeparator, Txt("x")}
      [] s = "part" -> {Txt("a:"), Txt("A: v"), EOL, <<CR>>, Txt("x")}
      [] s = "boundary" ->
            {Txt("Boundary="), Txt(";"), Txt("b"), Txt("\""), Txt(" "), Txt("@"), Txt("ccc")}
      [] s = "upload" -> {EOL \o UploadPart[k] \o EOL \o Mark : k \in DOMAIN UploadPart}
MessageChunks == [s \in MessageSubjects |-> MessageChunksOf(s)]
MessageMaxChunks(s) ==
    CASE s = "request" -> 4
      [] s = "multipart" -> 6
      [] s = "part" -> 5
      [] s = "boundary" -> 4
      [] s = "upload" -> 2

-------------------------------------------------------------------------------
(* All of them                                                             *)

RouteTableNames == {"users_get", "users_post", "optional", "decoded", "files"}
AllSubjects ==
    FieldSubjects \cup OtherSubjects \cup CodecSubjects \cup RouteTableNames \cup MessageSubjects
RangeOnly == {"range"}
RequestOnly == {"request"}

TextTryParse(p, src, pos) ==
    CASE p.name = "field_value" -> FieldValueTryParse(src, pos)
      [] p.name = "body" -> BodyTryParse(src, pos)
      [] OTHER -> FieldTryParse(p, src, pos)
TextTransform(name, v) == UnescapeTransform(name, v)
TextConsume(name, dest, v) == SetFieldConsume(dest, v)

TextChunks(s) ==
    IF s \in FieldSubjects \cup OtherSubjects THEN ChunkSets[s]
    ELSE IF s \in CodecSubjects THEN CodecChunks(s)
    ELSE IF s \in MessageSubjects THEN MessageChunks[s] ELSE RouteChunks(s)
TextMaxChunks(s) ==
    IF s \in CodecSubjects THEN CodecMaxChunks(s)
    ELSE IF s \in MessageSubjects THEN MessageMaxChunks(s)
    ELSE IF s \in {"basic", "cache_control"} THEN 6
    ELSE IF s \in {"content_type", "user_agent", "range", "authorization", "content_encoding"} THEN 5
    ELSE 4

-------------------------------------------------------------------------------
\* Both ways to read an integer, the producers of easy_parser and
\* from_string.hpp, agree with the numbers at the limits of the types.
NumbersExact == RepresentableNumbersRead /\ IntegerExact
===============================================================================
