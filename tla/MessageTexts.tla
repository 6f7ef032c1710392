------------------------------ MODULE MessageTexts ------------------------------
(***************************************************************************)
(* What the readers of messages promise: the callbacks that collect a      *)
(* request from the pieces in which it is read, and the helpers for        *)
(* multipart bodies and file uploads.  The subject of a text is the        *)
(* function that reads it.                                                 *)
(***************************************************************************)
EXTENDS Multipart, HttpFieldTexts

Mark == Txt("--b")                      \* of the texts of this module
Multi == Txt("multipart")

Occurrences(s, what) ==
    {i \in 0 .. Len(s) - Len(what) : SubSeq(s, i + 1, i + Len(what)) = what}
Behind(s, i, what) == i >= Len(what) /\ SubSeq(s, i + 1 - Len(what), i) = what
Before(s, i, what) == i + Len(what) <= Len(s) /\ SubSeq(s, i + 1, i + Len(what)) = what

\* Fields, an empty line, and the rest: the text before the first empty line
\* and the text behind it.
EmptyLines(s) == {i \in Occurrences(s, EOL) : i = 0 \/ Behind(s, i, EOL)}
HeadOf(s) == IF EmptyLines(s) = {} THEN s ELSE SubSeq(s, 1, Min(EmptyLines(s)))
RestOf(s) == IF EmptyLines(s) = {} THEN <<>> ELSE From(s, Min(EmptyLines(s)) + Len(EOL))

FIELD_LINE == Seq2(<<TOKEN, Ch(COLON), Star(In(Chars \ {CR, LF})), Ch(CR), Ch(LF)>>)

\* The fields of a text that FIELD_LINEs derive, in order.
LineFields(s) ==
    LET ends == SetToSortSeq(Occurrences(s, EOL), <)
        line(k) == SubSeq(s, IF k = 1 THEN 1 ELSE ends[k - 1] + 1 + Len(EOL), ends[k])
        colon(k) == Min({i \in DOMAIN line(k) : line(k)[i] = COLON})
        value(k) == From(line(k), colon(k))
        start(k) == {i \in DOMAIN value(k) : value(k)[i] \notin IsSpace}
    IN  [k \in DOMAIN ends |->
            Field(SubSeq(line(k), 1, colon(k) - 1),
                  IF start(k) = {} THEN <<>> ELSE From(value(k), Min(start(k)) - 1))]

Names(fields) == {ToLower(fields[k].name) : k \in DOMAIN fields}

-------------------------------------------------------------------------------
(* Requests: a target, the fields of the text, and what follows them.      *)

Target == Txt("/a")
Request == Target \o Txt(" H") \o EOL \o text
IsRequest == subject = "request" /\ Derives(Star(FIELD_LINE), HeadOf(text))

\* Three reads, the second of which has one character or none.
ReadsOf(s) ==
    {<<SubSeq(s, 1, i), SubSeq(s, i + 1, i + n), From(s, i + n)>> :
        i \in 0 .. Len(s) - 1, n \in 0 .. 1}

\* However a request is cut into reads, the callbacks collect its target, its
\* fields in their order and the piece of its body that was read, provided
\* that no field is repeated.
RequestExact ==
    IsRequest /\ Cardinality(Names(LineFields(HeadOf(text)))) = Len(LineFields(HeadOf(text))) =>
        \A reads \in ReadsOf(Request) :
            LET r == ParsedRequest(reads)
            IN  /\ r.target = Target
                /\ r.fields = LineFields(HeadOf(text))
                /\ r.body = RestOf(text)

\* append_last_field() "is used by http-parser when field value is created by
\* 2 separate invocation of on-header-field-value callback": the fields of a
\* request do not depend on where its reads end.
FieldsIndependentOfReads ==
    IsRequest =>
        \A reads \in ReadsOf(Request) :
            ParsedRequest(reads).fields = ParsedRequest(<<Request>>).fields

-------------------------------------------------------------------------------
(* Multipart bodies.                                                       *)

\* The parts of a body: all the occurrences of the mark up to the first one
\* that is followed by two hyphens have to be at the start of a line and, but
\* for that one, at its end, and there is a line between two of them.
PartsOf(body) ==
    LET at == SetToSortSeq(Occurrences(body, Mark), <)
        end(k) == at[k] + Len(Mark)
        closing == {k \in DOMAIN at : Before(body, end(k), LastSeparator)}
        last == Min(closing)
        opens(k) == Before(body, end(k), EOL) /\ at[k + 1] >= end(k) + 2 * Len(EOL)
    IN  IF /\ closing # {}
           /\ \A k \in 1 .. last : Behind(body, at[k], EOL) \/ (k = 1 /\ at[k] = 0)
           /\ \A k \in 1 .. last - 1 : opens(k)
        THEN [k \in 1 .. last - 1 |-> SubSeq(body, end(k) + 1 + Len(EOL), at[k + 1] - Len(EOL))]
        ELSE <<>>

\* split_multipart_body() gives exactly the texts between the delimiters, and
\* none at all ("This list will be empty ... if there is some error in the
\* body format") when one delimiter of them is malformed or the last is missing.
SplitExact == subject = "multipart" => SplitMultipartBody(text, Mark) = PartsOf(text)

\* try_parse_part() accepts exactly the parts that have an empty line after
\* well-formed fields, gives the body as it is behind that line, and keeps of
\* a repeated field the last value.
PartExact ==
    subject = "part" =>
        LET r == TryParsePart(text)
            fields == LineFields(HeadOf(text))
        IN  /\ r.ok <=> EmptyLines(text) # {} /\ Derives(Star(FIELD_LINE), HeadOf(text))
            /\ r.ok =>
                  /\ r.val.body = RestOf(text)
                  /\ {r.val.fields[k].name : k \in DOMAIN r.val.fields} = Names(fields)
                  /\ Len(r.val.fields) = Cardinality(Names(fields))
                  /\ \A k \in DOMAIN fields :
                        (\A j \in k + 1 .. Len(fields) :
                            ~IsEqualCaseless(fields[j].name, fields[k].name)) =>
                        OptValueOf(r.val.fields, fields[k].name) = fields[k].value

BCHARSNOSPACE == In(IsAlphanum \cup {39, 40, 41, 43, 95, 44, 45, 46, 47, 58, 61, 63})
BOUNDARY_VALUE == Seq2(<<Count(0, MaxBoundary - 1, Alt(<<BCHARSNOSPACE, Ch(SP)>>)), BCHARSNOSPACE>>)

\* detect_boundary_for_multipart_body() returns two hyphens and the first
\* boundary parameter, unquoted, exactly when the field is well formed, has
\* the media type that is expected, in any case, and the value is one that
\* the grammar of its comment derives; a missing subtype expects nothing.
BoundaryExact ==
    subject = "boundary" =>
        LET field == Txt("Multipart/form-data;") \o text
            well == Derives(Grammar("content_type"), RemoveTrailingSpaces(field))
            pairs == Mapped(Pair, Pieces(text, SEMICOLON))
            first == SelectInSeq(pairs, LAMBDA p : p.first = BOUNDARY)
            legal == first # 0 /\ Derives(BOUNDARY_VALUE, pairs[first].second)
        IN  /\ DetectBoundary(field, Multi, FORM_DATA) =
                  CASE ~well -> [error |-> "content_type_field_parse_error"]
                    [] well /\ first = 0 -> [error |-> "content_type_field_inappropriate_value"]
                    [] well /\ first # 0 /\ ~legal -> [error |-> "illegal_boundary_value"]
                    [] well /\ legal -> [mark |-> HYPHENS \o pairs[first].second]
            /\ DetectBoundary(field, Multi, NoValue) = DetectBoundary(field, Multi, FORM_DATA)
            /\ \A other \in {<<NAME, NoValue>>, <<Multi, NAME>>} :
                  well => DetectBoundary(field, other[1], other[2]) =
                              [error |-> "content_type_field_inappropriate_value"]

-------------------------------------------------------------------------------
(* Uploads: the text is made of parts of known kinds.                      *)

Disposition == Txt("Content-Disposition:")
PartWith(head, body) == head \o EOL \o EOL \o Txt(body)
UploadPart ==
    [file |-> PartWith(Disposition \o Txt("form-data;name=n;filename=f"), "1"),
     star |-> PartWith(Disposition \o Txt(" Form-Data; name=n; FileName*=u''f"), "2"),
     form |-> PartWith(Disposition \o Txt("form-data;name=n"), "3"),
     anonymous |-> PartWith(Disposition \o Txt("form-data;filename=f"), "4"),
     attachment |-> PartWith(Disposition \o Txt("attachment;filename=f"), "5"),
     garbled |-> PartWith(Disposition \o Txt(";"), "6"),
     other |-> PartWith(Txt("x:y"), "7"),
     broken |-> PartWith(Txt("x"), "8")]

Continue == "continue_enumeration"
\* Handlers that go on, and handlers that stop or fail in one of their calls.
AnswerLists ==
    {[k \in 1 .. 3 |-> IF k = n THEN a ELSE Continue] :
        n \in 1 .. 3, a \in {Continue, "stop_enumeration", "terminate_enumeration"}}

PartError(kind) ==
    CASE kind = "anonymous" -> "content_disposition_field_inappropriate_value"
      [] kind = "garbled" -> "content_disposition_field_parse_error"
      [] kind = "broken" -> "unexpected_error"
      [] OTHER -> "none"

\* What is expected of parts of the given kinds: the handler is called for
\* the files among the first `end` parts.
FilesUpTo(kinds, k) == {i \in 1 .. k : kinds[i] \in {"file", "star"}}
AnswerTo(kinds, answers, k) ==
    IF k \in FilesUpTo(kinds, k) THEN answers[Cardinality(FilesUpTo(kinds, k))] ELSE Continue
LastHandled(kinds, answers) ==
    Min({k \in DOMAIN kinds : PartError(kinds[k]) # "none" \/ AnswerTo(kinds, answers, k) # Continue}
        \cup {Len(kinds)})
ExpectedUpload(parts, kinds, answers, end) ==
    [error |-> IF parts = <<>> THEN "no_parts_found"
               ELSE IF AnswerTo(kinds, answers, end) = "terminate_enumeration"
                    THEN "terminated_by_handler"
               ELSE PartError(kinds[end]),
     bodies |-> [k \in 1 .. Cardinality(FilesUpTo(kinds, end)) |->
                    RestOf(parts[SetToSortSeq(FilesUpTo(kinds, end), <)[k]])]]

KindsOf(parts) ==
    [k \in DOMAIN parts |-> CHOOSE x \in DOMAIN UploadPart : UploadPart[x] = parts[k]]
Upload(r) == [error |-> r.error, bodies |-> [k \in DOMAIN r.given |-> r.given[k].body]]
UploadsAre(body, parts, kinds) ==
    \A answers \in AnswerLists :
        Upload(EnumeratePartsWithFiles(
                   [content_type |-> Txt("multipart/form-data;boundary=b"), body |-> body],
                   answers, Multi, FORM_DATA)) =
            ExpectedUpload(parts, kinds, answers, LastHandled(kinds, answers))

\* enumerate_parts_with_files() calls the handler for the parts with a file
\* and a name, in their order, up to the first part that is in error or that
\* the handler does not go on after; the result is an error exactly when it
\* has met one, or when the handler has asked for it, and parts behind the
\* end are not looked at.
UploadExact ==
    subject = "upload" =>
        LET body == Mark \o text \o LastSeparator
        IN  UploadsAre(body, PartsOf(body), KindsOf(PartsOf(body)))

\* A multipart request from its Content-Type to the calls of the handler.
MultipartExact == SplitExact /\ PartExact /\ BoundaryExact /\ UploadExact
===============================================================================
