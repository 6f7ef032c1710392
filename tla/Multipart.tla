------------------------------- MODULE Multipart -------------------------------
(***************************************************************************)
(* helpers/multipart_body.hpp and helpers/file_upload.hpp: the boundary    *)
(* from the Content-Type of a request, the parts of its body, the fields   *)
(* of a part, and the enumeration of the parts, or of those that carry a   *)
(* file, by a handler of the user.  string_view_t::npos is NoValue, an     *)
(* error is a record with the field `error`.                               *)
(***************************************************************************)
EXTENDS HttpFields, HttpHeaders

CONSTANT MaxBoundary    \* the length of the longest boundary value: 70

HYPHENS == <<45, 45>>
BOUNDARY == <<98, 111, 117, 110, 100, 97, 114, 121>>
LastSeparator == HYPHENS \o EOL

\* string_algo::starts_with(), string_view_t::find() and substr()
StartsWith(where, what) ==
    Len(where) >= Len(what) /\ SubSeq(where, 1, Len(what)) = what
FindText(where, what) ==
    LET at == {i \in 0 .. Len(where) - Len(what) : SubSeq(where, i + 1, i + Len(what)) = what}
    IN  IF at = {} THEN NoValue ELSE Min(at)
From(text, pos) == SubSeq(text, pos + 1, Len(text))

-------------------------------------------------------------------------------
(* split_multipart_body()                                                  *)

\* A form of AfterEol without the test of the characters.
AfterEolAnything(text, pos) == pos >= Len(EOL)

\* There is CRLF before pos.
AfterEol(text, pos) == pos >= Len(EOL) /\ SubSeq(text, pos - 1, pos) = EOL

\* The loop: `rest` is what follows a boundary, `parts` is tmp_result.
RECURSIVE PartsFrom(_, _, _)
PartsFrom(rest, boundary, parts) ==
    LET content == From(rest, Len(EOL))
        at == FindText(content, boundary)
        next == From(content, at + Len(boundary))
        found == Append(parts, SubSeq(content, 1, at - Len(EOL)))
    IN  IF ~StartsWith(rest, EOL) \/ at = NoValue THEN <<>>
        ELSE IF ~AfterEol(content, at) THEN <<>>
        ELSE IF StartsWith(next, LastSeparator) THEN found
        ELSE PartsFrom(next, boundary, found)

SplitMultipartBody(body, boundary) ==
    LET at == FindText(body, boundary)
        rest == From(body, at + Len(boundary))
    IN  IF at = NoValue THEN <<>>
        ELSE IF at # 0 /\ ~AfterEol(body, at) THEN <<>>
        ELSE IF StartsWith(rest, LastSeparator) THEN <<>>
        ELSE PartsFrom(rest, boundary, <<>>)

-------------------------------------------------------------------------------
(* try_parse_part()                                                        *)

\* body_producer_t: the rest of the part, which is not taken.
BodyTryParse(src, pos) == Value(pos, From(src, pos))

\* field_value_producer_t: up to CR or LF, which has to be there.
FieldValueTryParse(src, pos) ==
    LET end == RunEnd(src, pos, Chars \ {CR, LF})
    IN  IF Eof(src, end) THEN Error(end, "unexpected_eof")
        ELSE Value(end, SubSeq(src, pos + 1, end))

\* The lambda that hands a field to set_field().
SetFieldConsume(to, v) == SetField(to, v.name, v.value)

PartFieldP ==
    ProduceP(Field(<<>>, <<>>), <<
        Consume(LowerTokenP, Setter("name")), Symbol(COLON), Ows,
        Consume(CustomP("field_value"), Setter("value")), Symbol(CR), Symbol(LF)>>)

\* make_parser()
PartP ==
    ProduceP([fields |-> <<>>, body |-> <<>>], <<
        Consume(ProduceP(<<>>, <<Repeat(0, N, <<Consume(PartFieldP, CustomConsumer("set_field"))>>)>>),
                Setter("fields")),
        Symbol(CR), Symbol(LF),
        Consume(CustomP("body"), Setter("body"))>>)

TryParsePart(part) == TryParse(PartP, part, 0)

-------------------------------------------------------------------------------
(* detect_boundary_for_multipart_body()                                    *)

IsBcharnospace ==       \* letters, digits and ' ( ) + _ , - . / : = ?
    IsAlphanum \cup 39 .. 41 \cup 43 .. 47 \cup {58, 61, 63, 95}
IsBchar == IsBcharnospace \cup {SP}

\* A form of check_boundary_value() that treats the last character like the
\* others.
CheckBoundaryValueAnyEnd(value) ==
    Len(value) \in 1 .. MaxBoundary /\ \A i \in DOMAIN value : value[i] \in IsBchar

CheckBoundaryValue(value) ==
    /\ Len(value) \in 1 .. MaxBoundary
    /\ \A i \in 1 .. Len(value) - 1 : value[i] \in IsBchar
    /\ value[Len(value)] \in IsBcharnospace

\* `content_type` is the value of the field or NoValue, `subtype` may be NoValue.
BoundaryOf(r, type, subtype) ==
    LET media_type == r.val.media_type
        boundary == FindFirst(media_type.parameters, BOUNDARY)
        wrong == [error |-> "content_type_field_inappropriate_value"]
    IN  IF ~r.ok THEN [error |-> "content_type_field_parse_error"]
        ELSE IF ~IsEqualCaseless(type, media_type.type) THEN wrong
        ELSE IF subtype # NoValue /\ ~IsEqualCaseless(subtype, media_type.subtype) THEN wrong
        ELSE IF boundary = NoValue THEN wrong
        ELSE IF ~CheckBoundaryValue(boundary) THEN [error |-> "illegal_boundary_value"]
        ELSE [mark |-> HYPHENS \o boundary]
DetectBoundary(content_type, type, subtype) ==
    IF content_type = NoValue THEN [error |-> "content_type_field_not_found"]
    ELSE BoundaryOf(ParseAll(content_type, ContentTypeP), type, subtype)

-------------------------------------------------------------------------------
(* The handler of the user: a list of answers, one for every call; `given` *)
(* is what it was called with, `error` the error that the lambda of        *)
(* enumerate_parts_with_files() keeps.                                     *)

NewHandler(answers) == [answers |-> answers, given |-> <<>>, error |-> "none"]

\* One call of the user's handler.
CallHandler(h, arg) ==
    [ret |-> h.answers[Len(h.given) + 1], h |-> [h EXCEPT !.given = Append(@, arg)]]

-------------------------------------------------------------------------------
(* file_upload.hpp                                                         *)

CONTENT_DISPOSITION ==
    <<99, 111, 110, 116, 101, 110, 116, 45, 100, 105, 115, 112, 111, 115, 105, 116, 105, 111, 110>>
FORM_DATA == <<102, 111, 114, 109, 45, 100, 97, 116, 97>>
NAME == <<110, 97, 109, 101>>
FILENAME == <<102, 105, 108, 101>> \o NAME
FILENAME_STAR == FILENAME \o <<ASTERISK>>

\* translate_enumeration_error(): the errors that both enumerations have.
SharedErrors ==
    {"content_type_field_not_found", "content_type_field_parse_error",
     "content_type_field_inappropriate_value", "illegal_boundary_value", "no_parts_found",
     "terminated_by_handler"}
TranslateEnumerationError(original) ==
    IF original \in SharedErrors THEN original ELSE "unexpected_error"

\* analyze_part(); r is what the parser makes of the field.
Description(part, r) ==
    LET param(name) == FindFirst(r.val.parameters, name)
    IN  IF ~r.ok THEN [error |-> "content_disposition_field_parse_error"]
        ELSE IF r.val.value # FORM_DATA THEN [error |-> "no_files_found"]
        ELSE IF param(NAME) = NoValue
             THEN [error |-> "content_disposition_field_inappropriate_value"]
        ELSE IF param(FILENAME_STAR) = NoValue /\ param(FILENAME) = NoValue
             THEN [error |-> "no_files_found"]
        ELSE [fields |-> part.fields, body |-> part.body, name |-> param(NAME),
              filename_star |-> param(FILENAME_STAR), filename |-> param(FILENAME)]
AnalyzePart(part) ==
    LET disposition == OptValueOf(part.fields, CONTENT_DISPOSITION)
    IN  IF disposition = NoValue THEN [error |-> "no_files_found"]
        ELSE Description(part, ParseAll(disposition, ContentDispositionP))

\* The lambda of enumerate_parts_with_files() that takes a part without a
\* file for the end of the enumeration.
HandleDescribedStops(h, description) ==
    IF "error" \notin DOMAIN description THEN CallHandler(h, description)
    ELSE [ret |-> "terminate_enumeration", h |-> [h EXCEPT !.error = description.error]]

\* The lambda: the handler of the user sees the parts with files only, and an
\* error in a part ends the enumeration.
HandleDescribed(h, description) ==
    IF "error" \notin DOMAIN description THEN CallHandler(h, description)
    ELSE IF description.error = "no_files_found" THEN [ret |-> "continue_enumeration", h |-> h]
    ELSE [ret |-> "terminate_enumeration", h |-> [h EXCEPT !.error = description.error]]

-------------------------------------------------------------------------------
(* The enumeration: of all the parts, or of those with files.              *)

Handle(h, part, with_files) ==
    IF with_files THEN HandleDescribed(h, AnalyzePart(part)) ELSE CallHandler(h, part)

Enumerated(h, processed, error) == [h |-> h, processed |-> processed, error |-> error]

\* The loop of enumerate_parts_of_request_body(): the number of parts that were
\* handled counts if there is no error.
RECURSIVE EnumerateFrom(_, _, _, _), EnumerateRest(_, _, _, _)
EnumerateRest(call, parts, with_files, processed) ==
    CASE call.ret = "terminate_enumeration" ->
            Enumerated(call.h, processed, "terminated_by_handler")
      [] call.ret = "stop_enumeration" -> Enumerated(call.h, processed + 1, "none")
      [] call.ret = "continue_enumeration" ->
            EnumerateFrom(parts, call.h, with_files, processed + 1)
EnumerateFrom(parts, h, with_files, processed) ==
    IF parts = <<>> THEN Enumerated(h, processed, "none")
    ELSE LET r == TryParsePart(Head(parts))
         IN  IF ~r.ok THEN Enumerated(h, processed, "unexpected_error")
             ELSE EnumerateRest(Handle(h, r.val, with_files), Tail(parts), with_files, processed)

\* enumerate_parts()
EnumerateWithBoundary(boundary, req, h, with_files) ==
    LET parts == SplitMultipartBody(req.body, boundary.mark)
    IN  IF "error" \in DOMAIN boundary THEN Enumerated(h, 0, boundary.error)
        ELSE IF parts = <<>> THEN Enumerated(h, 0, "no_parts_found")
        ELSE EnumerateFrom(parts, h, with_files, 0)
EnumerateParts(req, h, with_files, type, subtype) ==
    EnumerateWithBoundary(DetectBoundary(req.content_type, type, subtype), req, h, with_files)

\* enumerate_parts_with_files(): files_found is the number of the calls of the
\* handler.
FilesEnumerated(result) ==
    [given |-> result.h.given,
     error |-> IF result.h.error # "none" THEN result.h.error
               ELSE IF result.error # "none" THEN TranslateEnumerationError(result.error)
               ELSE "none"]
EnumeratePartsWithFiles(req, answers, type, subtype) ==
    FilesEnumerated(EnumerateParts(req, NewHandler(answers), TRUE, type, subtype))
===============================================================================
