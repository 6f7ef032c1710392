------------------------------ MODULE HttpHeaders ------------------------------
(***************************************************************************)
(* http_header_fields_t (http_headers.hpp), the ordered container of the   *)
(* fields of a message, and the callbacks of the HTTP parser that fill it  *)
(* (impl/parser_callbacks.ipp).  A field is its name and its value; the id *)
(* of a standard field says no more than its name in lower case.           *)
(*                                                                         *)
(* The nodejs http_parser is external: ParserCallbacks gives the calls it  *)
(* makes for a request that arrives in several reads.  At the end of every *)
(* read it hands out what it has of the target, the name, the value or the *)
(* body in which the read ends, and goes on with the rest, which may be    *)
(* empty, in the next one.                                                 *)
(***************************************************************************)
EXTENDS HttpFieldBasics, SequencesExt

CR == 13
LF == 10
EOL == <<CR, LF>>

-------------------------------------------------------------------------------
(* The container.                                                          *)

Field(name, value) == [name |-> name, value |-> value]

\* is_equal_caseless()
IsEqualCaseless(a, b) == ToLower(a) = ToLower(b)

\* find(): the index of the field of that name, 0 for end().
FindField(fields, name) ==
    SelectInSeq(fields, LAMBDA f : IsEqualCaseless(f.name, name))

\* A form of set_field() that does not look for the field.
SetFieldAppends(fields, name, value) == Append(fields, Field(name, value))

\* set_field(): a field that is there takes the new name and value in its place.
SetField(fields, name, value) ==
    LET at == FindField(fields, name)
    IN  IF at = 0 THEN Append(fields, Field(name, value))
        ELSE [fields EXCEPT ![at] = Field(name, value)]

\* append_last_field(): the value of the field at the end of the container grows.
AppendLastField(fields, value) == [fields EXCEPT ![Len(fields)].value = @ \o value]

\* opt_value_of()
OptValueOf(fields, name) ==
    LET at == FindField(fields, name) IN IF at = 0 THEN NoValue ELSE fields[at].value

-------------------------------------------------------------------------------
(* http_parser_ctx_t and the callbacks.                                    *)

\* http_parser_ctx_t::reset()
NewParserCtx ==
    [target |-> <<>>, fields |-> <<>>, body |-> <<>>, name |-> <<>>, last_was_value |-> TRUE]

UrlCb(ctx, at) == [ctx EXCEPT !.target = @ \o at]

\* A form of restinio_header_field_cb() that takes every call for a new name.
HeaderFieldCbAssigns(ctx, at) == [ctx EXCEPT !.name = at, !.last_was_value = FALSE]

HeaderFieldCb(ctx, at) ==
    IF ctx.last_was_value THEN [ctx EXCEPT !.name = at, !.last_was_value = FALSE]
    ELSE [ctx EXCEPT !.name = @ \o at]

HeaderValueCb(ctx, at) ==
    IF ~ctx.last_was_value
    THEN [ctx EXCEPT !.fields = SetField(@, ctx.name, at), !.name = <<>>, !.last_was_value = TRUE]
    ELSE [ctx EXCEPT !.fields = AppendLastField(@, at)]

BodyCb(ctx, at) == [ctx EXCEPT !.body = @ \o at]

Callback(ctx, call) ==
    CASE call.cb = "url" -> UrlCb(ctx, call.at)
      [] call.cb = "field" -> HeaderFieldCb(ctx, call.at)
      [] call.cb = "value" -> HeaderValueCb(ctx, call.at)
      [] call.cb = "body" -> BodyCb(ctx, call.at)

-------------------------------------------------------------------------------
(* The parser: `mode` is what the next character belongs to, `mark` the    *)
(* characters of it since the last call, NoValue outside of all of them.   *)
(* The target ends with a space.                                           *)

Starts(st, mode, mark) == [st EXCEPT !.mode = mode, !.mark = mark]
Calls(st, cb, mode) ==
    [mode |-> mode, mark |-> NoValue, calls |-> Append(st.calls, [cb |-> cb, at |-> st.mark])]
Marked(st, c) == [st EXCEPT !.mark = Append(@, c)]

ParserStep(st, c) ==
    CASE st.mode = "url" -> IF c = SP THEN Calls(st, "url", "line") ELSE Marked(st, c)
      [] st.mode = "field" -> IF c = COLON THEN Calls(st, "field", "colon") ELSE Marked(st, c)
      [] st.mode = "colon" ->
            IF c = SP THEN st
            ELSE IF c = CR THEN Calls(Starts(st, "value", <<>>), "value", "line")
            ELSE Starts(st, "value", <<c>>)
      [] st.mode = "value" -> IF c = CR THEN Calls(st, "value", "line") ELSE Marked(st, c)
      [] st.mode = "line" -> IF c = LF THEN Starts(st, "start", NoValue) ELSE st
      [] st.mode = "start" ->
            IF c = CR THEN Starts(st, "end", NoValue) ELSE Starts(st, "field", <<c>>)
      [] st.mode = "end" -> Starts(st, "body", NoValue)
      [] st.mode = "body" -> Starts(st, "body", IF st.mark = NoValue THEN <<c>> ELSE Append(st.mark, c))

\* The end of a read.
EndOfRead(st) ==
    IF st.mark = NoValue THEN st
    ELSE Starts(Calls(st, st.mode, st.mode), st.mode, IF st.mode = "body" THEN NoValue ELSE <<>>)

\* The calls for a request that is read in the pieces `reads`.
ParserCallbacks(reads) ==
    FoldLeft(LAMBDA st, read : EndOfRead(FoldLeft(ParserStep, st, read)),
             [mode |-> "url", mark |-> <<>>, calls |-> <<>>], reads).calls

\* What the callbacks have made of the request when the reads are parsed.
ParsedRequest(reads) == FoldLeft(Callback, NewParserCtx, ParserCallbacks(reads))
===============================================================================
