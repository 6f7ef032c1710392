---------------------------- MODULE PercentEncoding ----------------------------
(***************************************************************************)
(* utils/percent_encoding.hpp: unescaping and escaping of percent-encoded  *)
(* text, and the normalisation of a URI that decodes the unreserved        *)
(* characters only.  The traits say which characters may stand unescaped.  *)
(***************************************************************************)
EXTENDS Integers, Sequences, Utf8Checker

PERCENT == 37
PLUS == 43
Digits == 48 .. 57
Letters == 65 .. 90 \cup 97 .. 122
HexDigits == Digits \cup 65 .. 70 \cup 97 .. 102

\* ordinary_char() of the four traits.  strchr() finds the zero at the end of
\* the list of the relaxed traits.
OrdinaryChar(traits) ==
    Digits \cup Letters \cup
    CASE traits = "restinio_default" -> {45, 46, 95, 126}
      [] traits = "x_www_form_urlencoded" -> {42, 45, 46, 95}
      [] traits = "javascript_compatible" -> {45, 46, 126, 95, 42, 33, 39, 40, 41}
      [] traits = "relaxed" ->
            {0, 32, 45, 46, 95, 126} \cup {58, 47, 63, 35, 91, 93, 64}
                \cup {33, 36, 38, 39, 40, 41, 42, 43, 44, 59, 61}

HexValue(c) == IF c \in Digits THEN c - 48 ELSE IF c <= 70 THEN c - 55 ELSE c - 87

\* extract_escaped_char()
ExtractEscapedChar(c1, c2) == 16 * HexValue(c1) + HexValue(c2)

\* An escape sequence starts at position i (from 1).
EscapeAt(data, i) ==
    /\ data[i] = PERCENT
    /\ i + 2 <= Len(data)
    /\ data[i + 1] \in HexDigits
    /\ data[i + 2] \in HexDigits

Unescaped(ok, out, data) == [ok |-> ok, out |-> out, data |-> data]

RECURSIVE UnescapeFrom(_, _, _, _, _, _)

\* A form of UnescapeFrom that lets a text end within a UTF-8 sequence.
UnescapeFromUnfinished(traits, inplace, data, i, utf8, out) ==
    LET byte == ExtractEscapedChar(data[i + 1], data[i + 2])
        next == Utf8ProcessByte(utf8, byte)
        collect(ch, n, checker) ==
            UnescapeFrom(traits, inplace,
                IF inplace THEN [data EXCEPT ![Len(out) + 1] = ch] ELSE data,
                i + n, checker, Append(out, ch))
    IN  IF i > Len(data) THEN Unescaped(TRUE, out, data)
        ELSE IF ~Utf8Finalized(utf8) /\ data[i] # PERCENT THEN Unescaped(FALSE, out, data)
        ELSE IF EscapeAt(data, i) /\ Utf8Ok(next)
             THEN collect(byte, 3, IF Utf8Finalized(next) THEN Utf8Reset(next) ELSE next)
        ELSE IF data[i] = PLUS THEN collect(32, 1, utf8)
        ELSE IF data[i] \in OrdinaryChar(traits) THEN collect(data[i], 1, utf8)
        ELSE Unescaped(FALSE, out, data)

\* The loop of do_unescape_percent_encoding() from position i on; out is what
\* the collector has got, expect_next_utf8_byte is a utf8_checker that is not
\* finalized.  The collector of the in-place forms writes into the text that
\* is being read.
UnescapeFrom(traits, inplace, data, i, utf8, out) ==
    LET byte == ExtractEscapedChar(data[i + 1], data[i + 2])
        next == Utf8ProcessByte(utf8, byte)
        collect(ch, n, checker) ==
            UnescapeFrom(traits, inplace,
                IF inplace THEN [data EXCEPT ![Len(out) + 1] = ch] ELSE data,
                i + n, checker, Append(out, ch))
    IN  IF i > Len(data) THEN Unescaped(Utf8Finalized(utf8), out, data)
        ELSE IF ~Utf8Finalized(utf8) /\ data[i] # PERCENT THEN Unescaped(FALSE, out, data)
        ELSE IF EscapeAt(data, i) /\ Utf8Ok(next)
             THEN collect(byte, 3, IF Utf8Finalized(next) THEN Utf8Reset(next) ELSE next)
        ELSE IF data[i] = PLUS THEN collect(32, 1, utf8)
        ELSE IF data[i] \in OrdinaryChar(traits) THEN collect(data[i], 1, utf8)
        ELSE Unescaped(FALSE, out, data)

\* (try_)unescape_percent_encoding()
TryUnescape(traits, data) == UnescapeFrom(traits, FALSE, data, 1, NewUtf8Checker, <<>>)

\* (try_)inplace_unescape_percent_encoding(): the beginning of the buffer, as
\* long as the number of characters that were written.
Written(r) == [r EXCEPT !.out = SubSeq(r.data, 1, Len(r.out))]
InplaceUnescape(traits, data) == Written(UnescapeFrom(traits, TRUE, data, 1, NewUtf8Checker, <<>>))

HexDigit(v) == IF v < 10 THEN 48 + v ELSE 55 + v

\* escape_percent_encoding() of characters below 128: "%{:02X}" of a negative
\* char is not modelled.
RECURSIVE Escape(_, _)
Escape(traits, data) ==
    IF data = <<>> THEN <<>>
    ELSE (IF Head(data) \in OrdinaryChar(traits) THEN <<Head(data)>>
          ELSE <<PERCENT, HexDigit(Head(data) \div 16), HexDigit(Head(data) % 16)>>)
         \o Escape(traits, Tail(data))

-------------------------------------------------------------------------------
(* uri_normalization::unreserved_chars                                     *)

Normalized(ok, out) == [ok |-> ok, out |-> out]

\* A form of NormalizeFrom that decodes every one-byte character.
RECURSIVE NormalizeFrom(_, _, _, _)
NormalizeFromAllAscii(what, i, utf8, out) ==
    LET byte == ExtractEscapedChar(what[i + 1], what[i + 2])
        next == Utf8ProcessByte(utf8, byte)
        decoded == Utf8Finalized(next) /\ next.symbol < 128
    IN  IF i > Len(what) THEN Normalized(Utf8Finalized(utf8), out)
        ELSE IF ~Utf8Finalized(utf8) /\ what[i] # PERCENT THEN Normalized(FALSE, out)
        ELSE IF what[i] # PERCENT THEN NormalizeFrom(what, i + 1, utf8, Append(out, what[i]))
        ELSE IF ~EscapeAt(what, i) \/ ~Utf8Ok(next) THEN Normalized(FALSE, out)
        ELSE NormalizeFrom(what, i + 3,
                IF Utf8Finalized(next) THEN Utf8Reset(next) ELSE next,
                out \o (IF decoded THEN <<next.symbol>> ELSE SubSeq(what, i, i + 2)))

\* run_normalization_algo() with the handlers of normalize_to(): the output
\* that the handlers were given, and whether the end was reached.
NormalizeFrom(what, i, utf8, out) ==
    LET byte == ExtractEscapedChar(what[i + 1], what[i + 2])
        next == Utf8ProcessByte(utf8, byte)
        decoded == Utf8Finalized(next) /\ next.symbol \in OrdinaryChar("restinio_default")
    IN  IF i > Len(what) THEN Normalized(Utf8Finalized(utf8), out)
        ELSE IF ~Utf8Finalized(utf8) /\ what[i] # PERCENT THEN Normalized(FALSE, out)
        ELSE IF what[i] # PERCENT THEN NormalizeFrom(what, i + 1, utf8, Append(out, what[i]))
        ELSE IF ~EscapeAt(what, i) \/ ~Utf8Ok(next) THEN Normalized(FALSE, out)
        ELSE NormalizeFrom(what, i + 3,
                IF Utf8Finalized(next) THEN Utf8Reset(next) ELSE next,
                out \o (IF decoded THEN <<next.symbol>> ELSE SubSeq(what, i, i + 2)))

NormalizeTo(what) == NormalizeFrom(what, 1, NewUtf8Checker, <<>>)

\* estimate_required_capacity() runs the same loop with handlers that count.
EstimateRequiredCapacity(normalized) == Len(normalized.out)

\* target_path_holder_t: the path is taken as it is when its size does not
\* change, and the constructor throws (ok is FALSE) for an ill-formed path.
TargetPathHolder(original, normalized) ==
    IF ~normalized.ok THEN Normalized(FALSE, <<>>)
    ELSE Normalized(TRUE, IF EstimateRequiredCapacity(normalized) # Len(original)
                         THEN normalized.out ELSE original)
TargetPath(original) == TargetPathHolder(original, NormalizeTo(original))
===============================================================================
