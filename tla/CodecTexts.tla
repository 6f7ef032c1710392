------------------------------- MODULE CodecTexts -------------------------------
(***************************************************************************)
(* The encoders and decoders of utils/ and uri_helpers.hpp on every text   *)
(* over an alphabet, compared with references written without their loops. *)
(***************************************************************************)
EXTENDS QueryString, FromString, Base64, Sha1, Texts, SequencesExt

-------------------------------------------------------------------------------
(* References.                                                             *)

Traits == {"restinio_default", "x_www_form_urlencoded", "javascript_compatible"}
QueryTraits == {"restinio_defaults", "x_www_form_urlencoded", "javascript_compatible"}

\* The parts of a text between the characters of a set.
PiecesOf(s, seps) ==
    LET step(parts, c) == IF c \in seps THEN Append(parts, <<>>)
                          ELSE [parts EXCEPT ![Len(parts)] = Append(@, c)]
    IN  FoldLeft(step, <<<<>>>>, s)

\* The bytes a text with escapes stands for, and whether each of them came
\* from an escape; ok is FALSE where a percent sign starts no escape.
RECURSIVE Bytes(_)
Bytes(s) ==
    LET more(b, e, n) == LET r == Bytes(SubSeq(s, n + 1, Len(s)))
                         IN  [ok |-> r.ok, bytes |-> <<b>> \o r.bytes, esc |-> <<e>> \o r.esc]
    IN  IF s = <<>> THEN [ok |-> TRUE, bytes |-> <<>>, esc |-> <<>>]
        ELSE IF s[1] # PERCENT THEN more(s[1], FALSE, 1)
        ELSE IF EscapeAt(s, 1) THEN more(ExtractEscapedChar(s[2], s[3]), TRUE, 3)
        ELSE [ok |-> FALSE, bytes |-> <<>>, esc |-> <<>>]

\* A text can be decoded: its escapes are escapes of whole UTF-8 symbols and
\* the characters between them may stand unescaped.
EscapedRuns(b) ==
    PiecesOf([i \in DOMAIN b.bytes |-> IF b.esc[i] THEN b.bytes[i] ELSE -1], {-1})
WellEscaped(b) ==
    b.ok /\ \A k \in DOMAIN EscapedRuns(b) : WellFormedUtf8(EscapedRuns(b)[k])
PlainChars(b) == {b.bytes[i] : i \in {j \in DOMAIN b.bytes : ~b.esc[j]}}
Decodes(traits, s) ==
    LET b == Bytes(s) IN WellEscaped(b) /\ PlainChars(b) \subseteq OrdinaryChar(traits) \cup {PLUS}
DecodedText(s) ==
    LET b == Bytes(s)
    IN  [i \in DOMAIN b.bytes |-> IF b.bytes[i] = PLUS /\ ~b.esc[i] THEN 32 ELSE b.bytes[i]]

\* The message of the SHA-1 standard: one bit, zeros up to eight bytes before
\* the end of a block, and the length in bits.
Padded(s) ==
    LET zeros == (BlockSize - ((Len(s) + 9) % BlockSize)) % BlockSize
    IN  s \o <<128>> \o [i \in 1 .. zeros |-> 0] \o BitsToBytes(8 * Len(s))
Blocks(s) ==
    [k \in 1 .. Len(s) \div BlockSize |-> SubSeq(s, BlockSize * (k - 1) + 1, BlockSize * k)]

-------------------------------------------------------------------------------
(* Properties.                                                             *)

\* utf8_checker_t, fed byte by byte, accepts and is finalized after exactly
\* the texts that are well-formed UTF-8: no overlong form, no surrogate, no
\* symbol beyond U+10FFFF, no sequence cut short.
Utf8Exact ==
    subject = "utf8" =>
        LET checker == FoldLeft(LAMBDA c, b : IF Utf8Ok(c) THEN Utf8ProcessByte(c, b) ELSE c,
                                NewUtf8Checker, text)
        IN  Utf8Ok(checker) /\ Utf8Finalized(checker) <=> WellFormedUtf8(text)

\* r and inplace are what the two forms of unescaping make of the text.
Unescapes(traits, r, inplace) ==
    /\ r.ok <=> Decodes(traits, text)
    /\ r.ok => /\ r.out = DecodedText(text)
               /\ inplace.ok /\ inplace.out = r.out
               /\ (\A i \in DOMAIN r.out : r.out[i] < 128) =>
                      TryUnescape(traits, Escape(traits, r.out)).out = r.out
    /\ ~r.ok => ~inplace.ok

\* do_unescape_percent_encoding() accepts exactly the texts whose escapes
\* spell whole UTF-8 symbols and returns what they stand for; the form that
\* writes into the buffer it reads returns the same; escaping what was
\* decoded and decoding it again changes nothing.
UnescapeExact ==
    subject = "percent" => \A traits \in Traits :
        Unescapes(traits, TryUnescape(traits, text), InplaceUnescape(traits, text))

\* r is the normal form of the text, before and after are the bytes of both.
Normalizes(r, before, after) ==
    /\ r.ok <=> WellEscaped(before)
    /\ r.ok => /\ after.bytes = before.bytes
               /\ \A i \in DOMAIN after.bytes :
                      after.esc[i] <=> /\ before.esc[i]
                                       /\ after.bytes[i] \notin OrdinaryChar("restinio_default")
               /\ TargetPath(r.out) = r

\* The normalisation that target_path_holder_t applies to a path: it accepts
\* the paths whose escapes spell whole UTF-8 symbols, the path stands for the
\* same bytes afterwards, an unreserved character is never left escaped and a
\* reserved one never decoded, and a second normalisation changes nothing.
NormalizationExact ==
    subject = "percent" =>
        Normalizes(TargetPath(text), Bytes(text), Bytes(TargetPath(text).out))

\* q is what try_parse_query() makes of the text.
QueryIs(q, pieces, traits) ==
    LET pairs == IF Last(pieces) = <<>> THEN Front(pieces) ELSE pieces
        eq(p) == FindFirstOf(p, {EQ}, 1)
        key(p) == SubSeq(p, 1, eq(p) - 1)
        value(p) == SubSeq(p, eq(p) + 1, Len(p))
        decodes(s) == Decodes(UnescapeTraits(traits), s)
        tag == text # <<>> /\ \A i \in DOMAIN text : text[i] # EQ
        well == \A p \in Range(pairs) : eq(p) <= Len(p) /\ decodes(key(p)) /\ decodes(value(p))
    IN  /\ q.ok <=> IF tag THEN decodes(text) ELSE well
        /\ q.ok /\ tag => q.tag = DecodedText(text) /\ q.params = <<>>
        /\ q.ok /\ ~tag =>
               /\ q.params = [k \in DOMAIN pairs |->
                        [key |-> DecodedText(key(pairs[k])), value |-> DecodedText(value(pairs[k]))]]
               /\ \A k \in DOMAIN q.params :
                      Has(q, q.params[k].key) /\ \E j \in 1 .. k :
                          GetParam(q, q.params[k].key) = q.params[j].value

\* try_parse_query() accepts an empty query, a tag without an equals sign, and
\* a list of pairs with one optional separator at the end; every pair is
\* split at its first equals sign and decoded on its own, so an escaped
\* separator or equals sign never moves a boundary although the buffer is
\* decoded in place while it is searched.
QueryExact ==
    subject = "query" => \A traits \in QueryTraits :
        QueryIs(TryParseQuery(traits, text), PiecesOf(text, Separators(traits)), traits)

AT == 64

\* The number a text stands for, if it is an optional sign and digits.
IsNumeral(s) ==
    LET digits == IF s[1] \in {43, MINUS} THEN Tail(s) ELSE s
    IN  digits # <<>> /\ \A i \in DOMAIN digits : digits[i] \in 48 .. 57
NumeralValue(s) ==
    LET digits == IF s[1] \in {43, MINUS} THEN Tail(s) ELSE s
        n == FoldLeft(LAMBDA v, c : 10 * v + c - 48, 0, digits)
    IN  IF s[1] = MINUS THEN -n ELSE n

\* parse_integer<T>() accepts a numeral of at most as many digits as the
\* greatest value of T has, if its value is one of T and unsigned types see
\* no minus sign, and returns that value: the comparison of texts that stands
\* for the comparison with the limits, and the arithmetic in T downwards and
\* upwards, agree with the numbers at every boundary.  Nothing is said of a
\* text with an at sign: digits_mapping() gives it the value 240 and not the
\* mark of a character that is no digit, and parse_integer() takes it for one.
IntegerExact ==
    subject = "integer" /\ text # <<>> /\ AT \notin Range(text) => \A T \in {Int8, UInt8} :
        LET r == ParseInteger(T, text)
            sign == IF text[1] \in {43, MINUS} THEN 1 ELSE 0
        IN  /\ r.ok <=> /\ IsNumeral(text)
                        /\ text[1] = MINUS => T.signed
                        /\ Len(text) - sign <= Len(Decimal(TypeMax(T)))
                        /\ NumeralValue(text) \in TypeMin(T) .. TypeMax(T)
            /\ r.ok => r.value = NumeralValue(text)

\* builder_t of sha1.hpp: a message given to update() in two parts, cut at
\* its start, after its first byte, in the middle or at its end, passes
\* through transform() as the blocks of the padded message of the standard,
\* and make_digest() does the same in one call.  (Not for a message that
\* leaves 56 bytes in the last block: finish() then writes the count over the
\* 0x80 of the padding.)
BlocksExact ==
    subject = "sha1" /\ Len(text) % BlockSize # BlockSize - 8 =>
        /\ MakeDigest(text) = Blocks(Padded(text))
        /\ \A n \in {0, 1, Len(text) \div 2, Len(text)} \cap 0 .. Len(text) :
            Finish(Update(Update(NewBuilder, SubSeq(text, 1, n)), SubSeq(text, n + 1, Len(text))))
                = Blocks(Padded(text))

\* base64::encode() gives whole groups that is_valid_base64_string() accepts
\* and that try_decode() turns back into the same bytes.
Base64RoundTrip ==
    subject = "base64" /\ text # <<>> =>
        LET e == Encode(text)
        IN  /\ Len(e) = 4 * ((Len(text) + 2) \div 3)
            /\ TryDecode(e) = [ok |-> TRUE, bytes |-> text]

\* The texts of a URI: UTF-8, percent encoding, normal forms and queries are
\* read by the code as the reference definitions say.
UriTextsExact == Utf8Exact /\ UnescapeExact /\ NormalizationExact /\ QueryExact

\* The two codecs that the handshake of a WebSocket applies to its key.
BinaryCodecsExact == BlocksExact /\ Base64RoundTrip
===============================================================================
