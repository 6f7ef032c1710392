-------------------------------- MODULE Base64 --------------------------------
(***************************************************************************)
(* utils/base64.hpp: encode() and try_decode().  A byte or a character is  *)
(* its code 0..255; the two lookup tables of base64_lut.ipp are Alphabet   *)
(* and its inverse.                                                        *)
(***************************************************************************)
EXTENDS Integers, Sequences

PADDING == 61       \* '='

\* base64_alphabet: A-Z a-z 0-9 + /
Alphabet(v) == IF v < 26 THEN 65 + v ELSE IF v < 52 THEN 97 + v - 26
               ELSE IF v < 62 THEN 48 + v - 52 ELSE IF v = 62 THEN 43 ELSE 47

Base64Digits == {Alphabet(v) : v \in 0 .. 63}

\* is_base64_char(): the padding is a part of the table.
IsBase64Char == Base64Digits \cup {PADDING}

\* base64_decode_lut
DecodeTable(c) == CHOOSE v \in 0 .. 63 : Alphabet(v) = c

\* n_bits_from< char, Shift, n >(bs) of utils/impl/bitops.hpp
NBitsFrom(bs, shift, n) == (bs \div (2 ^ shift)) % (2 ^ n)

\* A form of EncodeGroup that pads one character too early.
EncodeGroupShort(g) ==
    LET byte(i) == IF i <= Len(g) THEN g[i] ELSE 0
        bs == byte(1) * 65536 + byte(2) * 256 + byte(3)
        digit(i) == Alphabet(NBitsFrom(bs, 24 - 6 * i, 6))
    IN  [i \in 1 .. 4 |-> IF i <= Len(g) \/ i = 2 \/ Len(g) = 3 THEN digit(i) ELSE PADDING]

\* encode() of one group of 1, 2 or 3 bytes.
EncodeGroup(g) ==
    LET byte(i) == IF i <= Len(g) THEN g[i] ELSE 0
        bs == byte(1) * 65536 + byte(2) * 256 + byte(3)
        digit(i) == Alphabet(NBitsFrom(bs, 24 - 6 * i, 6))
    IN  [i \in 1 .. 4 |-> IF i <= Len(g) + 1 THEN digit(i) ELSE PADDING]

RECURSIVE Encode(_)
Encode(bytes) ==
    IF bytes = <<>> THEN <<>>
    ELSE IF Len(bytes) <= 3 THEN EncodeGroup(bytes)
    ELSE EncodeGroup(SubSeq(bytes, 1, 3)) \o Encode(SubSeq(bytes, 4, Len(bytes)))

\* One character of the loop of is_valid_base64_string(); st.expects is
\* "invalid" after `return false`.
ValidStep(st, ch) ==
    CASE st.expects = "b64ch" /\ ch # PADDING /\ ch \in IsBase64Char ->
            [st EXCEPT !.chars = @ + 1,
                       !.expects = IF st.chars + 1 >= 2 THEN "b64ch_or_padding" ELSE @]
      [] st.expects = "b64ch_or_padding" /\ ch = PADDING ->
            [st EXCEPT !.expects = "padding", !.paddings = @ + 1]
      [] st.expects = "b64ch_or_padding" /\ ch # PADDING /\ ch \in IsBase64Char -> st
      [] st.expects = "padding" /\ ch = PADDING /\ st.paddings + 1 <= 2 ->
            [st EXCEPT !.paddings = @ + 1]
      [] OTHER -> [st EXCEPT !.expects = "invalid"]

RECURSIVE ValidFrom(_, _)
ValidFrom(st, text) ==
    IF text = <<>> THEN st.expects # "invalid" ELSE ValidFrom(ValidStep(st, Head(text)), Tail(text))

IsValidBase64String(text) ==
    Len(text) >= 4 /\ ValidFrom([expects |-> "b64ch", chars |-> 0, paddings |-> 0], text)

\* A form of DecodeGroup that returns the bytes of the padding, too.
DecodeGroupPadded(g) ==
    LET sextet(i) == IF g[i] = PADDING THEN 0 ELSE DecodeTable(g[i])
        bs == sextet(1) * 262144 + sextet(2) * 4096 + sextet(3) * 64 + sextet(4)
    IN  [i \in 1 .. 3 |-> NBitsFrom(bs, 24 - 8 * i, 8)]

\* One iteration of the loop of try_decode() over a whole group.
DecodeGroup(g) ==
    LET sextet(i) == IF g[i] = PADDING THEN 0 ELSE DecodeTable(g[i])
        bs == sextet(1) * 262144 + sextet(2) * 4096 + sextet(3) * 64 + sextet(4)
        paddings == Len(SelectSeq(SubSeq(g, 3, 4), LAMBDA c : c = PADDING))
    IN  [i \in 1 .. 3 - paddings |-> NBitsFrom(bs, 24 - 8 * i, 8)]

RECURSIVE DecodeGroups(_)
DecodeGroups(text) ==
    IF text = <<>> THEN <<>>
    ELSE DecodeGroup(SubSeq(text, 1, 4)) \o DecodeGroups(SubSeq(text, 5, Len(text)))

\* try_decode() of a text of whole groups (Len(text) % 4 = 0): the characters
\* that an incomplete last group would read lie beyond the text.
TryDecode(text) ==
    IF IsValidBase64String(text) THEN [ok |-> TRUE, bytes |-> DecodeGroups(text)]
    ELSE [ok |-> FALSE, bytes |-> <<>>]
===============================================================================
