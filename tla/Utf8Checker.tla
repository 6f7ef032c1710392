---------------------------- MODULE Utf8Checker -----------------------------
(***************************************************************************)
(* utf8_checker_t (utils/utf8_checker.hpp): checks a byte stream for       *)
(* well-formed UTF-8, one byte at a time.  A checker is [symbol, rest,     *)
(* state]: m_current_symbol, m_current_symbol_rest_bytes and m_state.      *)
(*                                                                         *)
(* A byte is a number; a test such as (byte & 0xC0) == 0x80 becomes the    *)
(* interval of the bytes that satisfy it.                                  *)
(***************************************************************************)
EXTENDS Naturals, Sequences

Byte == 0 .. 255

NewUtf8Checker == [symbol |-> 0, rest |-> 0, state |-> "valid"]

IsContinuation(b) == b \in 128 .. 191

\* The second bytes that make a symbol of rest + 1 bytes overlong.
OverlongSecond(rest) ==
  CASE rest = 2 -> 128 .. 159
    [] rest = 3 -> 128 .. 143
    [] rest = 4 -> 128 .. 135
    [] rest = 5 -> 128 .. 131
    [] OTHER    -> {}

CheckOverlong(c, b) ==
  IF c.rest > 0 /\ c.state = "may_be_overlong"
  THEN IF b \in OverlongSecond(c.rest) THEN "overlong" ELSE "valid"
  ELSE CASE b \in {192, 193}           -> "overlong"
         [] b \in {224, 240, 248, 252} -> "may_be_overlong"
         [] OTHER                      -> c.state

\* validate_current_symbol()
ValidSymbol(symbol) ==
  ~ (symbol >= 55296 /\ symbol <= 57343) /\ symbol < 1114112

\* How many bytes follow the first byte b of a symbol, and the bits of the
\* symbol in b; a byte that cannot be the first one is invalid.
FirstByte(b) ==
  CASE b < 128          -> [ok |-> TRUE,  rest |-> 0, bits |-> b]
    [] b \in 192 .. 223 -> [ok |-> TRUE,  rest |-> 1, bits |-> b % 32]
    [] b \in 224 .. 239 -> [ok |-> TRUE,  rest |-> 2, bits |-> b % 16]
    [] b \in 240 .. 247 -> [ok |-> TRUE,  rest |-> 3, bits |-> b % 8]
    [] b \in 248 .. 251 -> [ok |-> TRUE,  rest |-> 4, bits |-> b % 4]
    [] b \in 252 .. 253 -> [ok |-> TRUE,  rest |-> 5, bits |-> b % 2]
    [] OTHER            -> [ok |-> FALSE, rest |-> 0, bits |-> b]

\* Mutant: a symbol is not looked at once its bytes are there.
Utf8ProcessByteNoRange(c, b) ==
  LET state == CheckOverlong(c, b)
      first == FirstByte(b)
  IN  IF c.rest = 0
      THEN [symbol |-> first.bits, rest |-> first.rest,
            state  |-> IF first.ok THEN state ELSE "invalid"]
      ELSE IF IsContinuation(b)
      THEN [symbol |-> c.symbol * 64 + (b % 64), rest |-> c.rest - 1, state |-> state]
      ELSE [c EXCEPT !.state = "invalid"]

\* process_byte(), without its result.
Utf8ProcessByte(c, b) ==
  LET state  == CheckOverlong(c, b)
      first  == FirstByte(b)
      symbol == c.symbol * 64 + (b % 64)
  IN  IF c.rest = 0
      THEN [symbol |-> first.bits, rest |-> first.rest,
            state  |-> IF first.ok THEN state ELSE "invalid"]
      ELSE IF IsContinuation(b)
      THEN [symbol |-> symbol, rest |-> c.rest - 1,
            state  |-> IF c.rest = 1 /\ ~ ValidSymbol(symbol) THEN "invalid" ELSE state]
      ELSE [c EXCEPT !.state = "invalid"]

\* The result of process_byte() that left the checker c behind.
Utf8Ok(c) == c.state \in {"valid", "may_be_overlong"}

Utf8Finalized(c) == c.rest = 0

\* reset() leaves m_state as it is.
Utf8Reset(c) == [c EXCEPT !.symbol = 0, !.rest = 0]

-----------------------------------------------------------------------------
(* Reference: well-formed byte sequences of one character (RFC 3629).      *)

WellFormedSymbol(s) ==
  \/ Len(s) = 1 /\ s[1] < 128
  \/ Len(s) = 2 /\ s[1] \in 194 .. 223 /\ IsContinuation(s[2])
  \/ /\ Len(s) = 3 /\ IsContinuation(s[2]) /\ IsContinuation(s[3])
     /\ \/ s[1] = 224 /\ s[2] >= 160
        \/ s[1] \in (225 .. 239) \ {237}
        \/ s[1] = 237 /\ s[2] < 160
  \/ /\ Len(s) = 4 /\ \A i \in 2 .. 4 : IsContinuation(s[i])
     /\ \/ s[1] = 240 /\ s[2] >= 144
        \/ s[1] \in 241 .. 243
        \/ s[1] = 244 /\ s[2] < 144

\* s is a sequence of well-formed symbols: wf[n] says it of its first n bytes.
WellFormedUtf8(s) ==
  LET wf[n \in 0 .. Len(s)] ==
        n = 0 \/ \E k \in 1 .. 4 :
          k <= n /\ wf[n - k] /\ WellFormedSymbol(SubSeq(s, n - k + 1, n))
  IN  wf[Len(s)]
=============================================================================
