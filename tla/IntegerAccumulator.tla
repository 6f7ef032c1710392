------------------------- MODULE IntegerAccumulator -------------------------
(***************************************************************************)
(* overflow_controlled_integer_accumulator_t<T, Multiplier, Extremum>      *)
(* (impl/overflow_controlled_integer_accumulator.hpp): the integer that    *)
(* is built digit by digit by every number parser of the library           *)
(* (easy_parser's number producers and read_value of from_string).  An     *)
(* integer type T is [bits, signed]; the accumulator works in              *)
(* std::make_unsigned_t<T>, so every intermediate value is taken modulo    *)
(* 2^bits.                                                                 *)
(***************************************************************************)
EXTENDS Integers, Sequences

Int8 == [bits |-> 8, signed |-> TRUE]
UInt8 == [bits |-> 8, signed |-> FALSE]
UInt16 == [bits |-> 16, signed |-> FALSE]

TypeMin(T) == IF T.signed THEN -(2 ^ (T.bits - 1)) ELSE 0
TypeMax(T) == IF T.signed THEN 2 ^ (T.bits - 1) - 1 ELSE 2 ^ T.bits - 1

\* A form of ExtremumValue with one limit for both signs.
ExtremumValueOneLimit(T, ext) == TypeMax(T)

\* extremum_value<T, Ext>::value: the absolute value of the limit in the
\* unsigned storage type (Ext is "positive" or "negative").
ExtremumValue(T, ext) == IF ext = "negative" THEN -TypeMin(T) ELSE TypeMax(T)

NewAccumulator == [current |-> 0, overflow |-> FALSE]

\* is_greater_than_maximum<T>: the comparison exists for signed types only.
IsGreaterThanMaximum(T, v, maximum) == T.signed /\ v > maximum

\* next_digit(): the wrap of the unsigned storage is looked for by comparing
\* the updated value with the previous one.
NextDigit(acc, digit, base, T, ext) ==
    LET updated == (acc.current * base + digit) % (2 ^ T.bits)
    IN  IF updated < acc.current
           \/ IsGreaterThanMaximum(T, updated, ExtremumValue(T, ext))
        THEN [acc EXCEPT !.overflow = TRUE]
        ELSE [acc EXCEPT !.current = updated]

\* static_cast<T>( -(*r) ) for a negated accumulator value: the value of the
\* storage is brought back to T first (value() returns T).
Negated(T, v) == IF v = -TypeMin(T) THEN TypeMin(T) ELSE -v
=============================================================================
