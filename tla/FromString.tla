------------------------------- MODULE FromString -------------------------------
(***************************************************************************)
(* utils/from_string.hpp and from_string_details.ipp: parse_integer<>().   *)
(* An integer type is [bits, signed] as in IntegerAccumulator.             *)
(***************************************************************************)
EXTENDS Integers, Sequences, IntegerAccumulator

MINUS == 45

\* digits_mapping(): the value of a digit; 0xFF, "not a digit", for all other
\* characters but '@', which has 0xF0.
DigitsMapping(c) == IF c \in 48 .. 57 THEN c - 48 ELSE IF c = 64 THEN 240 ELSE 255

\* The decimal digits of a number, and of a limit of the type: what
\* max_representation() and min_representation() (without its sign) hold.
RECURSIVE Decimal(_)
Decimal(n) == IF n < 10 THEN <<48 + n>> ELSE Append(Decimal(n \div 10), 48 + (n % 10))
MaxRepresentation(T) == Decimal(TypeMax(T))
MinRepresentation(T) == Decimal(-TypeMin(T))
DigitsRepresentationMaxSize(T) == Len(MaxRepresentation(T))

\* memcmp() > 0 for two texts of one length.
Greater(a, b) ==
    \E i \in DOMAIN a : a[i] > b[i] /\ \A j \in 1 .. i - 1 : a[j] = b[j]

\* A value converted to T.
Converted(T, v) ==
    LET u == v % (2 ^ T.bits) IN IF u > TypeMax(T) THEN u - 2 ^ T.bits ELSE u

\* parse_integer_no_checks(): the value is built in T, downwards after a minus.
RECURSIVE ParseIntegerNoChecks(_, _, _, _)
ParseIntegerNoChecks(T, digits, sign, result) ==
    IF digits = <<>> THEN result
    ELSE ParseIntegerNoChecks(T, Tail(digits), sign,
            Converted(T, result * 10 + sign * DigitsMapping(Head(digits))))

Rejected == [ok |-> FALSE, value |-> 0]

\* A form of ParseInteger that compares a negative number with the greatest
\* value of the type.
ParseIntegerOneLimit(T, s) ==
    LET minus == s[1] = MINUS
        digits == IF s[1] \in {MINUS, 43} THEN Tail(s) ELSE s
    IN  IF \/ minus /\ ~T.signed
           \/ Len(digits) = 0
           \/ DigitsRepresentationMaxSize(T) < Len(digits)
           \/ \E i \in DOMAIN digits : DigitsMapping(digits[i]) = 255
           \/ /\ DigitsRepresentationMaxSize(T) = Len(digits)
              /\ Greater(digits, MaxRepresentation(T))
        THEN Rejected
        ELSE [ok |-> TRUE, value |-> ParseIntegerNoChecks(T, digits, IF minus THEN -1 ELSE 1, 0)]

\* parse_integer() of a text that is not empty (the code reads its first
\* character at once).
ParseInteger(T, s) ==
    LET minus == s[1] = MINUS
        digits == IF s[1] \in {MINUS, 43} THEN Tail(s) ELSE s
    IN  IF \/ minus /\ ~T.signed
           \/ Len(digits) = 0
           \/ DigitsRepresentationMaxSize(T) < Len(digits)
           \/ \E i \in DOMAIN digits : DigitsMapping(digits[i]) = 255
           \/ /\ DigitsRepresentationMaxSize(T) = Len(digits)
              /\ Greater(digits, IF minus THEN MinRepresentation(T) ELSE MaxRepresentation(T))
        THEN Rejected
        ELSE [ok |-> TRUE, value |-> ParseIntegerNoChecks(T, digits, IF minus THEN -1 ELSE 1, 0)]
===============================================================================
