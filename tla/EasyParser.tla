------------------------------ MODULE EasyParser ------------------------------
(***************************************************************************)
(* restinio::easy_parser (helpers/easy_parser.hpp): parsers are trees of   *)
(* producers (they return a value) and clauses (they change a target       *)
(* value), built by factory functions and run by try_parse().  A producer  *)
(* or a clause is a record here; TryParse and TryProcess are its           *)
(* try_parse() and try_process().  A character is its code 0..255 and a    *)
(* text is a sequence of codes.                                            *)
(*                                                                         *)
(* The source is a text and a position (the number of characters taken).   *)
(* content_consumer_t, which brings the position back unless commit() was  *)
(* called, is the choice of the position that a definition returns.        *)
(* Positions inside error values only serve messages and are left out;     *)
(* the reason of an error is kept because alternatives look at it.         *)
(***************************************************************************)
EXTENDS Integers, Sequences, IntegerAccumulator

CONSTANTS
    Rules,                      \* name -> producer: producers that refer to themselves
    CustomTryParse(_, _, _),    \* try_parse() of the producers written by hand
    CustomTransform(_, _),      \* [ok, out]: a transformer written by hand, or its exception
    CustomConsume(_, _, _)      \* what the lambda of a custom_consumer() makes of its target

Chars == 0 .. 255
N == 1000000                  \* "no limit" of repeat()

SP == 32
HTAB == 9
IsSpace == {SP, HTAB}
IsDigit == 48 .. 57
IsHexdigit == IsDigit \cup 65 .. 70 \cup 97 .. 102
Upper == 65 .. 90
Lower == 97 .. 122

ToLowerChar(c) == IF c \in Upper THEN c + 32 ELSE c
ToLower(text) == [i \in 1 .. Len(text) |-> ToLowerChar(text[i])]

DigitValue(c) == IF c \in IsDigit THEN c - 48
                 ELSE IF c \in Upper THEN 10 + c - 65 ELSE 10 + c - 97

-------------------------------------------------------------------------------
(* Results.  try_parse() gives a value or an error; try_process() gives    *)
(* nullopt or an error, and val is then what it has made of the target.    *)

Value(pos, val) == [ok |-> TRUE, pos |-> pos, val |-> val, err |-> "none"]
Failed(pos, dest, reason) == [ok |-> FALSE, pos |-> pos, val |-> dest, err |-> reason]
Error(pos, reason) == Failed(pos, <<>>, reason)
Processed(pos, dest) == Value(pos, dest)

Eof(src, pos) == pos = Len(src)
At(src, pos) == src[pos + 1]

-------------------------------------------------------------------------------
(* The producers and the clauses, as the factory functions make them.      *)

AnySymbolP == [k |-> "symbol", in |-> Chars]
SymbolP(c) == [k |-> "symbol", in |-> {c}]
CaselessSymbolP(c) == [k |-> "symbol", in |-> {d \in Chars : ToLowerChar(d) = ToLowerChar(c)}]
AnySymbolIfNotP(c) == [k |-> "symbol", in |-> Chars \ {c}]
SymbolFromP(set) == [k |-> "symbol", in |-> set]
SpaceP == SymbolFromP(IsSpace)
DigitP == SymbolFromP(IsDigit)
HexdigitP == SymbolFromP(IsHexdigit)
ExactP(text) == [k |-> "exact", text |-> text]
RuleP(name) == [k |-> "rule", name |-> name]
CustomP(name) == [k |-> "custom", name |-> name]
ProduceP(init, cs) == [k |-> "produce", init |-> init, cs |-> cs]
TransformP(p, f) == [k |-> "transform", p |-> p, f |-> f]

UnlimitedDigits == 127      \* numeric_limits<int_fast8_t>::max()
NumberP(T, base, min, max, sign) ==
    [k |-> "number", T |-> T, base |-> base, min |-> min, max |-> max, sign |-> sign]
NonNegativeDecimalNumberP(T) == NumberP(T, 10, 1, UnlimitedDigits, FALSE)
HexadecimalNumberP(T, min, max) == NumberP(T, 16, min, max, FALSE)
DecimalNumberP(T) == NumberP(T, 10, 1, UnlimitedDigits, TRUE)

\* Transformers.
ToLowerT == [f |-> "to_lower"]
TaggedT(form) == [f |-> "tagged", form |-> form]    \* convert(lambda)
CustomT(name) == [f |-> "custom", name |-> name]

\* Consumers.
Skip == [c |-> "skip"]
AsResult == [c |-> "result"]
ToContainer == [c |-> "append"]
AppendText == [c |-> "concat"]
Setter(field) == [c |-> "set", field |-> field]
AddScaled(m) == [c |-> "add", m |-> m]
CustomConsumer(name) == [c |-> "custom", name |-> name]

Consume(p, how) == [k |-> "consume", p |-> p, how |-> how]
Alternatives(cs) == [k |-> "alternatives", cs |-> cs]
Maybe(cs) == [k |-> "maybe", cs |-> cs]
NotClause(cs) == [k |-> "not", cs |-> cs]
AndClause(cs) == [k |-> "and", cs |-> cs]
Sequence(cs) == [k |-> "sequence", cs |-> cs]
ForceOnlyThisAlternative(cs) == [k |-> "forced", cs |-> cs]
Repeat(min, max, cs) == [k |-> "repeat", min |-> min, max |-> max, cs |-> cs]

Symbol(c) == Consume(SymbolP(c), Skip)
CaselessSymbol(c) == Consume(CaselessSymbolP(c), Skip)
Space == Consume(SpaceP, Skip)
Exact(text) == Consume(ExactP(text), Skip)

-------------------------------------------------------------------------------
(* What a transformer returns and what a consumer does with a value.       *)

Transform(f, v) ==
    CASE f.f = "to_lower" -> [ok |-> TRUE, out |-> ToLower(v)]
      [] f.f = "tagged" -> [ok |-> TRUE, out |-> [value |-> v, form |-> f.form]]
      [] f.f = "custom" -> CustomTransform(f.name, v)

ConsumeValue(how, dest, v) ==
    CASE how.c = "skip" -> dest
      [] how.c = "result" -> v
      [] how.c = "append" -> Append(dest, v)
      [] how.c = "concat" -> dest \o v
      [] how.c = "set" -> [dest EXCEPT ![how.field] = v]
      [] how.c = "add" -> dest + how.m * DigitValue(v)
      [] how.c = "custom" -> CustomConsume(how.name, dest, v)

-------------------------------------------------------------------------------
(* The producers that take characters from the source themselves.          *)

\* symbol_producer_template_t::try_parse()
SymbolTryParse(p, src, pos) ==
    IF Eof(src, pos) THEN Error(pos, "unexpected_eof")
    ELSE IF At(src, pos) \in p.in THEN Value(pos + 1, At(src, pos))
    ELSE Error(pos, "unexpected_character")

\* try_parse_exact_fragment()
ExactTryParse(p, src, pos) ==
    LET end == pos + Len(p.text)
        have == SubSeq(src, pos + 1, IF end < Len(src) THEN end ELSE Len(src))
    IN  IF have = p.text THEN Value(pos + Len(p.text), TRUE)
        ELSE IF have = SubSeq(p.text, 1, Len(have)) THEN Error(pos, "unexpected_eof")
        ELSE Error(pos, "pattern_not_found")

\* try_parse_digits_with_digits_limit() and its hexadecimal twin: `n` digits
\* were taken since `start`.
RECURSIVE DigitsFrom(_, _, _, _, _, _, _)
DigitsFrom(p, src, start, pos, n, acc, ext) ==
    LET set == IF p.base = 16 THEN IsHexdigit ELSE IsDigit
    IN  IF n # p.max /\ ~Eof(src, pos) /\ At(src, pos) \in set
        THEN LET a == NextDigit(acc, DigitValue(At(src, pos)), p.base, p.T, ext)
             IN  IF a.overflow THEN Error(start, "illegal_value_found")
                 ELSE DigitsFrom(p, src, start, pos + 1, n + 1, a, ext)
        ELSE IF n < p.min THEN Error(start, "pattern_not_found")
        ELSE Value(pos, acc.current)

\* content_consumer_t that is not committed: a failure gives back everything
\* since pos.
GivenBack(r, pos) == IF r.ok THEN r ELSE [r EXCEPT !.pos = pos]

\* The value of a number with a minus sign.
NegatedValue(T, r) == IF r.ok THEN [r EXCEPT !.val = Negated(T, @)] ELSE r

\* decimal_number_producer_t::try_parse_with_this_first_symbol() for signed
\* numbers; the other number producers start with the digits at once.
NumberTryParse(p, src, pos) ==
    LET digits(from, ext) == DigitsFrom(p, src, from, from, 0, NewAccumulator, ext)
        first == At(src, pos)
    IN  IF ~p.sign THEN digits(pos, "positive")
        ELSE IF Eof(src, pos) THEN Error(pos, "pattern_not_found")
        ELSE IF first = 45      \* '-'
             THEN GivenBack(NegatedValue(p.T, digits(pos + 1, "negative")), pos)
        ELSE IF first = 43 THEN GivenBack(digits(pos + 1, "positive"), pos)      \* '+'
        ELSE IF first \in IsDigit THEN digits(pos, "positive")
        ELSE Error(pos, "pattern_not_found")

-------------------------------------------------------------------------------
RECURSIVE TryParse(_, _, _), TryProcess(_, _, _, _)
RECURSIVE AllOf(_, _, _), AnyOf(_, _, _, _, _), RepeatFrom(_, _, _, _, _, _)

\* tuple_algorithms::all_of() over the clauses of a compound after r: the
\* first failure ends it; the target keeps what the clauses before it did.
AllOf(r, cs, src) ==
    IF r.ok /\ cs # <<>> THEN AllOf(TryProcess(Head(cs), src, r.pos, r.val), Tail(cs), src) ELSE r

\* A form of AnyOf that goes on after a forced alternative has failed.
AnyOfUnforced(r, cs, src, pos, dest) ==
    IF ~r.ok /\ cs # <<>>
    THEN AnyOf(TryProcess(Head(cs), src, pos, dest), Tail(cs), src, pos, dest)
    ELSE IF r.ok THEN r ELSE Failed(pos, dest, "no_appropriate_alternative")

\* alternatives_clause_t::try_process() after an alternative that gave r:
\* every alternative starts from the same position with a copy of the target;
\* a forced alternative that fails ends the search.
AnyOf(r, cs, src, pos, dest) ==
    IF ~r.ok /\ r.err # "force_only_this_alternative_failed" /\ cs # <<>>
    THEN AnyOf(TryProcess(Head(cs), src, pos, dest), Tail(cs), src, pos, dest)
    ELSE IF r.ok THEN r ELSE Failed(pos, dest, "no_appropriate_alternative")

\* repeat_clause_t::try_process() from start: r is the n-th occurrence, which
\* starts at pos.  A failed occurrence gives its characters back, and so do
\* all of them when they are too few, but the target is the caller's own:
\* what the first clauses of the failed one did to the target stays.
RepeatFrom(r, c, src, start, pos, n) ==
    IF r.ok
    THEN RepeatFrom(IF n = c.max THEN Failed(r.pos, r.val, "limit") ELSE AllOf(r, c.cs, src),
                    c, src, start, r.pos, n + 1)
    ELSE IF n > c.min THEN Processed(pos, r.val)
    ELSE Failed(start, r.val, "pattern_not_found")

\* A form of OrElse without the way back: what the clauses took before the
\* failure stays taken.
OrElseKeeps(r, other) == IF r.ok THEN r ELSE [other EXCEPT !.pos = r.pos]

\* maybe_clause_t::try_process()
OrElse(r, other) == IF r.ok THEN r ELSE other

\* A form of Tested that takes what it has looked at.
TestedTakes(r, wanted, pos, dest) ==
    IF r.ok = wanted THEN Processed(r.pos, dest) ELSE Failed(pos, dest, "pattern_not_found")

\* not_clause_t and and_clause_t: the position and the target never change.
Tested(r, wanted, pos, dest) ==
    IF r.ok = wanted THEN Processed(pos, dest) ELSE Failed(pos, dest, "pattern_not_found")

\* sequence_clause_t::try_process(): the target is a copy until the end.
Unwound(r, pos, dest) == IF r.ok THEN r ELSE Failed(pos, dest, r.err)

\* forced_alternative_clause_t::try_process()
Forced(r) == IF r.ok THEN r ELSE [r EXCEPT !.err = "force_only_this_alternative_failed"]

\* consume_value_clause_t::try_process()
Consumed(r, how, dest) ==
    IF r.ok THEN Processed(r.pos, ConsumeValue(how, dest, r.val)) ELSE Failed(r.pos, dest, r.err)

TryProcess(c, src, pos, dest) ==
    CASE c.k = "consume" -> Consumed(TryParse(c.p, src, pos), c.how, dest)
      [] c.k = "alternatives" -> AnyOf(Failed(pos, dest, "none"), c.cs, src, pos, dest)
      [] c.k = "maybe" -> OrElse(AllOf(Processed(pos, dest), c.cs, src), Processed(pos, dest))
      [] c.k = "not" -> Tested(AllOf(Processed(pos, dest), c.cs, src), FALSE, pos, dest)
      [] c.k = "and" -> Tested(AllOf(Processed(pos, dest), c.cs, src), TRUE, pos, dest)
      [] c.k = "sequence" -> Unwound(AllOf(Processed(pos, dest), c.cs, src), pos, dest)
      [] c.k = "forced" -> Forced(Unwound(AllOf(Processed(pos, dest), c.cs, src), pos, dest))
      [] c.k = "repeat" -> RepeatFrom(Processed(pos, dest), c, src, pos, pos, 0)

\* transformed_value_producer_t::try_parse(); the exception of a transformer
\* ends the parsing, so it is the error of the whole producer.
Transformed(r, f, pos) ==
    LET t == Transform(f, r.val)
    IN  IF ~r.ok THEN r
        ELSE IF t.ok THEN [r EXCEPT !.val = t.out] ELSE Error(pos, "exception")

\* produce_t::try_parse() lets the clauses work on one fresh value; nothing
\* is given back to the source after a failure, that is left to the caller.
TryParse(p, src, pos) ==
    CASE p.k = "symbol" -> SymbolTryParse(p, src, pos)
      [] p.k = "exact" -> ExactTryParse(p, src, pos)
      [] p.k = "number" -> NumberTryParse(p, src, pos)
      [] p.k = "rule" -> TryParse(Rules[p.name], src, pos)
      [] p.k = "custom" -> CustomTryParse(p, src, pos)
      [] p.k = "produce" -> AllOf(Processed(pos, p.init), p.cs, src)
      [] p.k = "transform" -> Transformed(TryParse(p.p, src, pos), p.f, pos)

-------------------------------------------------------------------------------
(* The entry point: try_parse( string_view_t, Producer ).                  *)

\* remove_trailing_spaces()
RemoveTrailingSpaces(text) ==
    LET kept == {i \in 1 .. Len(text) : text[i] \notin IsSpace}
    IN  IF kept = {} THEN <<>>
        ELSE SubSeq(text, 1, CHOOSE i \in kept : \A j \in kept : j <= i)

\* ensure_no_remaining_content()
NoRemainingContent(src, pos) == \A i \in pos + 1 .. Len(src) : src[i] \in IsSpace

Complete(r, src) ==
    IF r.ok /\ ~NoRemainingContent(src, r.pos) THEN Error(r.pos, "unconsumed_input") ELSE r
ParseSource(p, src) == Complete(TryParse(p, src, 0), src)
ParseAll(text, p) == ParseSource(p, RemoveTrailingSpaces(text))
===============================================================================
