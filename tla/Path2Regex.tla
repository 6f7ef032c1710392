------------------------------- MODULE Path2Regex -------------------------------
(***************************************************************************)
(* path2regex/path2regex.hpp: a route of the express router becomes a      *)
(* regular expression and the list of its parameters.                      *)
(*                                                                         *)
(* The route is given as the items that path_regex_str finds in it (the    *)
(* search itself is the work of std::regex): a piece of text, an escaped   *)
(* character or a parameter                                                *)
(*    [name, pattern, modifier]       (:name, :name(pattern), (pattern))   *)
(* with NoName for an indexed one and <<>> for the default pattern.  A     *)
(* regular expression is a tree; a character that escape_string() puts     *)
(* into the text of an expression is a set of one character here.          *)
(***************************************************************************)
EXTENDS Integers, Sequences

CONSTANTS NoName, MaxCaptureGroups

Text(s) == [t |-> "text", text |-> s]
Escaped(c) == [t |-> "escaped", text |-> <<c>>]
Param(name, pattern, modifier) ==
    [t |-> "param", name |-> name, pattern |-> pattern, modifier |-> modifier]

-------------------------------------------------------------------------------
(* Regular expressions of the ECMAScript grammar, as far as routes use     *)
(* them.  Group captures, Look is (?=...), PlusLazy is +?.                 *)

ReIn(set) == [re |-> "in", set |-> set]
ReNotIn(set) == [re |-> "not_in", set |-> set]
ReSeq(rs) == [re |-> "seq", rs |-> rs]
ReAlt(rs) == [re |-> "alt", rs |-> rs]
ReOpt(r) == [re |-> "opt", r |-> r]
ReStar(r) == [re |-> "star", r |-> r]
RePlusLazy(r) == [re |-> "plus_lazy", r |-> r]
ReGroup(r, n) == [re |-> "group", r |-> r, n |-> n]
ReLook(r) == [re |-> "look", r |-> r]
ReEnd == [re |-> "end"]

\* escape_string() of a piece of text.
Literal(s) == ReSeq([i \in DOMAIN s |-> ReIn({s[i]})])

LowerCase(c) == IF c \in 65 .. 90 THEN c + 32 ELSE c

\* std::regex_search() for an expression that starts with ^: the matches of r
\* from position i on in the order in which a backtracking search finds them;
\* caps holds the begin and the end of every group that took part.
RECURSIVE Results(_, _, _, _, _), SeqResults(_, _, _, _), Spread(_, _, _, _)
Results(r, s, sens, i, caps) ==
    LET here == [pos |-> i, caps |-> caps]
        same(c, d) == IF sens THEN c = d ELSE LowerCase(c) = LowerCase(d)
        member == i < Len(s) /\ \E c \in r.set : same(c, s[i + 1])
        one == <<[pos |-> i + 1, caps |-> caps]>>
        again(x) == Results(r, s, sens, x.pos, x.caps)
    IN  CASE r.re = "in" -> IF member THEN one ELSE <<>>
          [] r.re = "not_in" -> IF i < Len(s) /\ ~member THEN one ELSE <<>>
          [] r.re = "seq" -> SeqResults(r.rs, s, sens, <<here>>)
          [] r.re = "alt" ->
                IF r.rs = <<>> THEN <<>>
                ELSE Results(Head(r.rs), s, sens, i, caps)
                     \o Results(ReAlt(Tail(r.rs)), s, sens, i, caps)
          [] r.re = "opt" -> Append(Results(r.r, s, sens, i, caps), here)
          [] r.re = "star" ->
                Append(Spread(r, s, sens, Results(r.r, s, sens, i, caps)), here)
          [] r.re = "plus_lazy" -> Spread(r, s, sens, Results(r.r, s, sens, i, caps))
          [] r.re = "group" ->
                LET rs == Results(r.r, s, sens, i, caps)
                IN  [k \in DOMAIN rs |-> [rs[k] EXCEPT !.caps[r.n] = <<i, rs[k].pos>>]]
          [] r.re = "look" -> IF Results(r.r, s, sens, i, caps) # <<>> THEN <<here>> ELSE <<>>
          [] r.re = "end" -> IF i = Len(s) THEN <<here>> ELSE <<>>

SeqResults(rs, s, sens, from) ==
    IF rs = <<>> \/ from = <<>> THEN from
    ELSE LET step[k \in 0 .. Len(from)] ==
                IF k = 0 THEN <<>>
                ELSE step[k - 1] \o Results(Head(rs), s, sens, from[k].pos, from[k].caps)
         IN  SeqResults(Tail(rs), s, sens, step[Len(from)])

\* The repetitions of a loop after its first round ended at the places `xs`:
\* a greedy loop goes on before it is left, a lazy one is left first.
Spread(r, s, sens, xs) ==
    IF xs = <<>> THEN <<>>
    ELSE (IF r.re = "plus_lazy"
          THEN <<Head(xs)>> \o Results(r, s, sens, Head(xs).pos, Head(xs).caps)
          ELSE Results(r, s, sens, Head(xs).pos, Head(xs).caps))
         \o Spread(r, s, sens, Tail(xs))

-------------------------------------------------------------------------------
(* options_t                                                               *)

DefaultOptions ==
    [sensitive |-> FALSE, strict |-> FALSE, ending |-> TRUE,
     delimiter |-> 47, delimiters |-> {46, 47}, ends_with |-> <<>>]

\* make_ends_with(): the alternatives that may follow the route, the end of
\* the path last.
MakeEndsWith(options) ==
    LET given == SelectSeq(options.ends_with, LAMBDA e : e # <<>>)
    IN  ReAlt(Append([k \in DOMAIN given |-> Literal(given[k])], ReEnd))

-------------------------------------------------------------------------------
(* parse(): from items to tokens.                                          *)

PlainToken(path) == [t |-> "plain", path |-> path]

\* The first character of match.suffix(): what follows item k in the route.
NextChar(items, k) ==
    IF k = Len(items) THEN <<>>
    ELSE CASE items[k + 1].t = "text" -> SubSeq(items[k + 1].text, 1, 1)
           [] items[k + 1].t = "escaped" -> <<92>>
           [] items[k + 1].t = "param" -> IF items[k + 1].name = NoName THEN <<40>> ELSE <<58>>

\* handle_param_token(): a delimiter at the end of the text before the
\* parameter becomes its prefix.
HandleParamToken(options, st, item, next) ==
    LET has == ~st.escaped /\ st.path # <<>> /\ st.path[Len(st.path)] \in options.delimiters
        prefix == IF has THEN <<st.path[Len(st.path)]>> ELSE <<>>
        path == IF has THEN SubSeq(st.path, 1, Len(st.path) - 1) ELSE st.path
        delimiter == IF has THEN prefix[1] ELSE options.delimiter
        pattern == IF item.pattern # <<>> THEN item.pattern[1]
                   ELSE RePlusLazy(ReNotIn({delimiter}))
    IN  [st EXCEPT !.path = <<>>,
                   !.escaped = IF path # <<>> THEN FALSE ELSE @,
                   !.tokens = (IF path # <<>> THEN Append(@, PlainToken(path)) ELSE @) \o <<
                       [t |-> "param", name |-> item.name, prefix |-> prefix,
                        optional |-> item.modifier \in {"?", "*"},
                        repeat |-> item.modifier \in {"+", "*"},
                        partial |-> prefix # <<>> /\ next # <<>> /\ prefix # next,
                        pattern |-> pattern]>>]

\* check_no_unescaped_brackets() throws.
HasBrackets(s) == \E i \in DOMAIN s : s[i] \in {40, 41}

RECURSIVE ParseItems(_, _, _, _)
ParseItems(options, items, k, st) ==
    IF k > Len(items) THEN st
    ELSE LET item == items[k]
         IN  ParseItems(options, items, k + 1,
                CASE item.t = "text" ->
                        [st EXCEPT !.path = @ \o item.text, !.throws = @ \/ HasBrackets(item.text)]
                  [] item.t = "escaped" -> [st EXCEPT !.path = @ \o item.text, !.escaped = TRUE]
                  [] item.t = "param" -> HandleParamToken(options, st, item, NextChar(items, k)))

Tokens(st) ==
    [throws |-> st.throws,
     tokens |-> IF st.path # <<>> THEN Append(st.tokens, PlainToken(st.path)) ELSE st.tokens]
Parse(items, options) ==
    Tokens(ParseItems(options, items, 1,
                      [path |-> <<>>, escaped |-> FALSE, tokens |-> <<>>, throws |-> FALSE]))

-------------------------------------------------------------------------------
(* tokens2regexp()                                                         *)

\* A form of AppendSelfTo that captures the prefix with the value.
AppendSelfToWithPrefix(tok, n) ==
    IF tok.t = "plain" THEN Literal(tok.path)
    ELSE LET group == ReGroup(ReSeq(<<Literal(tok.prefix), tok.pattern>>), n)
         IN  IF tok.optional THEN ReOpt(group) ELSE group

\* A form of AppendSelfTo that keeps the prefix of an absent parameter.
AppendSelfToKeepsPrefix(tok, n) ==
    IF tok.t = "plain" THEN Literal(tok.path)
    ELSE LET group == ReGroup(tok.pattern, n)
         IN  ReSeq(<<Literal(tok.prefix), IF tok.optional THEN ReOpt(group) ELSE group>>)

\* plain_string_token_t::append_self_to() and parameter_token_t::append_self_to();
\* n is the number of the group.
AppendSelfTo(tok, n) ==
    LET prefix == Literal(tok.prefix)
        capture == IF tok.repeat
                   THEN ReSeq(<<tok.pattern, ReStar(ReSeq(<<prefix, tok.pattern>>))>>)
                   ELSE tok.pattern
    IN  CASE tok.t = "plain" -> Literal(tok.path)
          [] tok.t = "param" /\ ~tok.optional -> ReSeq(<<prefix, ReGroup(capture, n)>>)
          [] tok.t = "param" /\ tok.optional /\ ~tok.partial ->
                ReOpt(ReSeq(<<prefix, ReGroup(capture, n)>>))
          [] tok.t = "param" /\ tok.optional /\ tok.partial ->
                ReSeq(<<prefix, ReOpt(ReGroup(capture, n))>>)

ParamTokens(tokens) == SelectSeq(tokens, LAMBDA tok : tok.t = "param")
GroupNo(tokens, k) == Len(ParamTokens(SubSeq(tokens, 1, k)))

\* is_end_delimited()
IsEndDelimited(tok, delimiters) == tok.t = "plain" /\ tok.path[Len(tok.path)] \in delimiters

\* A form of Closing that lets a route end within a segment of the path.
ClosingAnywhere(tokens, options) ==
    LET delimiter == Literal(<<options.delimiter>>)
        ends_with == MakeEndsWith(options)
    IN  IF options.ending
        THEN (IF options.strict THEN <<>> ELSE <<ReOpt(delimiter)>>) \o <<ReLook(ends_with)>>
        ELSE <<>>

\* What closes the expression after the tokens.
Closing(tokens, options) ==
    LET delimiter == Literal(<<options.delimiter>>)
        ends_with == MakeEndsWith(options)
    IN  IF options.ending
        THEN (IF options.strict THEN <<>> ELSE <<ReOpt(delimiter)>>) \o <<ReLook(ends_with)>>
        ELSE (IF options.strict THEN <<>>
              ELSE <<ReOpt(ReSeq(<<delimiter, ReLook(ends_with)>>))>>)
             \o (IF tokens # <<>> /\ ~IsEndDelimited(tokens[Len(tokens)], options.delimiters)
                 THEN <<ReLook(ReAlt(<<delimiter, ends_with>>))>> ELSE <<>>)

\* tokens2regexp() and path2regex()
Tokens2Regexp(throws, tokens, params, options) ==
    [throws |-> throws \/ MaxCaptureGroups < Len(params) + 1,
     regex |-> ReSeq([k \in DOMAIN tokens |-> AppendSelfTo(tokens[k], GroupNo(tokens, k))]
                     \o Closing(tokens, options)),
     names |-> [k \in DOMAIN params |-> params[k].name],
     sensitive |-> options.sensitive]
Path2Regex(items, options) ==
    LET parsed == Parse(items, options)
    IN  Tokens2Regexp(parsed.throws, parsed.tokens, ParamTokens(parsed.tokens), options)
===============================================================================
