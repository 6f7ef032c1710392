------------------------------- MODULE RouterTexts -------------------------------
(***************************************************************************)
(* What the two routers do with every path over an alphabet, and how they  *)
(* compare.  The subject is a table of routes.                             *)
(***************************************************************************)
EXTENDS Routers, Texts, SequencesExt

CONSTANTS
    TableNames,
    Tables      \* name -> [express, easy, decoded, non_matched, method]

Routed == subject \in TableNames

ByExpress(t) == ExpressRoute(t.express, t.method, text, t.non_matched)
ByEasyParser(t) == EasyRoute(t.easy, t.method, text, t.non_matched)

-------------------------------------------------------------------------------
(* References.                                                             *)

\* The text that a route stands for once its parameters have the given
\* values: a delimiter goes away with the optional parameter that follows it
\* when the parameter ends the segment; an escaped delimiter stays.  A named
\* parameter is asked for by its name, the others by their index.
RECURSIVE Expand(_, _, _, _, _)
Expand(items, k, params, options, out) ==
    LET item == items[k]
        index == Len(SelectSeq(SubSeq(items, 1, k),
                               LAMBDA x : x.t = "param" /\ x.name = NoName))
        value == IF item.name = NoName THEN ByIndex(params, index) ELSE ByName(params, item.name)
        ends_segment ==
            \/ k = Len(items)
            \/ items[k + 1].t = "text" /\ items[k + 1].text[1] = Last(out)
        absent ==
            /\ value = <<>>
            /\ item.modifier \in {"?", "*"}
            /\ k > 1 /\ items[k - 1].t = "text" /\ Last(out) \in options.delimiters
            /\ ends_segment
    IN  IF k > Len(items) THEN out
        ELSE IF item.t # "param" THEN Expand(items, k + 1, params, options, out \o item.text)
        ELSE Expand(items, k + 1, params, options, IF absent THEN Front(out) ELSE out \o value)

Decode(value) == TryUnescape("restinio_default", value)

\* Every segment of the path can be decoded.
Decodable(path) ==
    \A i \in 1 .. Len(path) : \A j \in i .. Len(path) :
        /\ \A n \in i .. j : path[n] # TrailingSlash
        /\ i = 1 \/ path[i - 1] = TrailingSlash
        /\ j = Len(path) \/ path[j + 1] = TrailingSlash
        => Decode(SubSeq(path, i, j)).ok

\* The outcomes e of the express router and y of the easy_parser router are
\* one, where a route decodes after its parameters are decoded.
SameOutcome(e, y, decoded) ==
    LET value(v) == IF decoded THEN Decode(v).out ELSE v
    IN  \/ y = [e EXCEPT !.params = [n \in DOMAIN e.params |-> value(e.params[n].value)]]
        \/ decoded /\ ~Decodable(TargetPath(text).out) /\ y = Throws

\* The matched part of a path is `built`, maybe with a delimiter behind it.
BuiltIs(built, match, options) ==
    LET same(a, b) == IF options.sensitive THEN a = b ELSE ToLower(a) = ToLower(b)
    IN  same(built, match) \/ same(Append(built, options.delimiter), match)
Rebuilds(entry, m) ==
    m.ok => BuiltIs(Expand(entry.items, 1, m.params, entry.options, <<>>), m.match, entry.options)

\* The expressions of a route under all options.
Expressions(entry) ==
    [strict, ending, sensitive \in BOOLEAN |->
        Path2Regex(entry.items, [entry.options EXCEPT !.strict = strict, !.ending = ending,
                                                      !.sensitive = sensitive])]
AllExpressions ==
    [t \in TableNames |-> [k \in DOMAIN Tables[t].express |-> Expressions(Tables[t].express[k])]]

-------------------------------------------------------------------------------
(* Properties.                                                             *)

\* A table of routes written for the express router (path2regex.hpp, a
\* regular expression per route) and the same table written with
\* path_to_params() for the easy_parser router send every request to the same
\* entry with the same parameters: an optional trailing slash, a parameter
\* that is absent, percent-encoded characters and a path that is not well
\* formed make no difference.  Where a route decodes its parameters
\* (unescape()), the same holds for the paths whose segments can be decoded;
\* another path may throw before it is known whether the route fits.
RoutersAgree(t) ==
    t.easy # <<>> => SameOutcome(ByExpress(t), ByEasyParser(t), t.decoded)

\* The parameters that match_route() hands to the handler, put back into the
\* route, give the matched part of the path: nothing is lost between two
\* groups and no group holds characters of its neighbour.  A delimiter at the
\* end is optional and case only matters to a sensitive route.
CapturesRebuildPath(entry, path) == Rebuilds(entry, MatchRoute(entry.re, path))

\* The options of a route: a route that is not strict takes the paths of the
\* strict one, with or without a delimiter at the end; a route that is not
\* "ending" takes the paths with a beginning that the strict route takes and
\* that ends where a segment ends; an insensitive route takes a path in any
\* case.
OptionsExact(entry, re, path) ==
    LET takes(strict, ending, sensitive, p) == MatchRoute(re[strict, ending, sensitive], p).ok
        exact(p) == takes(TRUE, TRUE, TRUE, p)
        last == Last(entry.items)
        segment_ends(n) ==
            \/ n = Len(path)
            \/ path[n + 1] = entry.options.delimiter
            \/ last.t = "text" /\ Last(last.text) \in entry.options.delimiters
    IN  /\ takes(FALSE, TRUE, TRUE, path) <=>
               \/ exact(path)
               \/ path # <<>> /\ Last(path) = entry.options.delimiter /\ exact(Front(path))
        /\ takes(TRUE, FALSE, TRUE, path) <=>
               \E n \in 0 .. Len(path) : segment_ends(n) /\ exact(SubSeq(path, 1, n))
        /\ exact(ToLower(path)) <=> takes(TRUE, TRUE, FALSE, path)

TableExact(t, res, path) ==
    /\ RoutersAgree(t)
    /\ \A k \in DOMAIN t.express :
           CapturesRebuildPath(t.express[k], path) /\ OptionsExact(t.express[k], res[k], path)

\* Both routers choose the entry that the routes describe and hand over its
\* parameters, under all options.
RoutersExact ==
    Routed => TableExact(Tables[subject], AllExpressions[subject], TargetPath(text).out)
===============================================================================
