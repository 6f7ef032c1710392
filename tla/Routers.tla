--------------------------------- MODULE Routers ---------------------------------
(***************************************************************************)
(* router/express.hpp, router/easy_parser_router.hpp and                   *)
(* router/method_matcher.hpp: both routers take the path of a request and  *)
(* call the handler of the first entry whose method and route fit it.      *)
(*                                                                         *)
(* An express entry is [matcher, items, options], an easy_parser entry     *)
(* [matcher, route] with the arguments of path_to_params() as route.       *)
(***************************************************************************)
EXTENDS EasyParser, PercentEncoding, Path2Regex

TrailingSlash == 47

-------------------------------------------------------------------------------
(* Method matchers: [kind, methods].                                       *)

SimpleMatcher(m) == [kind |-> "any_of", methods |-> {m}]
AnyOfMethods(ms) == [kind |-> "any_of", methods |-> ms]
NoneOfMethods(ms) == [kind |-> "none_of", methods |-> ms]

MethodMatch(matcher, method) ==
    IF matcher.kind = "any_of" THEN method \in matcher.methods
    ELSE method \notin matcher.methods

-------------------------------------------------------------------------------
(* What a router does with a request.                                      *)

Throws == [status |-> "throws", entry |-> 0, params |-> <<>>]
Handled(k, params) == [status |-> "handled", entry |-> k, params |-> params]

\* No entry fits: the handler for such requests, or request_rejected().
NotMatched(non_matched) ==
    [status |-> IF non_matched THEN "non_matched" ELSE "rejected", entry |-> 0, params |-> <<>>]

-------------------------------------------------------------------------------
(* express_router_t                                                        *)

NoCaptures == [n \in 1 .. MaxCaptureGroups |-> <<0, 0>>]

\* add_handler(): the expression of a route is made once.
AddHandler(matcher, items, options) ==
    [matcher |-> matcher, items |-> items, options |-> options, re |-> Path2Regex(items, options)]

\* route_matcher_t::match_route(): the values of the parameters in the order
\* of the route (an empty one for a group that took no part), and match();
\* `rs` is what the search has found.
MatchResult(re, rs, path) ==
    LET value(n) == SubSeq(path, rs[1].caps[n][1] + 1, rs[1].caps[n][2])
        params == [n \in DOMAIN re.names |-> [name |-> re.names[n], value |-> value(n)]]
    IN  [ok |-> rs # <<>>,
         match |-> IF rs = <<>> THEN <<>> ELSE SubSeq(path, 1, rs[1].pos),
         params |-> IF rs = <<>> THEN <<>> ELSE params]
MatchRoute(re, path) ==
    MatchResult(re, Results(re.regex, path, re.sensitive, 0, NoCaptures), path)

\* route_params_appender_t: named and indexed parameters are kept apart.
NamedParameters(params) == SelectSeq(params, LAMBDA p : p.name # NoName)
IndexedParameters(params) == SelectSeq(params, LAMBDA p : p.name = NoName)

\* operator[] of route_params_t with a name and with an index.
ByName(params, name) ==
    LET named == NamedParameters(params)
    IN  named[CHOOSE n \in DOMAIN named : /\ named[n].name = name
                                          /\ \A j \in 1 .. n - 1 : named[j].name # name].value
ByIndex(params, i) == IndexedParameters(params)[i].value

\* express_router_t::operator()
RECURSIVE ExpressFrom(_, _, _, _, _)
ExpressFrom(entries, k, method, path, non_matched) ==
    IF k > Len(entries) THEN NotMatched(non_matched)
    ELSE LET m == MatchRoute(entries[k].re, path)
         IN  IF MethodMatch(entries[k].matcher, method) /\ m.ok THEN Handled(k, m.params)
             ELSE ExpressFrom(entries, k + 1, method, path, non_matched)

ExpressRoute(entries, method, path, non_matched) ==
    LET target == TargetPath(path)
    IN  IF ~target.ok THEN Throws
        ELSE ExpressFrom(entries, 1, method, target.out, non_matched)

-------------------------------------------------------------------------------
(* easy_parser_router_t                                                    *)

\* path_fragment_p()
PathFragmentP(separator) ==
    ProduceP(<<>>, <<Repeat(1, N, <<Consume(AnySymbolIfNotP(separator), ToContainer)>>)>>)

\* The producer `p >> unescape<Traits>()`; the transformer throws for a text
\* that cannot be unescaped, which no clause on the way out handles.
UnescapeP(p, traits) == TransformP(p, CustomT(traits))
UnescapeTransform(traits, text) == TryUnescape(traits, text)

\* clauses_type_maker: a text becomes exact() and a producer fills the next
\* item of the tuple.
MakeClauses(args) ==
    [k \in DOMAIN args |->
        CASE args[k].t = "text" -> Exact(args[k].text)
          [] args[k].t = "producer" ->
                Consume(args[k].p,
                        Setter(Len(SelectSeq(SubSeq(args, 1, k), LAMBDA a : a.t = "producer"))))]

\* path_to_tuple() and path_to_params()
PathToParams(args) ==
    ProduceP([k \in 1 .. Len(SelectSeq(args, LAMBDA a : a.t = "producer")) |-> <<>>],
             MakeClauses(args))

\* easy_parser_router_t::operator() and actual_router_entry_t::try_handle()
RECURSIVE EasyFrom(_, _, _, _, _), TryHandle(_, _, _, _, _, _)
TryHandle(r, entries, k, method, path, non_matched) ==
    IF ~MethodMatch(entries[k].matcher, method)
    THEN EasyFrom(entries, k + 1, method, path, non_matched)
    ELSE IF r.ok THEN Handled(k, r.val)
    ELSE IF r.err = "exception" THEN Throws
    ELSE EasyFrom(entries, k + 1, method, path, non_matched)
EasyFrom(entries, k, method, path, non_matched) ==
    IF k > Len(entries) THEN NotMatched(non_matched)
    ELSE TryHandle(ParseAll(path, PathToParams(entries[k].route)), entries, k, method, path,
                   non_matched)

\* "Take care of an optional trailing slash."
PathToInspect(path) ==
    IF Len(path) > 1 /\ path[Len(path)] = TrailingSlash THEN SubSeq(path, 1, Len(path) - 1) ELSE path

EasyRoute(entries, method, path, non_matched) ==
    LET target == TargetPath(PathToInspect(path))
    IN  IF ~target.ok THEN Throws
        ELSE EasyFrom(entries, 1, method, target.out, non_matched)
===============================================================================
