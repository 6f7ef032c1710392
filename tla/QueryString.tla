------------------------------ MODULE QueryString ------------------------------
(***************************************************************************)
(* uri_helpers.hpp: try_parse_query() and query_string_params_t.  Parsed   *)
(* parameters are [ok, tag, params]; tag is NoTag unless the query is a    *)
(* web beacon, params is the list of the unescaped pairs.                  *)
(***************************************************************************)
EXTENDS PercentEncoding

CONSTANT NoTag

EQ == 61

\* The unescape traits and the separators of the four parse_query_traits.
UnescapeTraits(traits) ==
    IF traits = "restinio_defaults" THEN "restinio_default" ELSE traits
Separators(traits) ==
    IF traits \in {"restinio_defaults", "javascript_compatible"} THEN {38, 59} ELSE {38}

\* find_first_of() from position `from` on; Len(data) + 1 stands for npos.
FindFirstOf(data, set, from) ==
    LET at == {i \in from .. Len(data) : data[i] \in set}
    IN  IF at = {} THEN Len(data) + 1 ELSE CHOOSE i \in at : \A j \in at : i <= j

Query(ok, tag, params) == [ok |-> ok, tag |-> tag, params |-> params]

RECURSIVE ParseQueryFrom(_, _, _, _)

\* A pair was found, the search goes on from position next.
PairFound(traits, buffer, next, params, key, value) ==
    IF ~key.ok \/ ~value.ok THEN Query(FALSE, NoTag, <<>>)
    ELSE ParseQueryFrom(traits, buffer, next,
            Append(params, [key |-> key.out, value |-> value.out]))
TagFound(tag) == Query(tag.ok, IF tag.ok THEN tag.out ELSE NoTag, <<>>)

\* A form of ParseQueryFrom that takes a tag after the first pair, too.
ParseQueryFromTagLast(traits, buffer, pos, params) ==
    LET eq == FindFirstOf(buffer, {EQ}, pos)
        sep == FindFirstOf(buffer, Separators(traits), eq + 1)
        unescaped(from, to) == InplaceUnescape(UnescapeTraits(traits), SubSeq(buffer, from, to))
    IN  IF pos > Len(buffer) THEN Query(TRUE, NoTag, params)
        ELSE IF eq > Len(buffer) THEN TagFound(unescaped(pos, Len(buffer)))
        ELSE PairFound(traits, buffer, sep + 1, params,
                       unescaped(pos, eq - 1), unescaped(eq + 1, sep - 1))

\* The loop of try_parse_query() from position pos of the buffer on.  The
\* parts of the buffer that are unescaped in place lie before the position
\* from which the search goes on.
ParseQueryFrom(traits, buffer, pos, params) ==
    LET eq == FindFirstOf(buffer, {EQ}, pos)
        sep == FindFirstOf(buffer, Separators(traits), eq + 1)
        unescaped(from, to) == InplaceUnescape(UnescapeTraits(traits), SubSeq(buffer, from, to))
    IN  IF pos > Len(buffer) THEN Query(TRUE, NoTag, params)
        ELSE IF eq > Len(buffer) /\ pos # 1 THEN Query(FALSE, NoTag, <<>>)
        ELSE IF eq > Len(buffer) THEN TagFound(unescaped(1, Len(buffer)))
        ELSE PairFound(traits, buffer, sep + 1, params,
                       unescaped(pos, eq - 1), unescaped(eq + 1, sep - 1))

TryParseQuery(traits, query) == ParseQueryFrom(traits, query, 1, <<>>)

\* find_parameter(), has() and get_param() of query_string_params_t.
FindParameter(q, key) == {k \in DOMAIN q.params : q.params[k].key = key}
Has(q, key) == FindParameter(q, key) # {}
GetParam(q, key) ==
    q.params[CHOOSE k \in FindParameter(q, key) :
                \A j \in FindParameter(q, key) : k <= j].value
===============================================================================
