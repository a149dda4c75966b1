---------------------------- MODULE MCImportSamples ----------------------------
(* Exports of three records for RequestlyImport: one rule of every type, with *)
(* ids and names that clash, are no ids, or are missing, and bodies with a "$". *)
EXTENDS Naturals, Sequences, TLC

CONSTANT None

A == <<"a">>
B == <<"b">>

Pair(x) == x @@ [refused |-> FALSE, notes |-> {}, methods |-> <<>>]
Rule(id, name, type, gid, pairs) ==
  [object |-> "rule", id |-> id, name |-> name, type |-> type, gid |-> gid,
   inactive |-> FALSE, notes |-> {}, pairs |-> pairs]
Group(id, name, children) ==
  [object |-> "group", id |-> id, name |-> name, inactive |-> id = B, children |-> children]

Query(op, value) == [op |-> op, name |-> "x", value |-> value]
Header(op, name, forbidden) == [op |-> op, name |-> name, value |-> <<"v">>, forbidden |-> forbidden]
Xhr == [body |-> "static", value |-> <<"$", "1">>, types |-> {"xhr", "other"}]

RedirectRule == Rule(A, A, "Redirect", None, <<Pair([dest |-> "url", captures |-> TRUE]),
                                               Pair([dest |-> "map_local", captures |-> FALSE])>>)
ReplaceRule == Rule(A, B, "Replace", B, <<Pair([key |-> "Url", op |-> "Contains", found |-> TRUE])>>)
QueryRule == Rule(<<"!">>, A, "QueryParam", A,
  <<Pair([mods |-> <<Query("append", <<"v">>), Query("set", <<"w">>)>>]),
    Pair([mods |-> <<Query("remove all", <<>>)>>])>>)
HeaderRule == [Rule(None, <<>>, "Headers", A,
  <<[Pair([mods |-> <<Header("modify", "x", FALSE), Header("add", "y", TRUE)>>])
       EXCEPT !.methods = <<"GET", "PUT">>]>>) EXCEPT !.inactive = TRUE]
RequestRule == Rule(<<"a", "2">>, <<"a", "2">>, "Request", None, <<Pair(Xhr)>>)
ResponseRule == [Rule(B, A, "Response", A, <<Pair(Xhr)>>) EXCEPT !.notes = {"description"}]
AgentRule == Rule(<<"group">>, <<"ungrouped">>, "UserAgent", B,
  <<Pair([value |-> <<"v">>, preset |-> TRUE]), [Pair([value |-> <<"v">>, preset |-> FALSE]) EXCEPT !.refused = TRUE]>>)
CancelRule == Rule(B, B, "Cancel", A, <<Pair([value |-> <<"v">>])>>)

SampleRules == {RedirectRule, ReplaceRule, QueryRule, HeaderRule, RequestRule, ResponseRule,
                AgentRule, CancelRule}
SampleGroups == {Group(A, A, <<>>),
                 Group(B, <<>>, <<Rule(B, A, "Response", None, <<Pair(Xhr)>>)>>),
                 Group(None, A, <<>>)}

SampleExports ==
  {<<Group(A, A, <<>>), r, q>> : r, q \in SampleRules} \cup
  {<<r, g, [object |-> "other"]>> : r \in SampleRules, g \in SampleGroups}

\* No merge, or a merge into a project whose names and ids the exports use.
SampleTargets ==
  {None, <<[gid |-> None, id |-> A, name |-> B, inactive |-> FALSE,
            rules |-> <<[id |-> B, name |-> A, priority |-> 3, texts |-> <<>>]>>]>>}
================================================================================
