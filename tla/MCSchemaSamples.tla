---------------------------- MODULE MCSchemaSamples ----------------------------
(* Projects for SchemaValidation: one valid rule of each type, and what the   *)
(* members of a rule and of a project are replaced by.  None stands for a     *)
(* member that is absent, Other for one of another type.                      *)
EXTENDS Naturals, Sequences

CONSTANTS None, Other, Null, MaxPriority

Plain ==
  [extra |-> FALSE, id |-> "r", name |-> "b",
   source |-> [extra |-> FALSE, key |-> "url", operator |-> "regex", value |-> "plain"],
   resourceTypes |-> <<"xmlhttprequest">>, priority |-> 1, method |-> None, type |-> None,
   redactSensitiveInLogs |-> None, redirect |-> None, action |-> None, headerDirection |-> None,
   headerOperation |-> None, headerName |-> None, headerValue |-> None, responseBody |-> None,
   requestBody |-> None, mock |-> None]

Redirect == [extra |-> FALSE, destination |-> "x"]
Param(name, operation, value) == [extra |-> FALSE, name |-> name, operation |-> operation, value |-> value]
Query(params) == [extra |-> FALSE, type |-> "query", params |-> params]
Replacement == [extra |-> FALSE, pattern |-> "x", replacement |-> "x"]
Body(mode, body, replacements) ==
  [extra |-> FALSE, mode |-> mode, body |-> body, replacements |-> replacements]
Sent(mode, body, pattern, replacement) ==
  [extra |-> FALSE, mode |-> mode, body |-> body, pattern |-> pattern, replacement |-> replacement]
Header(name, value) == [extra |-> FALSE, name |-> name, value |-> value]
Mock == [extra |-> FALSE, status |-> "2xx", headers |-> None, delayMs |-> None, body |-> "x", file |-> None]

SampleRules ==
  {Plain,
   [Plain EXCEPT !.type = "redirect", !.redirect = Redirect],
   [Plain EXCEPT !.type = "query", !.action = Query(<<Param("a", None, "x")>>)],
   [Plain EXCEPT !.type = "header", !.headerDirection = "request", !.headerOperation = "set",
                 !.headerName = "a", !.headerValue = "x"],
   [Plain EXCEPT !.type = "response-body", !.responseBody = Body("replace", "x", None)],
   [Plain EXCEPT !.type = "request-body", !.method = "POST", !.requestBody = Sent("replace", "x", None, None)],
   [Plain EXCEPT !.type = "mock", !.mock = Mock]}

\* Values with one member replaced, and those with one more replaced in turn.
Once(value, members) ==
  UNION {{[value EXCEPT ![m] = x] : x \in members[m]} : m \in DOMAIN members}
Also(values, members) == values \cup UNION {Once(value, members) : value \in values}

Texts == {None, Other, "empty", "wide", "refs", "surrogate"}

Redirects == {None, Other} \cup
  Once(Redirect, [extra |-> BOOLEAN, destination |-> Texts \cup {"bad", "dollar"}])

Queries == {None, Other} \cup
  {Query(ps) : ps \in {<<>>, Other, <<Other>>,
     <<Param("a", "set", "x"), Param("a", "remove", None)>>,
     <<Param("a", "set", "x"), Param("b", "remove", None)>>,
     <<Param("a", "set", "x"), Param("b", "set", "x"), Param("c", "set", "x")>>}} \cup
  {[Query(<<Param("a", None, "x")>>) EXCEPT !.extra = TRUE],
   [Query(<<Param("a", None, "x")>>) EXCEPT !.type = "bad"]} \cup
  {Query(<<p>>) : p \in
     Also(Once(Param("a", None, "x"), [extra |-> BOOLEAN, name |-> {None, "empty", "wide"},
                                       operation |-> {"set", "remove", "bad"}]), [value |-> Texts])}

ResponseBodies == {None, Other} \cup
  Also({Body("replace", "x", None), Body("regex", None, <<Replacement>>)},
       [extra |-> BOOLEAN, mode |-> {None, "replace", "regex", "bad"}, body |-> Texts,
        replacements |-> {None, Other, <<>>, <<Other>>}]) \cup
  {Body("regex", None, <<r>>) : r \in
     Once(Replacement, [extra |-> BOOLEAN, pattern |-> {None, "empty", "bad", "wide"},
                        replacement |-> {None, "wide"}])}

RequestBodies == {None, Other} \cup
  Also(Also({Sent("replace", "x", None, None), Sent("regex", None, "x", "x")},
            [mode |-> {None, "replace", "regex", "bad"}]),
       [extra |-> BOOLEAN, body |-> Texts, pattern |-> {None, "empty", "bad", "wide", "surrogate"},
        replacement |-> {None, "wide", "surrogate"}])

Mocks == {None, Other} \cup
  Also({Mock, [Mock EXCEPT !.body = None, !.file = "x"]},
       [extra |-> BOOLEAN, status |-> {None, "1xx", "204"}, delayMs |-> {"short", "long"},
        body |-> {None, Other, "wide", "x"}, file |-> {None, "empty", "bad", "wide"},
        headers |-> {Other, <<Other>>, <<Header("a", "x"), Header("A ", "x")>>} \cup
          {<<h>> : h \in {Header("a", "x"), Header("forbidden", "x"), Header("control", "x"),
                          Header("a", "control"), Header("wide", "x"), Header("a", "long")}}])

Sources == {Other, [Plain.source EXCEPT !.extra = TRUE], [Plain.source EXCEPT !.key = "bad"]} \cup
           {[Plain.source EXCEPT !.value = v] : v \in {"groups", "bad"}}

RuleMembers ==
  [extra |-> BOOLEAN, id |-> {Other, "bad", "wide", "g"}, name |-> {None, "blank", "wide", "A"},
   source |-> Sources,
   resourceTypes |-> {None, <<>>, <<"main_frame", "main_frame">>, <<"xmlhttprequest", "main_frame">>, <<"bad">>},
   priority |-> {None, 0, MaxPriority, MaxPriority + 1}, method |-> {None, "GET", "POST", "bad"},
   type |-> {None, "redirect", "query", "header", "response-body", "request-body", "mock", "bad"},
   redactSensitiveInLogs |-> {"boolean", Other}, redirect |-> Redirects, action |-> Queries,
   headerDirection |-> {None, "request", "response", "bad"},
   headerOperation |-> {None, "set", "append", "remove", "bad"},
   headerName |-> {None, "empty", "wide", "forbidden", "forbidden in request"},
   headerValue |-> Texts, responseBody |-> ResponseBodies, requestBody |-> RequestBodies, mock |-> Mocks]

\* For a second change.
FewMembers ==
  [source |-> {Other} \cup {[Plain.source EXCEPT !.value = v] : v \in {"groups", "bad"}},
   resourceTypes |-> {<<"main_frame">>}, method |-> {None, "GET"}, type |-> {None, "header", "mock"},
   headerDirection |-> {"response"}, headerOperation |-> {"append", "remove"}, headerValue |-> {None, "refs"}]

Group(rules) == [extra |-> FALSE, id |-> "g", name |-> "a", rules |-> rules]
Project(groups) == [extra |-> FALSE, version |-> 2, name |-> "p", description |-> None,
                    groups |-> groups, requestBodyPolicy |-> None]
Holding(rule) == Project(<<Group(<<rule>>)>>)

Renamed(id, name) == [Plain EXCEPT !.id = id, !.name = name]
GroupLists ==
  {None, Other, <<>>, <<Other>>, <<Group(None)>>, <<Group(<<>>), Group(<<>>)>>,
   <<Group(<<Plain, Plain>>)>>, <<Group(<<Plain, Renamed("r2", "A")>>)>>, <<Group(<<Plain, Renamed("r2", "c")>>)>>,
   <<Group(<<Plain, Renamed("r2", "c")>>), [Group(<<Renamed("r3", "d")>>) EXCEPT !.id = "h", !.name = "h"]>>,
   <<[Group(<<>>) EXCEPT !.id = "bad"]>>, <<[Group(<<>>) EXCEPT !.name = "blank"]>>,
   <<[Group(<<>>) EXCEPT !.extra = TRUE]>>}
Policies == {None, Null, Other} \cup
  [extra : BOOLEAN, localOrigins : {None, Other, <<>>, <<"a">>, <<"a", "A">>, <<"a", "a">>, <<"bad">>, <<Other>>}]

ProjectMembers ==
  [extra |-> BOOLEAN, version |-> {None, 1, 2}, name |-> {None, Other, "empty", "blank", "long", "wide", "a"},
   description |-> {None, Other, "empty", "long", "wide"}, groups |-> GroupLists, requestBodyPolicy |-> Policies]
================================================================================
