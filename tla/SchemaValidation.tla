-------------------------- MODULE SchemaValidation --------------------------
(***************************************************************************)
(* The two validators of a project: packages/schema checks it by a JSON     *)
(* schema (Ajv) and then by semanticIssues(), the extension by the          *)
(* hand-written browser-schema.ts.  Only the verdict is modelled.           *)
(*                                                                          *)
(* A member that is absent is None, one of another type Other.  A text is   *)
(* one of the classes below; "wide" has as many code points as are allowed  *)
(* and more UTF-16 units, "refs" names a capture of the URL pattern.        *)
(***************************************************************************)
EXTENDS Integers, SequencesExt

CONSTANTS None, Other, Null, MaxPriority, MaxItems, MaxGroups

RuleTypes == {"redirect", "query", "header", "response-body", "request-body", "mock"}
Text(t) == t \notin {None, Other, Null}
CodePointsFit(t) == Text(t) /\ t # "long"             \* maxLength of Ajv
UnitsFit(t) == Text(t) /\ t \notin {"long", "wide"}   \* .length of a string
NameKey(t) == IF t = "A" THEN "a" ELSE t
Record(v) == v \notin {None, Other, Null}
Seqs(v) == v \notin {None, Other, Null}

\* Functions both validators call.
DestinationValid(d) == UnitsFit(d) /\ d \notin {"empty", "bad"}
CapturesValid(t, source) == /\ t # "dollar"
                            /\ t = "refs" => source.value = "groups"
Forbidden(name, direction) == name = "forbidden" \/ (name = "forbidden in request" /\ direction = "request")
\* A trimmed, lower-case header name.
Comparable(name) == IF name = "A " THEN "a" ELSE name
PatternCompiles(p) == Text(p) /\ p \notin {"empty", "bad"}

Distinct(s) == IsInjective(s)
Members(v) == IF Seqs(v) THEN ToSet(v) ELSE {}
Claims(project, Of(_)) ==
  LET rulesOf(g) == IF Seqs(g.rules) THEN [i \in DOMAIN g.rules |-> Of(g.rules[i])] ELSE <<>>
  IN  FlattenSeq([i \in DOMAIN project.groups |-> <<Of(project.groups[i])>> \o rulesOf(project.groups[i])])
RuleCount(project) == Len(FlattenSeq([i \in DOMAIN project.groups |-> project.groups[i].rules]))

-----------------------------------------------------------------------------
(* The JSON schema.                                                        *)

SchemaLabel(t) == CodePointsFit(t) /\ t \notin {"empty", "blank"}
SchemaId(t) == CodePointsFit(t) /\ t \notin {"empty", "blank", "wide", "bad"}
SchemaSource(s) == /\ Record(s) /\ ~s.extra /\ s.key \in {"url", "host"} /\ s.operator = "regex"
                   /\ UnitsFit(s.value) /\ s.value \notin {"empty", "bad"}
SchemaItems(s, most) == Seqs(s) /\ Len(s) <= most

SchemaRedirect(r) == Record(r) /\ ~r.extra /\ Text(r.destination)
SchemaParam(p) ==
  /\ Record(p) /\ ~p.extra /\ CodePointsFit(p.name) /\ p.name # "empty"
  /\ p.operation \in {None, "set", "remove"}
  /\ IF p.operation = "remove" THEN p.value = None ELSE CodePointsFit(p.value) /\ p.value # "empty"
SchemaQuery(a) ==
  /\ Record(a) /\ ~a.extra /\ a.type = "query"
  /\ SchemaItems(a.params, MaxItems) /\ a.params # <<>> /\ \A p \in ToSet(a.params) : SchemaParam(p)
SchemaReplacement(r) == Record(r) /\ ~r.extra /\ CodePointsFit(r.pattern) /\ PatternCompiles(r.pattern)
                        /\ CodePointsFit(r.replacement)
\* oneOf: replace, regex, and regex without a mode.
SchemaResponseBody(b) ==
  /\ Record(b) /\ ~b.extra
  /\ \/ b.mode = "replace" /\ CodePointsFit(b.body) /\ b.replacements = None
     \/ /\ b.mode \in {"regex", None} /\ b.body = None
        /\ SchemaItems(b.replacements, MaxItems) /\ b.replacements # <<>>
        /\ \A r \in ToSet(b.replacements) : SchemaReplacement(r)
SchemaRequestBody(b) ==
  /\ Record(b) /\ ~b.extra
  /\ \/ b.mode = "replace" /\ CodePointsFit(b.body) /\ b.pattern = None /\ b.replacement = None
     \/ b.mode = "regex" /\ b.body = None /\ CodePointsFit(b.pattern) /\ PatternCompiles(b.pattern)
        /\ CodePointsFit(b.replacement)
SchemaMock(m) ==
  /\ Record(m) /\ ~m.extra /\ m.status \in {"2xx", "204"}
  /\ m.headers # None => /\ SchemaItems(m.headers, MaxItems)
                         /\ \A h \in ToSet(m.headers) :
                              Record(h) /\ ~h.extra /\ CodePointsFit(h.name) /\ h.name # "empty" /\ CodePointsFit(h.value)
  /\ m.delayMs \in {None, "short"}
  /\ m.body # None => CodePointsFit(m.body)
  /\ m.file # None => CodePointsFit(m.file) /\ m.file # "empty"

\* What a type demands: the if/then clauses of the schema.
SchemaDemands(r) ==
  /\ r.type = "redirect" => r.redirect # None
  /\ r.type = "query" => r.action # None
  /\ r.type = "header" => None \notin {r.headerDirection, r.headerOperation, r.headerName}
  /\ r.headerOperation \in {"set", "append"} => r.headerValue # None
  /\ r.type = "response-body" => r.responseBody # None
  /\ r.type = "request-body" => None \notin {r.requestBody, r.method, r.resourceTypes}
  /\ r.type = "mock" => r.mock # None

SchemaRule(r) ==
  /\ Record(r) /\ ~r.extra /\ SchemaId(r.id) /\ SchemaLabel(r.name) /\ SchemaSource(r.source)
  /\ SchemaItems(r.resourceTypes, MaxItems) /\ r.resourceTypes # <<>> /\ Distinct(r.resourceTypes)
  /\ ToSet(r.resourceTypes) \subseteq {"xmlhttprequest", "main_frame"}
  /\ r.priority \in 1 .. MaxPriority
  /\ r.method \in {None, "GET", "POST"} /\ r.type \in RuleTypes \cup {None}
  /\ r.redactSensitiveInLogs \in {None, "boolean"}
  /\ r.redirect # None => SchemaRedirect(r.redirect)
  /\ r.action # None => SchemaQuery(r.action)
  /\ r.headerDirection \in {None, "request", "response"}
  /\ r.headerOperation \in {None, "set", "append", "remove"}
  /\ r.headerName # None => CodePointsFit(r.headerName) /\ r.headerName # "empty"
  /\ r.headerValue # None => CodePointsFit(r.headerValue)
  /\ r.responseBody # None => SchemaResponseBody(r.responseBody)
  /\ r.requestBody # None => SchemaRequestBody(r.requestBody)
  /\ r.mock # None => SchemaMock(r.mock)
  /\ SchemaDemands(r)

SchemaAccepts(p) ==
  /\ ~p.extra /\ p.version = 2 /\ SchemaLabel(p.name)
  /\ p.description # None => CodePointsFit(p.description)
  /\ SchemaItems(p.groups, MaxGroups)
  /\ \A g \in ToSet(p.groups) : /\ Record(g) /\ ~g.extra /\ SchemaId(g.id) /\ SchemaLabel(g.name)
                                /\ SchemaItems(g.rules, MaxItems) /\ \A r \in ToSet(g.rules) : SchemaRule(r)
  /\ p.requestBodyPolicy # None =>
       /\ Record(p.requestBodyPolicy) /\ ~p.requestBodyPolicy.extra
       /\ p.requestBodyPolicy.localOrigins # None =>
            /\ SchemaItems(p.requestBodyPolicy.localOrigins, MaxItems) /\ Distinct(p.requestBodyPolicy.localOrigins)
            /\ ToSet(p.requestBodyPolicy.localOrigins) \subseteq {"a", "A"}

-----------------------------------------------------------------------------
(* semanticIssues(), of a project the schema accepts.                      *)

SemanticParams(params, source) ==
  /\ Distinct([i \in DOMAIN params |-> params[i].name])
  /\ \A p \in ToSet(params) : p.operation # "remove" => UnitsFit(p.value) /\ CapturesValid(p.value, source)
SemanticBody(body, source) == UnitsFit(body) /\ body # "surrogate" /\ CapturesValid(body, source)
SemanticHeader(r) ==
  /\ ~Forbidden(r.headerName, r.headerDirection)
  /\ r.headerOperation # "remove" => CapturesValid(r.headerValue, r.source)
\* The schema has checked that every pattern compiles.
SemanticResponseBody(b, source) ==
  IF b.mode = "replace" THEN SemanticBody(b.body, source)
  ELSE \A x \in ToSet(b.replacements) : PatternCompiles(x.pattern)
SemanticRequestBody(r) ==
  /\ IF r.requestBody.mode = "replace" THEN SemanticBody(r.requestBody.body, r.source)
     ELSE /\ UnitsFit(r.requestBody.pattern) /\ UnitsFit(r.requestBody.replacement)
          /\ "surrogate" \notin {r.requestBody.pattern, r.requestBody.replacement}
  /\ r.method = "POST" /\ r.resourceTypes = <<"xmlhttprequest">>
SemanticMock(m) ==
  /\ m.status # "204" /\ (m.body = None) # (m.file = None) /\ m.file # "bad"
  /\ m.headers # None =>
       /\ \A h \in ToSet(m.headers) : "control" \notin {h.name, h.value} /\ ~Forbidden(Comparable(h.name), "response")
       /\ Distinct([i \in DOMAIN m.headers |-> Comparable(m.headers[i].name)])
SemanticRule(r) ==
  /\ r.type = "redirect" => DestinationValid(r.redirect.destination) /\ CapturesValid(r.redirect.destination, r.source)
  /\ r.action # None => SemanticParams(r.action.params, r.source)
  /\ r.type = "header" => SemanticHeader(r)
  /\ r.type = "response-body" => SemanticResponseBody(r.responseBody, r.source)
  /\ r.type = "request-body" => SemanticRequestBody(r)
  /\ r.type = "mock" => SemanticMock(r.mock)

SemanticAccepts(p) ==
  /\ Distinct(Claims(p, LAMBDA x : x.id)) /\ Distinct(Claims(p, LAMBDA x : NameKey(x.name)))
  /\ \A g \in ToSet(p.groups) : \A r \in ToSet(g.rules) : SemanticRule(r)
  /\ RuleCount(p) <= MaxItems
  /\ p.requestBodyPolicy # None =>
       "a" \notin Members(p.requestBodyPolicy.localOrigins) \/ "A" \notin Members(p.requestBodyPolicy.localOrigins)

\* validateProjectDetailed() of packages/schema.
Accepts(p) == SchemaAccepts(p) /\ SemanticAccepts(p)
-----------------------------------------------------------------------------
(* browser-schema.ts.                                                      *)

BrowserLabel(t) == UnitsFit(t) /\ t \notin {"empty", "blank"}
BrowserId(t) == UnitsFit(t) /\ t \notin {"empty", "blank", "bad"}
BrowserSource(s) == /\ Record(s) /\ ~s.extra /\ s.key \in {"url", "host"} /\ s.operator = "regex"
                    /\ UnitsFit(s.value) /\ s.value \notin {"empty", "bad"}
\* sourcePattern(): the pattern captures are counted in.
SourcePattern(r) == IF Record(r.source) THEN r.source ELSE [value |-> "empty"]

BrowserRedirect(r) == /\ Record(r.redirect) /\ DestinationValid(r.redirect.destination)
                      /\ CapturesValid(r.redirect.destination, SourcePattern(r))
BrowserParam(p, source) ==
  /\ Record(p) /\ ~p.extra /\ UnitsFit(p.name) /\ p.name # "empty"
  /\ p.operation \in {None, "set", "remove"}
  /\ IF p.operation = "remove" THEN p.value = None
     ELSE UnitsFit(p.value) /\ p.value # "empty" /\ CapturesValid(p.value, source)
BrowserQuery(a, source) ==
  /\ Record(a) /\ ~a.extra /\ a.type = "query"
  /\ Seqs(a.params) /\ Len(a.params) \in 1 .. MaxItems
  /\ \A p \in ToSet(a.params) : BrowserParam(p, source)
  /\ Distinct([i \in DOMAIN a.params |-> a.params[i].name])
\* Mutant of BrowserHeader: a forbidden name is not refused.
BrowserHeaderLoose(r) ==
  /\ r.headerDirection \in {"request", "response"} /\ r.headerOperation \in {"set", "append", "remove"}
  /\ UnitsFit(r.headerName) /\ r.headerName # "empty"
  /\ IF r.headerOperation = "remove" THEN r.headerValue = None
     ELSE UnitsFit(r.headerValue) /\ CapturesValid(r.headerValue, SourcePattern(r))
BrowserHeader(r) ==
  /\ r.headerDirection \in {"request", "response"} /\ r.headerOperation \in {"set", "append", "remove"}
  /\ UnitsFit(r.headerName) /\ r.headerName # "empty" /\ ~Forbidden(r.headerName, r.headerDirection)
  /\ IF r.headerOperation = "remove" THEN r.headerValue = None
     ELSE UnitsFit(r.headerValue) /\ CapturesValid(r.headerValue, SourcePattern(r))
BrowserBody(body, r) == UnitsFit(body) /\ body # "surrogate" /\ CapturesValid(body, SourcePattern(r))
\* Any mode but "replace" is taken for a list of replacements.
BrowserResponseBody(r) ==
  LET b == r.responseBody
  IN  /\ Record(b) /\ ~b.extra /\ (b.body = None \/ b.replacements = None)
      /\ IF b.mode = "replace" THEN BrowserBody(b.body, r)
         ELSE /\ Seqs(b.replacements) /\ Len(b.replacements) \in 1 .. MaxItems
              /\ \A x \in ToSet(b.replacements) :
                   Record(x) /\ ~x.extra /\ UnitsFit(x.pattern) /\ PatternCompiles(x.pattern) /\ UnitsFit(x.replacement)
BrowserRequestBody(r) ==
  LET b == r.requestBody
  IN  /\ Record(b) /\ ~b.extra /\ (b.body = None \/ (b.pattern = None /\ b.replacement = None))
      /\ b.mode \in {"replace", "regex"}
      /\ b.mode = "replace" => BrowserBody(b.body, r)
      /\ b.mode = "regex" => /\ UnitsFit(b.pattern) /\ PatternCompiles(b.pattern) /\ UnitsFit(b.replacement)
                             /\ "surrogate" \notin {b.pattern, b.replacement}
      /\ r.method = "POST" /\ r.resourceTypes = <<"xmlhttprequest">>
\* validateMockStructure()
BrowserMock(m) ==
  /\ Record(m) /\ ~m.extra /\ m.status \in {"2xx", "204"}
  /\ m.headers # None => /\ Seqs(m.headers) /\ Len(m.headers) <= MaxItems
                         /\ \A h \in ToSet(m.headers) :
                              Record(h) /\ ~h.extra /\ UnitsFit(h.name) /\ h.name # "empty" /\ UnitsFit(h.value)
  /\ m.delayMs \in {None, "short"}
  /\ m.body # None => UnitsFit(m.body)
  /\ m.file # None => UnitsFit(m.file) /\ m.file # "empty"
\* validateMockSemantic()
BrowserMockSemantic(m) ==
  /\ m.status # "204" /\ (m.body = None) # (m.file = None) /\ m.file # "bad"
  /\ m.headers # None =>
       /\ \A h \in ToSet(m.headers) : "control" \notin {h.name, h.value} /\ ~Forbidden(Comparable(h.name), "response")
       /\ Distinct([i \in DOMAIN m.headers |-> Comparable(m.headers[i].name)])

BrowserRule(r) ==
  /\ Record(r) /\ ~r.extra /\ BrowserId(r.id) /\ BrowserLabel(r.name) /\ BrowserSource(r.source)
  /\ Seqs(r.resourceTypes) /\ Len(r.resourceTypes) \in 1 .. MaxItems /\ Distinct(r.resourceTypes)
  /\ ToSet(r.resourceTypes) \subseteq {"xmlhttprequest", "main_frame"}
  /\ r.priority \in 1 .. MaxPriority
  /\ r.method \in {None, "GET", "POST"} /\ r.type \in RuleTypes \cup {None}
  /\ r.redactSensitiveInLogs \in {None, "boolean"}
  /\ r.type = "redirect" => BrowserRedirect(r)
  /\ r.action # None => BrowserQuery(r.action, SourcePattern(r))
  /\ r.type = "header" => BrowserHeader(r)
  /\ r.type = "response-body" => BrowserResponseBody(r)
  /\ r.type = "request-body" => BrowserRequestBody(r)
  /\ r.type = "mock" => BrowserMock(r.mock) /\ BrowserMockSemantic(r.mock)

\* Of the policy only the origins are looked at.
BrowserPolicy(policy) ==
  Record(policy) => LET origins == policy.localOrigins
                    IN  origins # None => /\ Seqs(origins) /\ Len(origins) <= MaxItems
                                          /\ ToSet(origins) \subseteq {"a", "A"}
                                          /\ Distinct([i \in DOMAIN origins |-> NameKey(origins[i])])

BrowserAccepts(p) ==
  /\ ~p.extra /\ p.version = 2 /\ BrowserLabel(p.name)
  /\ p.description # None => UnitsFit(p.description)
  /\ Seqs(p.groups) /\ Len(p.groups) <= MaxGroups
  /\ \A g \in ToSet(p.groups) : /\ Record(g) /\ ~g.extra /\ BrowserId(g.id) /\ BrowserLabel(g.name)
                                /\ Seqs(g.rules) /\ Len(g.rules) <= MaxItems /\ \A r \in ToSet(g.rules) : BrowserRule(r)
  /\ Distinct(Claims(p, LAMBDA x : x.id)) /\ Distinct(Claims(p, LAMBDA x : NameKey(x.name)))
  /\ RuleCount(p) <= MaxItems /\ BrowserPolicy(p.requestBodyPolicy)
-----------------------------------------------------------------------------
(* Where the two are known to differ.                                      *)

OwnMembers(type) ==
  CASE type = "redirect" -> {"redirect"}
    [] type = "query" -> {"action"}
    [] type = "header" -> {"headerDirection", "headerOperation", "headerName", "headerValue"}
    [] type = "response-body" -> {"responseBody"}
    [] type = "request-body" -> {"requestBody"}
    [] type = "mock" -> {"mock"}
    [] OTHER -> {}
TypedMembers == UNION {OwnMembers(type) : type \in RuleTypes} \ {"action"}

Ordinary(r) ==
  /\ \A member \in TypedMembers \ OwnMembers(r.type) : r[member] = None
  /\ r.type = "query" => r.action # None
  /\ r.headerOperation = "remove" => r.headerValue = None
  /\ Record(r.redirect) => ~r.redirect.extra
  /\ Record(r.responseBody) => r.responseBody.mode \in {None, "replace", "regex"}

Wide(r) ==
  \/ "wide" \in {r.name, r.headerName, r.headerValue}
  \/ Record(r.action) /\ \E p \in Members(r.action.params) : Record(p) /\ p.name = "wide"
  \/ Record(r.responseBody) /\ \E x \in Members(r.responseBody.replacements) :
       Record(x) /\ "wide" \in {x.pattern, x.replacement}
  \/ Record(r.mock) /\ \/ "wide" \in {r.mock.body, r.mock.file}
                       \/ \E h \in Members(r.mock.headers) : Record(h) /\ "wide" \in {h.name, h.value}

\* The extension accepts the projects the command line accepts, and no others,
\* unless a rule has members of another type, a query rule no action, a removal
\* a value, a redirect unknown members, a response body an unknown mode, the
\* policy a form that is not looked at, or a text is counted differently.
ValidatorsAgree(p) ==
  /\ p.name # "wide" /\ p.description # "wide"
  /\ p.requestBodyPolicy = None \/ (Record(p.requestBodyPolicy) /\ ~p.requestBodyPolicy.extra)
  /\ \A g \in Members(p.groups) : Record(g) =>
       /\ g.name # "wide"
       /\ \A r \in Members(g.rules) : Record(r) => Ordinary(r) /\ ~Wide(r)
  => (Accepts(p) <=> BrowserAccepts(p))
==============================================================================
