--------------------------- MODULE RequestlySource ---------------------------
(***************************************************************************)
(* How the import lowers a source condition of Requestly to a regular       *)
(* expression over the URL (packages/requestly-import, source.ts).          *)
(*                                                                          *)
(* A URL is [host, path, query], sequences of characters: an authority      *)
(* without "/" and "?", a path that begins with "/", and <<>> or a query    *)
(* that begins with "?".  Its scheme is the same for all.  A regular        *)
(* expression is a sequence of pieces [chars, star] and is compared with    *)
(* the whole of host, path and query.                                       *)
(***************************************************************************)
EXTENDS Naturals, SequencesExt

CONSTANTS Chars, Urls, Values

Operators == {"Equals", "Contains", "Wildcard_Matches"}
Conditions == {"Url", "host", "path"} \X Operators \X Values
Text(url) == url.host \o url.path \o url.query

-----------------------------------------------------------------------------
(* Regular expressions.                                                    *)

One(c) == [chars |-> {c}, star |-> FALSE]
Run(chars) == <<[chars |-> chars, star |-> TRUE]>>
Some(chars) == <<[chars |-> chars, star |-> FALSE]>> \o Run(chars)
Literal(value) == [i \in DOMAIN value |-> One(value[i])]
All == Run(Chars)

Accepts(re, text) ==
  LET from[i \in 1 .. Len(re) + 1, j \in 1 .. Len(text) + 1] ==
        IF i > Len(re) THEN j = Len(text) + 1
        ELSE \/ re[i].star /\ from[i + 1, j]
             \/ /\ j <= Len(text) /\ text[j] \in re[i].chars
                /\ from[IF re[i].star THEN i ELSE i + 1, j + 1]
  IN  from[1, 1]

\* "*" becomes a group over the characters given.
Wildcard(value, chars) ==
  FlattenSeq([i \in DOMAIN value |-> IF value[i] = "*" THEN Run(chars) ELSE <<One(value[i])>>])

-----------------------------------------------------------------------------
(* convertUrl(), convertHost(), convertPath().                             *)

Part == Chars \ {"/", "?"}
Tails(first) == {<<>>} \cup {<<One(c)>> \o All : c \in first}  \* (?:[..].*)?

\* The expressions of which one has to accept the URL.
UrlLowered(op, value) ==
  CASE op = "Equals" -> {Literal(value)}
    [] op = "Contains" -> {All \o Literal(value) \o All}
    [] op = "Wildcard_Matches" -> {Wildcard(value, Chars)}

HostBody(op, value) ==
  CASE op = "Equals" -> Literal(value)
    [] op = "Contains" -> Run(Part) \o Literal(value) \o Run(Part)
    [] op = "Wildcard_Matches" -> Wildcard(value, Part)
HostLowered(op, value) == {HostBody(op, value) \o tail : tail \in Tails({"/", "?"})}

PathLowered(op, value) ==
  LET body == CASE op = "Equals" -> IF value \in {<<>>, <<"/">>} THEN <<One("/")>> ELSE Literal(value)
                [] op = "Contains" -> <<One("/")>> \o Run(Chars \ {"?"}) \o Literal(value) \o Run(Chars \ {"?"})
                [] op = "Wildcard_Matches" -> Wildcard(value, Chars)
  IN  {Some(Part) \o body \o tail : tail \in Tails({"?"})}

\* A host value with a character that ends the authority is not imported, and
\* neither is an Equals without a value.
Imported(key, op, value) ==
  /\ op = "Equals" => value # <<>>
  /\ key = "host" => ToSet(value) \cap {"/", "?"} = {}
  /\ key = "host" /\ op = "Equals" => "*" \notin ToSet(value)

Lowered(key, op, value, url) ==
  \E re \in CASE key = "Url" -> UrlLowered(op, value)
              [] key = "host" -> HostLowered(op, value)
              [] key = "path" -> PathLowered(op, value) : Accepts(re, Text(url))

-----------------------------------------------------------------------------
\* What the condition means: Requestly compares the URL, its host or its path.
Subject(key, url) == CASE key = "Url" -> Text(url) [] key = "host" -> url.host [] key = "path" -> url.path
Requestly(key, op, value, url) ==
  LET subject == Subject(key, url)
  IN  CASE op = "Equals" -> subject = value
        [] op = "Contains" -> \E i \in 0 .. Len(subject) - Len(value) : SubSeq(subject, i + 1, i + Len(value)) = value
        [] op = "Wildcard_Matches" -> Accepts(Wildcard(value, Chars), subject)

Keeps(condition, url) ==
  LET key == condition[1]  op == condition[2]  value == condition[3]
  IN  Imported(key, op, value) => (Lowered(key, op, value, url) <=> Requestly(key, op, value, url))
==============================================================================
