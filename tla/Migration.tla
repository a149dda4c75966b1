------------------------------ MODULE Migration ------------------------------
(***************************************************************************)
(* The migration of a version 1 project (packages/schema, migrate-v1.ts).   *)
(* A rule loses the origins it was limited to; when its URL pattern is not  *)
(* proven to match in those only, the migration says so.                    *)
(*                                                                          *)
(* A pattern is a sequence of tokens.  A letter and a digit stand for       *)
(* themselves, "dot" for an escaped dot, "." for any character and "?", "*" *)
(* for repetition.  A URL is [scheme, host, port, rest], with a host that   *)
(* is a sequence of letters, digits and "dot", a port of one digit, if any, *)
(* and a rest that begins with "/".                                         *)
(***************************************************************************)
EXTENDS Integers, SequencesExt

CONSTANTS None, Other, Urls, Letters, Digits

Scheme(token) == CASE token = "https?://" -> {"http", "https"} [] token = "https://" -> {"https"}
                   [] token = "http://" -> {"http"} [] OTHER -> {}
Literals == Letters \cup Digits \cup {"dot"}

\* The first position from i on whose token is not in the set.
Past(pattern, i, tokens) ==
  CHOOSE k \in i .. Len(pattern) + 1 : /\ k = Len(pattern) + 1 \/ pattern[k] \notin tokens
                                       /\ \A j \in i .. k - 1 : pattern[j] \in tokens
At(pattern, i) == IF i <= Len(pattern) THEN pattern[i] ELSE None
LiteralHost(host) == /\ host # <<>> /\ host[1] # "dot" /\ Last(host) # "dot"
                     /\ \A i \in 1 .. Len(host) - 1 : ~(host[i] = "dot" /\ host[i + 1] = "dot")

\* Mutant of Boundary: any token ends the host.
BoundaryAny(pattern, i) == TRUE
Boundary(pattern, i) == At(pattern, i) \in {"/", "$"}

\* regexProvenInsideOrigins(): the pattern names a scheme, a host and perhaps a
\* port, and these are origins of the set.
Proven(pattern, origins) ==
  LET hostEnd == Past(pattern, 3, Literals)
      host == SubSeq(pattern, 3, hostEnd - 1)
      hasPort == At(pattern, hostEnd) = ":"
      portEnd == IF hasPort THEN Past(pattern, hostEnd + 1, Digits) ELSE hostEnd
      port == IF hasPort THEN SubSeq(pattern, hostEnd + 1, portEnd - 1) ELSE <<>>
  IN  /\ origins # {} /\ "|" \notin ToSet(pattern) /\ Len(pattern) >= 3
      /\ pattern[1] = "^" /\ Scheme(pattern[2]) # {}
      /\ LiteralHost(host)
      /\ hasPort => Len(port) = 1
      /\ Boundary(pattern, portEnd)
      /\ \A scheme \in Scheme(pattern[2]) : <<scheme, host, port>> \in origins

\* migrateRule() of a rule [id, name, pattern, origins, ...], or None.
MigratedRule(rule, groupOrigins) ==
  IF Other \in {rule.id, rule.name, rule.pattern, rule.origins, rule.resourceTypes, rule.priority} THEN None
  ELSE [id |-> rule.id, name |-> rule.name, pattern |-> rule.pattern]
Effective(rule, groupOrigins) == ToSet(groupOrigins \o rule.origins)

Rules(groups) == FlattenSeq([i \in DOMAIN groups |-> groups[i].rules])
\* The notices: one for each rule not proven, and the one about initiators last.
Notices(groups) ==
  FlattenSeq([i \in DOMAIN groups |-> FlattenSeq([j \in DOMAIN groups[i].rules |->
    IF Proven(groups[i].rules[j].pattern, Effective(groups[i].rules[j], groups[i].origins)) THEN <<>>
    ELSE <<<<i, j>>>>])]) \o <<<<"initiator-policy">>>>

\* migrateV1Project(), None when it fails.
Migrated(project) ==
  IF \/ project.version # 1 \/ Other \in {project.name, project.groups, project.description}
     \/ project.groups # Other /\ \E g \in ToSet(project.groups) :
          \/ Other \in {g.id, g.name, g.origins, g.rules}
          \/ \E r \in ToSet(g.rules) : MigratedRule(r, g.origins) = None
  THEN None
  ELSE [version |-> 2, name |-> project.name, description |-> project.description,
        requestBodyPolicy |-> project.requestBodyPolicy, notices |-> Notices(project.groups),
        groups |-> [i \in DOMAIN project.groups |->
                     [id |-> project.groups[i].id, name |-> project.groups[i].name,
                      rules |-> [j \in DOMAIN project.groups[i].rules |->
                                   MigratedRule(project.groups[i].rules[j], project.groups[i].origins)]]]]

-----------------------------------------------------------------------------
(* What a pattern matches.                                                 *)

Characters(url) == <<url.scheme>> \o url.host \o (IF url.port = <<>> THEN <<>> ELSE <<":">> \o url.port) \o url.rest
Origin(url) == <<url.scheme, url.host, url.port>>

\* Matches of an anchored pattern without "|".
Matches(pattern, url) ==
  LET text == Characters(url)
      one(token, c) == c \in Scheme(token) \/ token = "." \/ token = c
      from[i \in 2 .. Len(pattern) + 1, j \in 1 .. Len(text) + 1] ==
        LET next == At(pattern, i + 1)
            here == j <= Len(text) /\ one(pattern[i], text[j])
        IN  IF i > Len(pattern) THEN TRUE
            ELSE IF pattern[i] = "$" THEN j > Len(text)
            ELSE IF next = "?" THEN from[i + 2, j] \/ (here /\ from[i + 2, j + 1])
            ELSE IF next = "*" THEN from[i + 2, j] \/ (here /\ from[i, j + 1])
            ELSE here /\ from[i + 1, j + 1]
  IN  from[2, 1]

\* "Prove an anchored literal-host URL-regex prefix is contained in the old
\* effective origin set": a pattern that is proven matches URLs of the old
\* origins only, so the rule it belongs to has not been widened.
ProvenMeansInside(pattern, origins) ==
  Proven(pattern, origins) => \A url \in Urls : Matches(pattern, url) => Origin(url) \in origins

\* A migration keeps the groups and rules in their order, and names every rule
\* that now applies to a URL of another origin, apart from patterns in which a
\* repetition follows a slash.
WidenedIsReported(project) ==
  LET result == Migrated(project)
      repeated(pattern) == \E i \in 1 .. Len(pattern) - 1 : pattern[i] = "/" /\ pattern[i + 1] \in {"?", "*"}
  IN  result # None =>
        /\ [i \in DOMAIN result.groups |-> result.groups[i].id] = [i \in DOMAIN project.groups |-> project.groups[i].id]
        /\ [i \in DOMAIN Rules(result.groups) |-> Rules(result.groups)[i].id]
             = [i \in DOMAIN Rules(project.groups) |-> Rules(project.groups)[i].id]
        /\ \A i \in DOMAIN project.groups : \A j \in DOMAIN project.groups[i].rules :
             LET rule == project.groups[i].rules[j]
             IN  (\E url \in Urls : /\ Matches(rule.pattern, url) /\ ~repeated(rule.pattern)
                                    /\ Origin(url) \notin Effective(rule, project.groups[i].origins))
                   => <<i, j>> \in ToSet(result.notices)
==============================================================================
