--------------------------- MODULE RequestlyImport ---------------------------
(***************************************************************************)
(* The import of a Requestly export (packages/requestly-import) and its     *)
(* merge into a project.  One step of the loops of importRequestlyExport()  *)
(* and mergeProjects() is one action.                                       *)
(*                                                                          *)
(* A record of the export is a "group" with its children, a "rule" or       *)
(* "other".  A rule has pairs; a pair says whether its source condition can *)
(* be expressed ("refused" otherwise), what is lost by it (notes), and the  *)
(* request methods it is for, <<>> being all.                               *)
(***************************************************************************)
EXTENDS Identity

CONSTANTS
  None,
  Exports,      \* the exports considered
  Projects,     \* the projects to merge into, with None for no merge
  BadIds,       \* ids of the export that are no Rogatio ids
  MaxPriority,  \* LIMITS.maxPriority
  MaxGroups, MaxRulesPerGroup, MaxRulesPerProject  \* LIMITS

\* What the constants must be.
ImportAssumption == MaxPriority \in Nat \ {0}

VARIABLES
  export, into,
  groupsLeft, rulesLeft, \* not yet imported
  draftsLeft,            \* of the rule in hand, not yet stored
  names, ids,            \* in use
  priority, buckets,
  spare,                 \* the bucket for rules without a group, or None
  rows,                  \* of the report; the last is that of the rule in hand
  imported,              \* the groups imported, or None
  phase                  \* "import", "merge", "done" or "limit"

vars == <<export, into, groupsLeft, rulesLeft, draftsLeft, names, ids, priority, buckets,
          spare, rows, imported, phase>>
reading == <<export, into, groupsLeft>>

-----------------------------------------------------------------------------
(* What parseRequestlyExport() makes of the records.                       *)

FirstOf(s, Same(_, _)) ==
  FlattenSeq([i \in DOMAIN s |-> IF \E j \in 1 .. i - 1 : Same(s[j], s[i]) THEN <<>> ELSE <<s[i]>>])

IsGroup(r) == r.object = "group" /\ r.id # None
Children(g) == [i \in DOMAIN g.children |->
                  IF g.children[i].gid = None THEN [g.children[i] EXCEPT !.gid = g.id] ELSE g.children[i]]

\* Rules of the export and of its groups; of those with one id the first.
ParsedRules(e) ==
  FirstOf(FlattenSeq([i \in DOMAIN e |-> IF IsGroup(e[i]) THEN Children(e[i])
                                         ELSE IF e[i].object = "rule" THEN <<e[i]>> ELSE <<>>]),
          LAMBDA p, q : p.id # None /\ p.id = q.id)
ParsedGroups(e) == FirstOf(SelectSeq(e, IsGroup), LAMBDA p, q : p.id = q.id)
Unknown(e) == SelectSeq(e, LAMBDA r : r.object # "rule" /\ ~IsGroup(r))

-----------------------------------------------------------------------------
(* Texts are sequences of characters.                                      *)

\* escapeDollars(): replaceAll("$", "$$"), where "$$" stands for one "$".
Escaped(text) == text

\* What a stored text becomes at a request whose URL has one capture.
Substituted(text, capture) ==
  LET from[i \in 1 .. Len(text) + 1] ==
        IF i > Len(text) THEN <<>>
        ELSE IF text[i] # "$" \/ i = Len(text) THEN <<text[i]>> \o from[i + 1]
        ELSE IF text[i + 1] = "$" THEN <<"$">> \o from[i + 2]
        ELSE IF text[i + 1] = "1" THEN capture \o from[i + 2]
        ELSE <<"$">> \o from[i + 1]
  IN  from[1]

-----------------------------------------------------------------------------
(* A pair becomes drafts, with changes to report, or is refused.           *)

Refusal == [drafts |-> <<>>, changes |-> {}]

\* applyMethods(): a rule stores one method.
Split(p, suffix, texts, changes) ==
  [drafts |-> IF Len(p.methods) <= 1 THEN <<[suffix |-> suffix, texts |-> texts]>>
              ELSE [i \in DOMAIN p.methods |-> [suffix |-> Append(suffix, p.methods[i]), texts |-> texts]],
   changes |-> changes \cup (IF Len(p.methods) > 1 THEN {"methods"} ELSE {})]

Joined(parts) == [drafts |-> FlattenSeq([i \in DOMAIN parts |-> parts[i].drafts]),
                  changes |-> UNION {parts[i].changes : i \in DOMAIN parts}]

\* A text as it is stored, and for the property as it was.
Text(t) == [stored |-> Escaped(t), meant |-> t]

ConvertRedirect(p) ==
  IF p.dest # "url" THEN Refusal
  ELSE Split(p, <<>>, <<>>, p.notes \cup (IF p.captures THEN {"captures"} ELSE {}))

\* mapReplace(): one redirect, or one for https and one for http.
Schemes(p) ==
  CASE p.key = "Url" /\ p.op \in {"Equals", "Wildcard"} /\ p.found -> <<<<>>>>
    [] p.key = "Url" /\ p.op = "Contains" -> <<<<"https">>, <<"http">>>>
    [] p.key = "host" /\ p.op = "Equals" /\ p.found -> <<<<"https">>, <<"http">>>>
    [] OTHER -> <<>>
ConvertReplace(p) ==
  LET parts == [i \in DOMAIN Schemes(p) |-> Split(p, Schemes(p)[i], <<>>, {"replace"})]
  IN  IF parts = <<>> THEN Refusal ELSE Joined(parts)

\* One rule for all parameters; of those with one name the last value counts.
ConvertQuery(p) ==
  LET good == SelectSeq(p.mods, LAMBDA m : m.op # "bad")
      kept == FirstOf(Reverse(good), LAMBDA m, n : m.name = n.name)
      notes == (IF Len(good) < Len(p.mods) THEN {"dropped"} ELSE {})
               \cup (IF Len(kept) < Len(good) THEN {"duplicate"} ELSE {})
               \cup (IF \E i \in DOMAIN good : good[i].op = "append" THEN {"overwrites"} ELSE {})
  IN  IF good = <<>> \/ \E i \in DOMAIN p.mods : p.mods[i].op = "remove all" THEN Refusal
      ELSE Split(p, <<>>, [i \in DOMAIN kept |-> Text(kept[i].value)], p.notes \cup notes)

\* One rule per header.
ConvertHeaders(p) ==
  LET good == SelectSeq(p.mods, LAMBDA m : m.op # "bad" /\ ~m.forbidden)
      parts == [i \in DOMAIN good |-> Split(p, <<good[i].name>>, <<Text(good[i].value)>>,
                  IF good[i].op = "modify" THEN {"set"} ELSE {})]
  IN  IF good = <<>> THEN Refusal
      ELSE [Joined(parts) EXCEPT !.changes = @ \cup p.notes
             \cup (IF Len(good) < Len(p.mods) THEN {"dropped"} ELSE {})
             \cup (IF Len(good) > 1 THEN {"headers"} ELSE {})]

ConvertUserAgent(p) ==
  Split(p, <<>>, <<Text(p.value)>>, p.notes \cup (IF p.preset THEN {"preset"} ELSE {}))

ConvertResponse(p) ==
  IF p.body # "static" THEN Refusal ELSE Split(p, <<>>, <<Text(p.value)>>, p.notes \cup {"upstream"})

\* narrowRequestBody(): one rule for each of the methods that may have a body.
ConvertRequest(p) ==
  LET asked == SelectSeq(<<"POST", "PUT">>, LAMBDA m : p.methods = <<>> \/ m \in ToSet(p.methods))
      notes == (IF p.types # {"xhr"} THEN {"types"} ELSE {})
               \cup (IF p.methods = <<>> \/ Len(asked) > 1 THEN {"methods"} ELSE {})
               \cup (IF Len(asked) < Len(p.methods) THEN {"dropped methods"} ELSE {})
  IN  IF p.body # "static" \/ "xhr" \notin p.types \/ asked = <<>> THEN Refusal
      ELSE [drafts |-> [i \in DOMAIN asked |->
                          [suffix |-> IF Len(asked) > 1 THEN <<asked[i]>> ELSE <<>>, texts |-> <<Text(p.value)>>]],
            changes |-> p.notes \cup notes]

Convert(type, p) ==
  CASE p.refused -> Refusal
    [] ~p.refused /\ type = "Redirect" -> ConvertRedirect(p)
    [] ~p.refused /\ type = "Replace" -> ConvertReplace(p)
    [] ~p.refused /\ type = "QueryParam" -> ConvertQuery(p)
    [] ~p.refused /\ type = "Headers" -> ConvertHeaders(p)
    [] ~p.refused /\ type = "UserAgent" -> ConvertUserAgent(p)
    [] ~p.refused /\ type = "Request" -> ConvertRequest(p)
    [] ~p.refused /\ type = "Response" -> ConvertResponse(p)
    [] OTHER -> Refusal

\* mapRequestlyRule(): what the pairs that were not refused have become.
Mapped(rule) ==
  LET made == Joined([i \in DOMAIN rule.pairs |-> Convert(rule.type, rule.pairs[i])])
      several == IF rule.type \in {"Redirect", "Replace"} THEN Len(rule.pairs) > 1
                 ELSE rule.type \in {"QueryParam", "UserAgent", "Response"} /\ Len(made.drafts) > 1
  IN  [drafts |-> IF rule.type = "Headers" /\ Len(made.drafts) = 1
                  THEN <<[made.drafts[1] EXCEPT !.suffix = <<>>]>> ELSE made.drafts,
       changes |-> made.changes \cup (IF several THEN {"pairs"} ELSE {})]
-----------------------------------------------------------------------------
Init ==
  /\ export \in Exports /\ into \in Projects
  /\ groupsLeft = ParsedGroups(export) /\ rulesLeft = ParsedRules(export) /\ draftsLeft = <<>>
  /\ names = {} /\ ids = {} /\ priority = MaxPriority
  /\ buckets = <<>> /\ spare = None /\ rows = <<>> /\ imported = None /\ phase = "import"

\* Mutant of TakeId: an id of the export is kept though it is in use.
TakeIdAgain(preferred, name, kind, keep) ==
  IF keep /\ preferred \notin BadIds \cup {None} THEN preferred ELSE DeriveId(name, kind, ids)

TakeId(preferred, name, kind, keep) ==
  IF keep /\ preferred \notin BadIds \cup {None} /\ preferred \notin ids THEN preferred
  ELSE DeriveId(name, kind, ids)

Label(name, kind) == IF name = <<>> THEN <<"imported", kind>> ELSE name

Bucket(gid, name, inactive) ==
  [gid |-> gid, name |-> Free(name, names), inactive |-> inactive, rules |-> <<>>,
   id |-> TakeId(gid, Free(name, names), "group", TRUE)]

AddGroup ==
  LET g == Head(groupsLeft)
      bucket == Bucket(g.id, Label(g.name, "group"), g.inactive)
  IN  /\ phase = "import" /\ groupsLeft # <<>>
      /\ groupsLeft' = Tail(groupsLeft)
      /\ buckets' = Append(buckets, bucket)
      /\ names' = names \cup {bucket.name} /\ ids' = ids \cup {bucket.id}
      /\ UNCHANGED <<export, into, rulesLeft, draftsLeft, priority, spare, rows, imported, phase>>

Lower(p) == IF p = 1 THEN 1 ELSE p - 1

Home(rule) == SelectInSeq(buckets, LAMBDA b : b.gid = rule.gid)

\* placeRule(): the changes of the rule itself, and its bucket.
BeginRule ==
  LET rule == Head(rulesLeft)
      mapped == Mapped(rule)
      inactive == rule.inactive \/ (Home(rule) # 0 /\ buckets[Home(rule)].inactive)
      changes == mapped.changes \cup (IF inactive THEN {"inactive"} ELSE {})
                 \cup rule.notes
                 \cup (IF rule.gid # None /\ Home(rule) = 0 THEN {"group"} ELSE {})
      bucket == Bucket(<<"ungrouped">>, <<"ungrouped">>, FALSE)
  IN  /\ phase = "import" /\ groupsLeft = <<>> /\ draftsLeft = <<>> /\ rulesLeft # <<>>
      /\ IF mapped.drafts = <<>>
         THEN /\ rows' = Append(rows, [rule |-> rule, skipped |-> TRUE, changes |-> {}, ids |-> {}])
              /\ rulesLeft' = Tail(rulesLeft)
              /\ UNCHANGED <<names, ids, spare, draftsLeft>>
         ELSE /\ rows' = Append(rows, [rule |-> rule, skipped |-> FALSE, changes |-> changes, ids |-> {}])
              /\ draftsLeft' = mapped.drafts
              /\ IF Home(rule) = 0 /\ spare = None
                 THEN spare' = bucket /\ names' = names \cup {bucket.name} /\ ids' = ids \cup {bucket.id}
                 ELSE UNCHANGED <<names, ids, spare>>
              /\ UNCHANGED rulesLeft
      /\ UNCHANGED <<reading, priority, buckets, imported, phase>>

\* One draft of the rule in hand gets its name, id and priority.
AddDraft ==
  LET rule == Head(rulesLeft)
      draft == Head(draftsLeft)
      first == rows[Len(rows)].ids = {}
      labeled == Label(rule.name, "rule") \o draft.suffix
      name == Free(labeled, names)
      id == TakeId(rule.id, name, "rule", first)
      stored == [id |-> id, name |-> name, priority |-> priority, texts |-> draft.texts]
      changes == (IF name # labeled THEN {"name"} ELSE {})
                 \cup (IF first /\ rule.id # None /\ id # rule.id THEN {"id"} ELSE {})
  IN  /\ phase = "import" /\ draftsLeft # <<>>
      /\ draftsLeft' = Tail(draftsLeft)
      /\ rulesLeft' = IF Len(draftsLeft) = 1 THEN Tail(rulesLeft) ELSE rulesLeft
      /\ names' = names \cup {name} /\ ids' = ids \cup {id}
      /\ priority' = Lower(priority)
      /\ IF Home(rule) # 0 THEN buckets' = [buckets EXCEPT ![Home(rule)].rules = Append(@, stored)] /\ UNCHANGED spare
         ELSE spare' = [spare EXCEPT !.rules = Append(@, stored)] /\ UNCHANGED buckets
      /\ rows' = [rows EXCEPT ![Len(rows)].changes = @ \cup changes, ![Len(rows)].ids = @ \cup {id}]
      /\ UNCHANGED <<reading, imported, phase>>

\* limitError()
Rules(groups) == UNION {ToSet(groups[i].rules) : i \in DOMAIN groups}
Fits(groups) ==
  /\ Len(groups) <= MaxGroups
  /\ \A i \in DOMAIN groups : Len(groups[i].rules) <= MaxRulesPerGroup
  /\ Cardinality(Rules(groups)) <= MaxRulesPerProject

Identities(groups) == [names |-> {groups[i].name : i \in DOMAIN groups} \cup {r.name : r \in Rules(groups)},
                       ids |-> {groups[i].id : i \in DOMAIN groups} \cup {r.id : r \in Rules(groups)}]

\* The import ends; with a project to merge into, mergeProjects() begins.
EndImport ==
  LET groups == buckets \o (IF spare # None /\ spare.rules # <<>> THEN <<spare>> ELSE <<>>)
      other == [i \in DOMAIN Unknown(export) |->
                  [rule |-> Unknown(export)[i], skipped |-> TRUE, changes |-> {}, ids |-> {}]]
      merging == into # None /\ Fits(groups)
  IN  /\ phase = "import" /\ groupsLeft = <<>> /\ draftsLeft = <<>> /\ rulesLeft = <<>>
      /\ phase' = IF ~Fits(groups) THEN "limit" ELSE IF into # None THEN "merge" ELSE "done"
      /\ imported' = groups /\ rows' = rows \o other
      /\ groupsLeft' = IF merging THEN groups ELSE <<>>
      /\ buckets' = IF merging THEN into ELSE groups
      /\ names' = IF merging THEN Identities(into).names ELSE names
      /\ ids' = IF merging THEN Identities(into).ids ELSE ids
      /\ UNCHANGED <<export, into, rulesLeft, draftsLeft, priority, spare>>

merge == <<export, into, rulesLeft, priority, spare, rows, imported, phase>>

MergeGroup ==
  LET g == Head(groupsLeft)
      name == Free(g.name, names)
      id == TakeId(g.id, name, "group", TRUE)
  IN  /\ phase = "merge" /\ draftsLeft = <<>> /\ groupsLeft # <<>>
      /\ groupsLeft' = Tail(groupsLeft) /\ draftsLeft' = g.rules
      /\ buckets' = Append(buckets, [g EXCEPT !.name = name, !.id = id, !.rules = <<>>])
      /\ names' = names \cup {name} /\ ids' = ids \cup {id}
      /\ UNCHANGED merge

MergeRule ==
  LET rule == Head(draftsLeft)
      name == Free(rule.name, names)
      id == TakeId(rule.id, name, "rule", TRUE)
  IN  /\ phase = "merge" /\ draftsLeft # <<>>
      /\ draftsLeft' = Tail(draftsLeft)
      /\ buckets' = [buckets EXCEPT ![Len(buckets)].rules = Append(@, [rule EXCEPT !.name = name, !.id = id])]
      /\ names' = names \cup {name} /\ ids' = ids \cup {id}
      /\ UNCHANGED <<merge, groupsLeft>>

EndMerge ==
  /\ phase = "merge" /\ draftsLeft = <<>> /\ groupsLeft = <<>>
  /\ phase' = IF Fits(buckets) THEN "done" ELSE "limit"
  /\ UNCHANGED <<reading, rulesLeft, draftsLeft, names, ids, priority, buckets, spare, rows, imported>>

Next == AddGroup \/ BeginRule \/ AddDraft \/ EndImport \/ MergeGroup \/ MergeRule \/ EndMerge
Spec == Init /\ [][Next]_vars

-----------------------------------------------------------------------------
AllIds(groups) == FlattenSeq([i \in DOMAIN groups |->
                    <<groups[i].id>> \o [j \in DOMAIN groups[i].rules |-> groups[i].rules[j].id]])
AllNames(groups) == FlattenSeq([i \in DOMAIN groups |->
                    <<groups[i].name>> \o [j \in DOMAIN groups[i].rules |-> groups[i].rules[j].name]])

\* The report accounts for the import: one row for each rule and each unknown
\* record, a row without rules is one that was skipped, the rules named by the
\* rows are those of the project, each by one row, and no two groups or rules
\* share an id or a name.
ImportAccounts ==
  imported # None =>
    /\ Len(rows) = Len(ParsedRules(export)) + Len(Unknown(export))
    /\ \A i \in DOMAIN rows : rows[i].skipped <=> rows[i].ids = {}
    /\ UNION {rows[i].ids : i \in DOMAIN rows} = {r.id : r \in Rules(imported)}
    /\ \A i, j \in DOMAIN rows : i # j => rows[i].ids \cap rows[j].ids = {}
    /\ IsInjective(AllIds(imported)) /\ IsInjective(AllNames(imported))

\* A rule that comes before another in the export outranks what that became,
\* until both are at the lowest priority.
EarlierWins ==
  imported # None =>
    \A i, j \in DOMAIN rows : \A p, q \in Rules(imported) :
      i < j /\ p.id \in rows[i].ids /\ q.id \in rows[j].ids =>
        p.priority > q.priority \/ q.priority = 1

\* A merge leaves the project as it was, in front of groups with the content
\* of the imported ones, and makes no two ids or names equal.
MergeAddsOnly ==
  (phase = "done" /\ into # None) =>
    /\ IsPrefix(into, buckets) /\ Len(buckets) = Len(into) + Len(imported)
    /\ IsInjective(AllIds(buckets)) /\ IsInjective(AllNames(buckets))
    /\ \A i \in DOMAIN imported :
         LET merged == buckets[Len(into) + i].rules
         IN  /\ Len(merged) = Len(imported[i].rules)
             /\ \A j \in DOMAIN merged : merged[j].texts = imported[i].rules[j].texts

\* A "$" in a header value, a query value or a body stays a literal dollar: what
\* is stored becomes, at any request, the text that was exported.
DollarsStayLiteral ==
  imported # None =>
    \A r \in Rules(imported) : \A i \in DOMAIN r.texts :
      Substituted(r.texts[i].stored, <<"capture">>) = r.texts[i].meant
==============================================================================
