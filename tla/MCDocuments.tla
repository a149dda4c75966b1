------------------------------ MODULE MCDocuments ------------------------------
(* Documents for TLC, and beside its parts the algorithms on documents: the  *)
(* Requestly import and its source conditions, the two validators and the     *)
(* migration of projects.                                                     *)
EXTENDS Documents

CONSTANTS
  Other, Null,
  named, nameless,      \* the document of every new server, and without its name
  MaxPriority, MaxItems,  \* import, schema
  MaxPattern            \* migration

VARIABLES
  export, into, groupsLeft, rulesLeft, draftsLeft, names, ids, priority, buckets, spare, rows,
  imported, phase,
  url,               \* source: the URL that every condition is asked about
  project, changes,  \* schema: a project, and how often it was changed
  pattern            \* migration: the pattern of the rules

importVars == <<export, into, groupsLeft, rulesLeft, draftsLeft, names, ids, priority, buckets,
                spare, rows, imported, phase>>
sampleVars == <<url, project, changes, pattern>>

--------------------------------------------------------------------------------
(* The draft: its rule has been renamed, so that its id is the one that a new *)
(* rule would get.                                                            *)
DraftedRule == [id |-> <<"rule">>, name |-> <<"r">>, kind |-> "redirect", pay |-> {"redirect"}, bad |-> FALSE]
MCDrafts == {<<[uid |-> 100, id |-> <<"a">>, name |-> <<"a">>, saved |-> None, rules |-> <<DraftedRule>>]>>}
MCTyped == {<<"a">>, <<"r">>}
MCProposals == {<<[gid |-> <<"a">>, name |-> <<"r">>, kind |-> "query"]>>,
                <<[gid |-> <<"rule", "2">>, name |-> <<"!">>, kind |-> "query"]>>}

(* Two server processes on two files; a document without a name is refused, and *)
(* accepted when it has one.                                                    *)
MCFresh == [s \in Servers |-> named]
MCWithName == [d \in Docs \cup BadDocs |-> IF d = nameless THEN named ELSE d]

(* Source conditions: URLs and values of up to three characters. *)
Strings(chars, n) == UNION {[1 .. k -> chars] : k \in 0 .. n}
MCChars == {"a", "b", "/", "?"}
MCSourceUrls == [host : Strings({"a", "b"}, 2) \ {<<>>}, path : {<<"/">> \o s : s \in Strings({"a", "b", "/"}, 2)},
                 query : {<<>>, <<"?">>, <<"?", "a">>, <<"?", "/">>}]
MCValues == Strings({"a", "/", "*"}, 3)

(* Migration: patterns token by token, in rules of groups with other origins. *)
MCTokens == {"a", "dot", ".", "/", ":", "1", "?", "*", "$"}
MCSchemes == {"https?://", "https://", "http://"}
Hosts == {h \in Strings({"a", "dot"}, 3) : h # <<>> /\ h[1] = "a" /\ Last(h) = "a"} \cup {<<"a", "1">>}
MCUrls == [scheme : {"http", "https"}, host : Hosts, port : {<<>>, <<"1">>}, rest : {<<"/">>, <<"/", "a">>}]
Https == <<"https", <<"a">>, <<>>>>
Http == <<"http", <<"a">>, <<>>>>
Https1 == <<"https", <<"a">>, <<"1">>>>
HttpsA1 == <<"https", <<"a", "1">>, <<>>>>
OldRule(id, origins) == [id |-> id, name |-> id, pattern |-> pattern, origins |-> origins,
                         resourceTypes |-> "some", priority |-> 1]
OldGroup(id, origins, rules) == [id |-> id, name |-> id, origins |-> origins, rules |-> rules]
OldProject ==
  [version |-> 1, name |-> "p", description |-> None, requestBodyPolicy |-> None,
   groups |-> <<OldGroup("g", <<Https>>, <<OldRule("r", <<Http>>), OldRule("s", <<>>)>>),
                OldGroup("h", <<>>, <<OldRule("t", <<Https, Https1, HttpsA1>>)>>)>>]

(* The doctor finds everything well, but for one thing at most, and one more  *)
(* changes while it runs.                                                     *)
Healthy ==
  [node |-> "new", cli |-> 2, version |-> 2, latest |-> 2, file |-> "valid", draft |-> "valid",
   project |-> "valid", enabled |-> TRUE, root |-> TRUE, rule |-> "header", installed |-> TRUE,
   phase |-> "started", proxy |-> "ours", verifies |-> TRUE, manifest |-> "valid",
   wrapper |-> "executable", origins |-> {"release"}, ca |-> TRUE, pac |-> TRUE, ai |-> "answers",
   assist |-> TRUE, id |-> "release", connects |-> "ok", access |-> "granted",
   incognito |-> "granted", tab |-> "matches"]
Ills ==
  [node |-> {"old"}, cli |-> {None, 1}, latest |-> {None, 3}, version |-> {3},
   draft |-> {"invalid", "mock"}, verifies |-> {FALSE}, manifest |-> {"missing"},
   wrapper |-> {"missing"}, origins |-> {{}, {"fork"}}, ca |-> {FALSE}, assist |-> {FALSE},
   id |-> {None, "fork"}, connects |-> {"missing", "forbidden"}, access |-> {"refused", None},
   incognito |-> {None}, rule |-> {"matcher", "unprojectable", "unroutable"}]
MCLive ==
  [file |-> {"valid", "invalid"}, project |-> {"valid", "none", "invalid", "too large"},
   enabled |-> BOOLEAN, root |-> BOOLEAN, installed |-> BOOLEAN,
   phase |-> {"started", "stopped", "failed", "unsupported"},
   proxy |-> {"ours", "free", "another's", None}, pac |-> BOOLEAN,
   rule |-> {"header", "body"}, ai |-> {"answers", "none", "silent"}, tab |-> {"matches", "misses", None}]
Altered(base, by) == UNION {{[base EXCEPT ![f] = v] : v \in by[f]} : f \in DOMAIN by}
MCWorlds ==
  Altered(Healthy, Ills) \cup UNION {Altered([Healthy EXCEPT !.rule = r], MCLive) : r \in {"header", "body", "mock"}}
--------------------------------------------------------------------------------
Records == INSTANCE MCImportSamples
Import == INSTANCE RequestlyImport WITH
  Exports <- Records!SampleExports, Projects <- Records!SampleTargets, BadIds <- {<<"!">>},
  MaxGroups <- 3, MaxRulesPerGroup <- 3, MaxRulesPerProject <- 5
Source == INSTANCE RequestlySource WITH Chars <- MCChars, Urls <- MCSourceUrls, Values <- MCValues
Samples == INSTANCE MCSchemaSamples
Schema == INSTANCE SchemaValidation WITH MaxGroups <- 2
Old == INSTANCE Migration WITH Urls <- MCUrls, Letters <- {"a"}, Digits <- {"1"}

ASSUME Import!ImportAssumption

NoImport ==
  /\ export = None /\ into = None /\ groupsLeft = None /\ rulesLeft = None /\ draftsLeft = None
  /\ names = None /\ ids = None /\ priority = None /\ buckets = None /\ spare = None
  /\ rows = None /\ imported = None /\ phase = None
NoSample == url = None /\ project = None /\ changes = None /\ pattern = None
SampleInit ==
  \/ part = "source" /\ url \in MCSourceUrls /\ project = None /\ changes = None /\ pattern = None
  \/ /\ part = "schema" /\ project \in {Samples!Holding(r) : r \in Samples!SampleRules} /\ changes = 0
     /\ url = None /\ pattern = None
  \/ part = "migration" /\ pattern = <<"^">> /\ url = None /\ project = None /\ changes = None

NoDocument == NoDraft /\ NoConsole /\ NoServer /\ NoDoctor

MCInit ==
  \/ DocumentsInit /\ NoImport /\ NoSample
  \/ part = "import" /\ Import!Init /\ NoDocument /\ NoSample
  \/ SampleInit /\ NoDocument /\ NoImport

\* The only rule of a sample project has a member replaced, twice at most, or
\* the plain project itself has.
ReplaceMember(members) ==
  \E m \in DOMAIN members : \E v \in members[m] :
    project' = [project EXCEPT !.groups[1].rules[1][m] = v]
Alter == changes = 0 /\ changes' = 1 /\ ReplaceMember(Samples!RuleMembers)
AlterAgain == changes = 1 /\ changes' = 2 /\ ReplaceMember(Samples!FewMembers)
AlterProject ==
  /\ changes = 0 /\ project = Samples!Holding(Samples!Plain) /\ changes' = 2
  /\ \E m \in DOMAIN Samples!ProjectMembers : \E v \in Samples!ProjectMembers[m] :
       project' = [project EXCEPT ![m] = v]

Extend ==
  /\ Len(pattern) < MaxPattern
  /\ \E t \in IF Len(pattern) = 1 THEN MCSchemes ELSE MCTokens : pattern' = Append(pattern, t)

SampleNext ==
  \/ part = "schema" /\ (Alter \/ AlterAgain \/ AlterProject) /\ UNCHANGED <<url, pattern>>
  \/ part = "migration" /\ Extend /\ UNCHANGED <<url, project, changes>>

MCNext ==
  \/ DocumentsNext /\ UNCHANGED <<importVars, sampleVars>>
  \/ part = "import" /\ Import!Next /\ UNCHANGED <<documentVars, sampleVars>>
  \/ SampleNext /\ UNCHANGED <<documentVars, importVars>>

MCSpec == MCInit /\ [][MCNext]_<<documentVars, importVars, sampleVars>>

ServerSymmetry ==
  Permutations(Servers) \cup Permutations(Paths) \cup Permutations(Requests)

--------------------------------------------------------------------------------
\* RequestlyImport: the report accounts for every record, names and ids stay apart,
\* earlier rules outrank later ones, and a merge only adds.  RequestlySource: a URL or
\* host condition accepts the URLs that it accepted in Requestly, and no others.
ImportKeeps ==
  /\ part = "import" => Import!ImportAccounts /\ Import!EarlierWins /\ Import!MergeAddsOnly
  /\ part = "source" =>
       \A condition \in Source!Conditions : condition[1] # "path" => Source!Keeps(condition, url)

\* SchemaValidation: the command line and the extension accept the same projects.
ValidatorsAgree == part = "schema" => Schema!ValidatorsAgree(project)

\* RequestlyImport: a "$" of the export stays a literal dollar in what is stored.
DollarsStayLiteral == part = "import" => Import!DollarsStayLiteral

\* Migration: a rule that now applies to a URL of another origin is named in a notice.
WidenedIsReported == part = "migration" => Old!WidenedIsReported(OldProject)
================================================================================
