------------------------------- MODULE MCNative -------------------------------
(* The native side with policies, presets, projects and URLs for TLC, and     *)
(* beside its parts the scan of patterns for the PAC.                         *)
EXTENDS Native, TLC

CONSTANT MaxPieces

VARIABLES pattern, pieces

-------------------------------------------------------------------------------
(* Two policies that share rule 1: one lets it write requests, the other     *)
(* rewrites answers by it, and has a rule of a disabled group.               *)
MCProxyUrls == {[name |-> "u1", origin |-> "o1", port |-> 80], [name |-> "u2", origin |-> "o2", port |-> 443]}
Rewrite(kind, rule, method, priority) ==
  [kind |-> kind, group |-> IF rule = 3 THEN "g2" ELSE "g1", rule |-> rule, urls |-> MCProxyUrls,
   method |-> method, priority |-> priority]
MCPolicies == {
  [digest |-> "d1", local |-> {"o1"}, rules |-> {1, 2}, enabled |-> {"g1"},
   ops |-> {Rewrite("request-body", 1, "POST", 5), Rewrite("response-body", 2, "GET", 5)}],
  [digest |-> "d2", local |-> {"o2"}, rules |-> {1, 3}, enabled |-> {"g1"},
   ops |-> {Rewrite("response-body", 3, None, 7), Rewrite("response-body", 1, None, 7)}]}

(* Presets of the controller, with duplicate, unmatched and ungranted rules. *)
Grant(rule, op, kind, method) ==
  [group |-> "g", rule |-> rule, operation |-> op, kind |-> kind, method |-> method]
Matcher(rule, method) == [group |-> "g", rule |-> rule, method |-> method]
MockFile(rule, inFile) == [rule |-> rule, file |-> inFile]
PresetOf(matchers, grants, mocks) == [matchers |-> matchers, grants |-> grants, mocks |-> mocks]
GetA == Grant("a", "o1", "outbound-http", "GET")
PutB == Grant("b", "o2", "confined-file", "PUT")
PostA == Grant("a", "o3", "outbound-http", "POST")
MCInputs == {
  PresetOf(<<Matcher("a", None), Matcher("b", "PUT")>>, <<GetA, PutB>>,
           <<MockFile("a", TRUE), MockFile("b", TRUE)>>),
  PresetOf(<<Matcher("a", "GET")>>, <<PostA>>, <<>>),
  PresetOf(<<Matcher("a", None), Matcher("a", "GET")>>, <<>>, <<>>),
  PresetOf(<<Matcher("a", "PUT")>>, <<[GetA EXCEPT !.kind = "confined-file"]>>, <<>>),
  PresetOf(<<Matcher("a", None)>>, <<>>, <<MockFile("b", FALSE)>>),
  PresetOf(<<Matcher("a", None)>>, <<>>, <<MockFile("a", FALSE)>>)}
MCConfigs == {[url |-> "u", key |-> 1], [url |-> "u", key |-> 2]}

(* Sources by host and by URL, literal or not, with and without a port. *)
MCSiteUrls == [scheme : {"http", "https"}, host : {"a", "b"}, port : {None, 81}, path : {"/", "/x"}]
Source(key, literal, safe, schemes, hosts, port) ==
  [key |-> key, literal |-> literal, safe |-> safe, schemes |-> schemes, hosts |-> hosts,
   port |-> port, paths |-> {"/x"}]
Both == {"http", "https"}
HostA  == Source("host", TRUE, TRUE, Both, {"a"}, None)
HostAB == Source("host", FALSE, TRUE, Both, {"a", "b"}, None)
UrlA   == Source("url", TRUE, TRUE, {"http"}, {"a"}, None)
UrlAs  == Source("url", TRUE, TRUE, {"https"}, {"a"}, 81)
UrlB   == Source("url", FALSE, TRUE, Both, {"a", "b"}, None)
UrlR   == Source("url", TRUE, FALSE, {"https"}, {"b"}, None)
Op(kind, group, rule, method, source) ==
  [kind |-> kind, group |-> group, rule |-> rule, method |-> method, types |-> {"xhr"}, source |-> source]
MCProjects == {
  {Op("redirect", "g", 11, "GET", UrlB), Op("header", "g", 12, "POST", HostA), Op("mock", "h", 13, None, HostA)},
  {Op("request-body", "g", 21, "POST", UrlA), Op("request-body", "h", 22, "POST", UrlAs),
   Op("response-body", "h", 23, None, UrlB)},
  {Op("request-body", "g", 31, "POST", HostA), Op("request-body", "h", 32, "POST", UrlR), Op("mock", "g", 33, "GET", HostAB)},
  {Op("response-body", "g", 41, "GET", HostAB), Op("header", "g", 42, None, UrlAs), Op("header", "h", 43, None, HostAB)},
  {Op("request-body", "g", 51, "POST", HostAB), Op("query", "h", 52, None, HostA)}}

(* Groups, classes, escapes and quantifiers of a pattern. *)
MCPieces == {<<"(">>, <<")">>, <<")", "*">>, <<")", "?">>, <<"a">>, <<"a", "*">>,
             <<"[", "|", "(", "]">>, <<"\\", "(">>, <<"|">>, <<"a", "{2,}">>}
MCDescriptors == {GetA, PutB, PostA}

-------------------------------------------------------------------------------
patternVars == <<pattern, pieces>>
NoPattern == pattern = None /\ pieces = None

Pac == INSTANCE PacSafety WITH Pieces <- MCPieces

MCInit ==
  \/ NativeInit /\ NoPattern
  \/ /\ part = "pattern" /\ Pac!Init
     /\ Init /\ store = "keychain" /\ NoProxy /\ NoController /\ NoRouting

MCNext ==
  \/ NativeNext /\ UNCHANGED patternVars
  \/ part = "pattern" /\ Pac!Next /\ UNCHANGED nativeVars

MCSpec == MCInit /\ [][MCNext]_<<nativeVars, patternVars>>

NativeSymmetry == Permutations(Clients)

-------------------------------------------------------------------------------
\* PacSafety: the scan refuses branches in repeated groups and nothing else but
\* repetitions in them.
ScanExact == part = "pattern" => Pac!ScanExact
===============================================================================
