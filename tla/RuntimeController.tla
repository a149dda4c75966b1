------------------------- MODULE RuntimeController -------------------------
(***************************************************************************)
(* The control plane of the native host apart from its start, which is     *)
(* NativeHost: the preset it is bound to (preset.ts), the single-use       *)
(* pairing and its sessions (capability.ts), exact authorization           *)
(* (authorization.ts), the folder of the mock files and the errors their   *)
(* reading left (mock.ts, mock-errors.ts), and the AI provider             *)
(* configuration that is read again before every AI command (lifecycle.ts).*)
(* Commands run one at a time; mocks are rendered, time passes and the     *)
(* user edits the configuration file meanwhile.                            *)
(***************************************************************************)
EXTENDS Integers, Sequences, FiniteSets

CONSTANTS
    Inputs,          \* presets: [matchers, grants, mocks], sequences of records
    Descriptors,     \* what an authorize.request describes, in the form of a grant
    Roots,           \* folders the user may choose
    Configs,         \* usable provider configurations, [url, key]
    Tokens,          \* session capabilities
    MaxSessions,     \* RUNTIME_LIMITS.maxConcurrentSessions
    Renderings,      \* mock requests under way on the listener
    MaxErrors,       \* MAX_MOCK_FILE_ERRORS
    BootstrapLife, SessionLife, MaxNow,
    None

ControllerAssumption == BootstrapLife \in Nat /\ SessionLife \in Nat

VARIABLES
    state,       \* "idle", "running", "stopped"
    preset,      \* the normalized preset, or None
    now,
    pairing,     \* [consumed, closed, until] of the bootstrap token
    sessions,    \* the paired sessions, [token, until]
    authorized,  \* the last descriptor that was authorized, with the time left
    fileRoot,
    errors,      \* rules whose file could not be read, oldest first
    rendering,   \* rendering -> [rule, root] or None
    file,        \* the provider configuration on disk, None when unusable
    inForce,     \* aiConfigInForce
    client,      \* the configuration aiClient was created from
    asked        \* the completion under way: [wanted, used], or None

vars == <<state, preset, now, pairing, sessions, authorized, fileRoot, errors,
          rendering, file, inForce, client, asked>>
ai == <<file, inForce, client, asked>>
mocks == <<fileRoot, errors, rendering>>
pairs == <<now, pairing, sessions, authorized>>

Init ==
    /\ state = "idle" /\ preset = None /\ now = 0
    /\ pairing = [consumed |-> FALSE, closed |-> TRUE, until |-> 0]
    /\ sessions = {} /\ authorized = None
    /\ fileRoot = None /\ errors = <<>> /\ rendering = [r \in Renderings |-> None]
    /\ file = None /\ inForce = None /\ client = None /\ asked = None

-----------------------------------------------------------------------------
(* The preset                                                              *)

Distinct(s, F(_)) == \A i, j \in DOMAIN s : F(s[i]) = F(s[j]) => i = j
Rule(x) == x.rule
Operation(x) == x.operation

\* A grant names a rule of its group and a method that rule accepts.
GrantHolds(input, grant) ==
    /\ \E n \in DOMAIN input.matchers :
          LET matcher == input.matchers[n] IN
          /\ matcher.rule = grant.rule /\ matcher.group = grant.group
          /\ matcher.method \in {None, grant.method}
    /\ grant.kind = "outbound-http" => grant.method \in {"GET", "HEAD"}

Normalizes(input) ==
    /\ Distinct(input.matchers, Rule)
    /\ Distinct(input.grants, Operation)
    /\ \A n \in DOMAIN input.grants : GrantHolds(input, input.grants[n])
    /\ Distinct(input.mocks, Rule)
    /\ \A n \in DOMAIN input.mocks :
          \E k \in DOMAIN input.matchers : input.matchers[k].rule = input.mocks[n].rule

\* A new project is taken when idle only; start() then opens the pairing.
Start(input) ==
    /\ state = "idle" /\ asked = None
    /\ Normalizes(input)
    /\ preset' = input
    /\ state' = "running"
    /\ pairing' = [consumed |-> FALSE, closed |-> FALSE, until |-> now + BootstrapLife]
    /\ sessions' = {}
    /\ errors' = <<>>
    /\ UNCHANGED <<now, authorized, fileRoot, rendering>> /\ UNCHANGED ai

-----------------------------------------------------------------------------
(* Pairing and authorization                                               *)

Tick == /\ now < MaxNow
        /\ now' = now + 1
        /\ UNCHANGED <<state, preset, pairing, sessions, authorized>>
        /\ UNCHANGED mocks /\ UNCHANGED ai

Live == {session \in sessions : session.until > now}

\* A plausible slip: the token stays good until it expires.
MayPairAgain == ~pairing.closed /\ now < pairing.until

MayPair == ~pairing.closed /\ ~pairing.consumed /\ now < pairing.until

\* pair.request, with or without the right token and digest.
Pair(right) ==
    /\ state = "running" /\ asked = None
    /\ IF right /\ MayPair /\ Cardinality(Live) < MaxSessions
       THEN /\ pairing' = [pairing EXCEPT !.consumed = TRUE]
            /\ \E token \in Tokens \ {session.token : session \in Live} :
                  sessions' = Live \cup {[token |-> token, until |-> now + SessionLife]}
       ELSE sessions' = Live /\ UNCHANGED pairing
    /\ UNCHANGED <<state, preset, now, authorized>> /\ UNCHANGED mocks /\ UNCHANGED ai

Granted(descriptor) == \E k \in DOMAIN preset.grants : preset.grants[k] = descriptor

\* authorize.request with a session token: the session must be alive, the grant
\* exact and the request of the same origin as its target.
Authorize(token, descriptor, sameOrigin) ==
    /\ state = "running" /\ asked = None
    /\ sessions' = Live
    /\ LET allowed == {session \in Live :
                          /\ session.token = token /\ Granted(descriptor)
                          /\ descriptor.kind = "outbound-http" => sameOrigin} IN
       \/ \E session \in allowed :
             authorized' = [by |-> session.until - now, what |-> descriptor]
       \/ allowed = {} /\ authorized' = None
    /\ UNCHANGED <<state, preset, now, pairing>> /\ UNCHANGED mocks /\ UNCHANGED ai

Stop ==
    /\ state \in {"idle", "running"} /\ asked = None
    /\ state' = "stopped"
    /\ IF state = "running"
       THEN /\ pairing' = [pairing EXCEPT !.closed = TRUE, !.consumed = TRUE]
            /\ sessions' = {} /\ errors' = <<>>
       ELSE UNCHANGED <<pairing, sessions, errors>>
    /\ UNCHANGED <<preset, now, authorized, fileRoot, rendering>> /\ UNCHANGED ai

-----------------------------------------------------------------------------
(* Mock files                                                              *)

\* A folder that cannot be resolved leaves everything as it was.
SetFileRoot(root) ==
    /\ state = "running" /\ asked = None
    /\ fileRoot' = root
    /\ errors' = <<>>
    /\ UNCHANGED <<state, preset, rendering>> /\ UNCHANGED pairs /\ UNCHANGED ai

\* serveMock reads the folder before it waits for the delay and the file.
ServeMock(r, n) ==
    /\ state = "running" /\ rendering[r] = None
    /\ n \in DOMAIN preset.mocks
    /\ rendering' = [rendering EXCEPT ![r] =
                       [rule |-> preset.mocks[n].rule, file |-> preset.mocks[n].file,
                        root |-> fileRoot]]
    /\ UNCHANGED <<state, preset, fileRoot, errors>> /\ UNCHANGED pairs /\ UNCHANGED ai

Without(rule) == SelectSeq(errors, LAMBDA other : other # rule)

\* A repeated failure moves to the end; the oldest gives way.
Recorded(rule) ==
    LET longer == Append(Without(rule), rule) IN
    IF Len(longer) > MaxErrors THEN Tail(longer) ELSE longer

\* The rendering is done, was aborted, or could not read its file.
MockRendered(r) ==
    /\ rendering[r] # None
    /\ rendering' = [rendering EXCEPT ![r] = None]
    /\ LET mock == rendering[r] IN
       \/ /\ mock.file => mock.root # None
          /\ errors' = IF mock.file THEN Without(mock.rule) ELSE errors
       \/ mock.file /\ errors' = Recorded(mock.rule)
       \/ UNCHANGED errors
    /\ UNCHANGED <<state, preset, fileRoot>> /\ UNCHANGED pairs /\ UNCHANGED ai

-----------------------------------------------------------------------------
(* The AI provider                                                         *)

EditConfig(c) ==
    /\ c # file
    /\ file' = c
    /\ UNCHANGED <<inForce, client, asked, state, preset>>
    /\ UNCHANGED pairs /\ UNCHANGED mocks

SameConfig(a, b) == a = b

\* ai.status and the start of ai.complete or ai.stream.chunk: what the file holds
\* takes the place of the configuration in force, and of the client, if it differs.
Refresh ==
    IF SameConfig(file, inForce) THEN UNCHANGED <<inForce, client>>
    ELSE inForce' = file /\ client' = file

AiStatus ==
    /\ state = "running" /\ asked = None
    /\ Refresh
    /\ UNCHANGED <<file, asked, state, preset>> /\ UNCHANGED pairs /\ UNCHANGED mocks

AiComplete ==
    /\ state = "running" /\ asked = None
    /\ Refresh
    /\ asked' = IF client' = None THEN None ELSE [wanted |-> file, used |-> client']
    /\ UNCHANGED <<file, state, preset>> /\ UNCHANGED pairs /\ UNCHANGED mocks

AiAnswers ==
    /\ asked # None
    /\ asked' = None
    /\ UNCHANGED <<file, inForce, client, state, preset>> /\ UNCHANGED pairs /\ UNCHANGED mocks

Next ==
    \/ \E input \in Inputs : Start(input)
    \/ Tick \/ Stop
    \/ \E right \in BOOLEAN : Pair(right)
    \/ \E token \in Tokens, d \in Descriptors, sameOrigin \in BOOLEAN :
          Authorize(token, d, sameOrigin)
    \/ \E root \in Roots \cup {None} : SetFileRoot(root)
    \/ \E r \in Renderings : MockRendered(r) \/ \E n \in 1..2 : ServeMock(r, n)
    \/ \E c \in Configs \cup {None} : EditConfig(c)
    \/ AiStatus \/ AiComplete \/ AiAnswers

Spec == Init /\ [][Next]_vars

-----------------------------------------------------------------------------
(* Properties                                                              *)

\* One bootstrap token pairs one session in the life of a host, and what a session
\* is allowed is a granted operation that its rule's method admits, while it lives.
PairedOnce ==
    /\ \A s, t \in sessions : s = t
    /\ authorized # None =>
         /\ authorized.by > 0
         /\ \E n \in DOMAIN preset.matchers :
               /\ preset.matchers[n].rule = authorized.what.rule
               /\ preset.matchers[n].group = authorized.what.group
               /\ preset.matchers[n].method \in {None, authorized.what.method}

\* A completion talks to the provider that was configured when it was asked for,
\* with that key: the client never outlives the configuration it was made from.
CompletionsUseTheFile ==
    /\ client = inForce
    /\ asked # None => asked.used = asked.wanted
=============================================================================
