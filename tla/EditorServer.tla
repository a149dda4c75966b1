----------------------------- MODULE EditorServer -----------------------------
(***************************************************************************)
(* `rogatio edit` (packages/cli): processes that each open one project file *)
(* and serve its editor over loopback HTTP, the project storage they write  *)
(* through, and the device's one table of mock file roots.                  *)
(***************************************************************************)
EXTENDS Naturals, FiniteSets

CONSTANTS
  None,
  Servers,   \* processes of `rogatio edit`
  Paths,     \* project files
  Docs,      \* documents that schema and compiler accept
  BadDocs,   \* documents that they refuse, those without a name among them
  Fresh,     \* Fresh[s]: the empty document that server s may create
  WithName,  \* WithName[d]: d itself, or with a name when d has none
  Requests,  \* requests to be sent, by any page
  Roots      \* mock file roots

\* What the constants must be.
ServerAssumption ==
  /\ Fresh \in [Servers -> Docs] /\ WithName \in [Docs \cup BadDocs -> Docs \cup BadDocs]
  /\ \A d \in Docs : WithName[d] = d
  /\ \A d \in BadDocs : WithName[WithName[d]] = WithName[d]
  /\ Docs \cap BadDocs = {} /\ None \notin Docs \cup BadDocs \cup Roots
  /\ IsFiniteSet(Requests)

VARIABLES
  disk,     \* disk[p]: the document in file p, or None
  table,    \* the mock root table: [torn, map]
  temp,     \* temp[s]: table file that process s has written next to it
  server,   \* server[s]: [at, path, doc]
  request,  \* request[r]: [at, server, kind, arg, map]
  acked,    \* acked[p]: documents of p created, found or answered with ok
  lastRoot, \* lastRoot[p]: the root last answered with ok
  overlap,  \* two table writes were under way at once
  cut,      \* a process ended with a save under way
  found     \* found[p]: the document that was in file p at first, or None

vars == <<disk, table, temp, server, request, acked, lastRoot, overlap, cut, found>>
files == <<disk, table, temp>>
ghosts == <<acked, lastRoot, overlap, cut, found>>

NoRoots == [torn |-> FALSE, map |-> [p \in Paths |-> None]]
Torn == [torn |-> TRUE, map |-> [p \in Paths |-> None]]

-----------------------------------------------------------------------------
(* The gates of a request, in the order of the handler.                    *)

Gates == {"page", "other host", "no token", "other origin", "no csrf"}
Posts == {"save", "root", "cancel"}

\* The host and the token in the path are asked of every request; the origin
\* and the CSRF header of a POST.
Admitted(kind, gate) == IF kind \in Posts THEN gate = "page"
                        ELSE gate \notin {"other host", "no token"}

-----------------------------------------------------------------------------
\* A file may hold a document that nobody accepted; `rogatio edit` opens it to be
\* mended.  (One that is no JSON object ends the process that reads it, and nothing
\* else; none is in the files here.)
Init ==
  /\ disk \in [Paths -> Docs \cup BadDocs \cup {None}]
  /\ table = NoRoots /\ temp = [s \in Servers |-> None]
  /\ server = [s \in Servers |-> [at |-> "new", path |-> None, doc |-> None]]
  /\ request = [r \in Requests |-> [at |-> "new", server |-> None, kind |-> None,
                                    arg |-> None, map |-> None]]
  /\ acked = [p \in Paths |-> {disk[p]}] /\ lastRoot = [p \in Paths |-> None]
  /\ overlap = FALSE /\ cut = FALSE /\ found = disk

Opened(doc) == IF WithName[doc] = doc THEN "up" ELSE "naming"

\* editCommand() up to its first read of the file.
Launch(s, p) ==
  /\ server[s].at = "new"
  /\ server' = [server EXCEPT ![s] = [at |-> IF disk[p] = None THEN "creating" ELSE Opened(disk[p]),
                                      path |-> p, doc |-> disk[p]]]
  /\ UNCHANGED <<files, request, ghosts>>

\* create(): nothing is at the path when it looks.
CreateChecks(s) ==
  /\ server[s].at = "creating"
  /\ server' = [server EXCEPT ![s].at = IF disk[server[s].path] = None THEN "writing" ELSE "ended"]
  /\ UNCHANGED <<files, request, ghosts>>

\* The rename of its write, over whatever has come to the path since.
CreateWrites(s) ==
  /\ server[s].at = "writing"
  /\ disk' = [disk EXCEPT ![server[s].path] = Fresh[s]]
  /\ acked' = [acked EXCEPT ![server[s].path] = @ \cup {Fresh[s]}]
  /\ server' = [server EXCEPT ![s].at = "reading"]
  /\ UNCHANGED <<table, temp, request, lastRoot, overlap, cut, found>>

ReadsBack(s) ==
  /\ server[s].at = "reading"
  /\ server' = IF disk[server[s].path] = None THEN [server EXCEPT ![s].at = "ended"]
               ELSE [server EXCEPT ![s].at = Opened(disk[server[s].path]), ![s].doc = disk[server[s].path]]
  /\ UNCHANGED <<files, request, ghosts>>

\* ensureCivilizationProjectName(): the document as it was read, with a name,
\* is renamed over the file, if update() finds or has found one.
NamesFile(s) ==
  LET doc == WithName[server[s].doc]
  IN  /\ server[s].at = "naming"
      /\ \/ /\ disk' = [disk EXCEPT ![server[s].path] = doc]
            /\ acked' = [acked EXCEPT ![server[s].path] = @ \cup {doc}]
            /\ server' = [server EXCEPT ![s].at = "up", ![s].doc = doc]
         \/ /\ disk[server[s].path] = None
            /\ server' = [server EXCEPT ![s].at = "ended"]
            /\ UNCHANGED <<disk, acked>>
      /\ UNCHANGED <<table, temp, request, lastRoot, overlap, cut, found>>

\* The user deletes the file.
DeleteFile(p) ==
  /\ disk[p] # None
  /\ disk' = [disk EXCEPT ![p] = None]
  /\ acked' = [acked EXCEPT ![p] = @ \cup {None}]
  /\ UNCHANGED <<table, temp, server, request, lastRoot, overlap, cut, found>>

Under(s) == {r \in Requests : request[r].server = s /\ request[r].at \notin {"new", "done"}}

\* A signal, a kill, or the exit that follows a cancel within 100 ms.
End(s) ==
  /\ server[s].at \in {"up", "closing"}
  /\ server' = [server EXCEPT ![s].at = "ended"]
  /\ request' = [r \in Requests |-> IF r \in Under(s) THEN [request[r] EXCEPT !.at = "done"]
                                    ELSE request[r]]
  /\ cut' = (cut \/ \E r \in Under(s) : request[r].kind = "save")
  /\ UNCHANGED <<files, acked, lastRoot, overlap, found>>

-----------------------------------------------------------------------------
(* Requests.                                                               *)

To(r, at) == request' = [request EXCEPT ![r].at = at]
Mine(r) == server[request[r].server].path
Running(r) == server[request[r].server].at \in {"up", "closing"}

\* A request that passes its gates and its checks of the body is taken up.
Receive(r, s, kind, gate, arg) ==
  /\ server[s].at = "up" /\ request[r].at = "new"
  /\ Admitted(kind, gate)
  /\ request' = [request EXCEPT ![r] = [at |-> kind, server |-> s, kind |-> kind,
                                        arg |-> arg, map |-> None]]
  /\ UNCHANGED <<files, server, ghosts>>

Accepted(doc) == doc \in Docs

\* /api/save: diagnoseProject(), then update(), which looks for the file ...
SaveChecks(r) ==
  /\ request[r].at = "save" /\ Running(r)
  /\ To(r, IF Accepted(request[r].arg) /\ disk[Mine(r)] # None THEN "rename" ELSE "done")
  /\ UNCHANGED <<files, server, ghosts>>

\* ... and renames a temporary file over it; either half may fail.
SaveRenames(r) ==
  /\ request[r].at = "rename" /\ Running(r)
  /\ \/ disk' = [disk EXCEPT ![Mine(r)] = request[r].arg] /\ To(r, "saved")
     \/ UNCHANGED disk /\ To(r, "done")
  /\ UNCHANGED <<table, temp, server, ghosts>>

\* The handler goes on after its await; other renames may lie between.
SaveAnswers(r) ==
  /\ request[r].at = "saved" /\ Running(r)
  /\ server' = [server EXCEPT ![request[r].server].doc = request[r].arg]
  /\ acked' = [acked EXCEPT ![Mine(r)] = @ \cup {request[r].arg}]
  /\ To(r, "done")
  /\ UNCHANGED <<files, lastRoot, overlap, cut, found>>

\* /api/mock-root: the table is read, ...
Writing == {q \in Requests : request[q].at \in {"root", "opened", "tabled"}}
RootReads(r) ==
  /\ request[r].at = "root" /\ request[r].map = None /\ Running(r)
  /\ request' = [request EXCEPT ![r].map = [table.map EXCEPT ![Mine(r)] = request[r].arg]]
  /\ overlap' = (overlap \/ Cardinality(Writing) > 1)
  /\ UNCHANGED <<files, server, acked, lastRoot, cut, found>>

\* ... written to a file named after the process, ...
RootOpens(r) ==
  /\ request[r].at = "root" /\ request[r].map # None /\ Running(r)
  /\ temp' = [temp EXCEPT ![request[r].server] = Torn]
  /\ To(r, "opened")
  /\ overlap' = (overlap \/ Cardinality(Writing) > 1)
  /\ UNCHANGED <<disk, table, server, acked, lastRoot, cut, found>>

\* Mutant of NewTable: the roots of the other projects are not carried over.
NewTableAlone(r) == [torn |-> FALSE, map |-> [p \in Paths |-> IF p = Mine(r) THEN request[r].arg ELSE None]]
NewTable(r) == [torn |-> FALSE, map |-> request[r].map]

RootWrites(r) ==
  /\ request[r].at = "opened" /\ Running(r)
  /\ temp' = [temp EXCEPT ![request[r].server] = NewTable(r)]
  /\ To(r, "tabled")
  /\ UNCHANGED <<disk, table, server, ghosts>>

\* ... and renamed over the table.  A rename that finds no file throws, which
\* the handler does not catch: the process ends.
RootRenames(r) ==
  /\ request[r].at = "tabled" /\ Running(r)
  /\ IF temp[request[r].server] # None
     THEN /\ table' = temp[request[r].server]
          /\ temp' = [temp EXCEPT ![request[r].server] = None]
          /\ lastRoot' = [lastRoot EXCEPT ![Mine(r)] = request[r].arg]
          /\ To(r, "done") /\ UNCHANGED server
     ELSE /\ server' = [server EXCEPT ![request[r].server].at = "ended"]
          /\ request' = [q \in Requests |-> IF q \in Under(request[r].server)
                                            THEN [request[q] EXCEPT !.at = "done"] ELSE request[q]]
          /\ UNCHANGED <<table, temp, lastRoot>>
  /\ cut' = (cut \/ temp[request[r].server] = None)
  /\ UNCHANGED <<disk, acked, overlap, found>>

Cancel(r) ==
  /\ request[r].at = "cancel" /\ Running(r)
  /\ server' = [server EXCEPT ![request[r].server].at = "closing"]
  /\ To(r, "done")
  /\ UNCHANGED <<files, ghosts>>

\* /api/project, /api/validate, /api/doctor, /api/dry-run, the assets.
Answer(r) ==
  /\ request[r].at = "get" /\ Running(r)
  /\ To(r, "done")
  /\ UNCHANGED <<files, server, ghosts>>

Next ==
  \/ \E s \in Servers : \/ \E p \in Paths : Launch(s, p)
                        \/ CreateChecks(s) \/ CreateWrites(s) \/ ReadsBack(s) \/ NamesFile(s) \/ End(s)
  \/ \E p \in Paths : DeleteFile(p)
  \/ \E r \in Requests, s \in Servers, gate \in Gates :
       \/ \E doc \in Docs \cup BadDocs : Receive(r, s, "save", gate, doc)
       \/ \E root \in Roots \cup {None} : Receive(r, s, "root", gate, root)
       \/ Receive(r, s, "cancel", gate, None) \/ Receive(r, s, "get", gate, None)
  \/ \E r \in Requests :
       \/ SaveChecks(r) \/ SaveRenames(r) \/ SaveAnswers(r)
       \/ RootReads(r) \/ RootOpens(r) \/ RootWrites(r) \/ RootRenames(r)
       \/ Cancel(r) \/ Answer(r)

Spec == Init /\ [][Next]_vars

-----------------------------------------------------------------------------
\* Whatever saves, servers, deletions and exits cross, a project file holds a
\* document that the compiler accepts, or the one it held at first, named perhaps,
\* and one that its owner was told of, unless a process ended before it could answer.
Unmended(p) == {found[p]} \cup {WithName[d] : d \in {found[p]} \ {None}}
FileIsAcknowledged ==
  \A p \in Paths :
    /\ disk[p] \in Docs \cup {None} \cup Unmended(p)
    /\ \/ disk[p] \in acked[p] \/ cut
       \/ \E r \in Requests : request[r].at = "saved" /\ Mine(r) = p

\* A root that was saved for a project is kept by the saves for the others, as
\* long as no two of them overlap.
RootsKept == overlap \/ (~table.torn /\ \A p \in Paths : table.map[p] = lastRoot[p])

\* Nothing that a page was told is saved gets lost, in the files and in the table.
AcknowledgedIsKept == FileIsAcknowledged /\ RootsKept
==============================================================================
