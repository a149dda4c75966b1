---------------------------- MODULE DocumentsProofs ----------------------------
(***************************************************************************)
(* Theorems about parts of Documents, for any number of servers, requests, *)
(* files, documents, edits and test runs, and any machine the doctor looks *)
(* at: the servers of `rogatio edit`, the draft of the project editor and  *)
(* its test console, and the doctor.                                       *)
(***************************************************************************)
EXTENDS Documents, FiniteSetTheorems, TLAPS

-------------------------------------------------------------------------------
(* Types.                                                                  *)

Document == Docs \cup BadDocs \cup {None}
Root == Roots \cup {None}
RootMap == [Paths -> Root]
Table == [torn : BOOLEAN, map : RootMap]

Lives == {"up", "closing"}
ServerAt == {"new", "creating", "writing", "reading", "naming", "ended"} \cup Lives
SaveAt == {"save", "rename", "saved"}
RootAt == {"root", "opened", "tabled"}
RequestAt == {"new", "done", "cancel", "get"} \cup SaveAt \cup RootAt

ServerType == [at : ServerAt, path : Paths \cup {None}, doc : Document]
RequestType == [at : RequestAt, server : Servers \cup {None}, kind : Posts \cup {"get", None},
                arg : Document \cup Root, map : RootMap \cup {None}]

TypeOK ==
  /\ disk \in [Paths -> Document]
  /\ table \in Table
  /\ temp \in [Servers -> Table \cup {None}]
  /\ server \in [Servers -> ServerType]
  /\ request \in [Requests -> RequestType]
  /\ acked \in [Paths -> SUBSET Document]
  /\ lastRoot \in RootMap
  /\ overlap \in BOOLEAN /\ cut \in BOOLEAN /\ found \in [Paths -> Document]

-------------------------------------------------------------------------------
(* The inductive invariant.                                                *)

Active(r) == request[r].at \notin {"new", "done"}

\* A document that gets a name is accepted then, or the one the file held at first.
Mendable(doc, p) ==
  doc \in Docs \cup BadDocs /\ WithName[doc] \in Docs \cup {None} \cup Unmended(p)

\* A process has a path once it is launched, and a document before it names it.
ServersReady ==
  \A s \in Servers :
    /\ server[s].at # "new" => server[s].path \in Paths
    /\ server[s].at = "naming" => Mendable(server[s].doc, server[s].path)

\* A file holds an accepted document, or the one it held at first.
FilesSound == \A p \in Paths : disk[p] \in Docs \cup {None} \cup Unmended(p)

\* A request under way is of the kind its place says, under a process that runs,
\* and what it is about to write was accepted.
RequestsReady ==
  \A r \in Requests : Active(r) =>
    /\ request[r].server \in Servers /\ server[request[r].server].at \in Lives
    /\ request[r].at \in SaveAt => request[r].kind = "save"
    /\ request[r].at \in RootAt => request[r].arg \in Root
    /\ request[r].at \in {"rename", "saved"} => request[r].arg \in Docs
    /\ request[r].at \in {"opened", "tabled"} => request[r].map \in RootMap

\* What a file holds was told to somebody, or is about to be: the request that
\* wrote it has not answered yet, or its process ended first.
FilesKnown ==
  cut \/ \A p \in Paths :
    \/ disk[p] \in acked[p]
    \/ \E r \in Requests : /\ request[r].at = "saved" /\ Mine(r) = p
                           /\ request[r].arg = disk[p]

\* A request that has read the table of roots ...
HasTable(r) == \/ request[r].at \in {"opened", "tabled"}
               \/ request[r].at = "root" /\ request[r].map # None

\* ... holds, as long as no two such requests overlap, the table as it is but for
\* its own root, and has written just that.
TableKnown ==
  /\ ~table.torn /\ table.map = lastRoot
  /\ \A r \in Requests : HasTable(r) =>
       /\ request[r].map = [lastRoot EXCEPT ![Mine(r)] = request[r].arg]
       /\ request[r].at = "tabled" =>
            temp[request[r].server] = [torn |-> FALSE, map |-> request[r].map]
  /\ \A q, r \in Requests : HasTable(q) /\ HasTable(r) => q = r

ServerInv ==
  /\ TypeOK /\ ServersReady /\ RequestsReady /\ FilesKnown /\ FilesSound
  /\ overlap \/ TableKnown

-------------------------------------------------------------------------------
(* Processes.                                                              *)

LEMMA OpenedAt ==
  ASSUME NEW doc
  PROVE  Opened(doc) \in {"up", "naming"}
BY DEF Opened

\* What a process finds in a file may be given a name.
LEMMA FoundMends ==
  ASSUME ServerAssumption, TypeOK, FilesSound, NEW p \in Paths, disk[p] # None
  PROVE  Mendable(disk[p], p)
<1>1. disk[p] \in Docs \cup BadDocs
  BY DEF TypeOK, Document
<1>2. CASE disk[p] \in Docs
  BY <1>1, <1>2 DEF ServerAssumption, Mendable
<1>3. CASE disk[p] = found[p]
  BY <1>1, <1>3 DEF Mendable, Unmended
<1>4. CASE found[p] # None /\ disk[p] = WithName[found[p]]
  <2>1. found[p] \in Docs \cup BadDocs
    BY <1>4 DEF TypeOK, Document
  <2>2. WithName[disk[p]] = disk[p]
    BY <1>4, <2>1 DEF ServerAssumption
  <2> QED BY <1>1, <1>4, <2>2 DEF Mendable, Unmended
<1> QED BY <1>2, <1>3, <1>4 DEF FilesSound, Unmended

\* While no request is touched, and no process that runs, the requests stay ready.
LEMMA OtherServer ==
  ASSUME TypeOK, RequestsReady, NEW s \in Servers, server[s].at \notin Lives,
         NEW state \in ServerType, state.path = server[s].path \/ server[s].at = "new",
         server' = [server EXCEPT ![s] = state], request' = request
  PROVE  /\ RequestsReady'
         /\ \A r \in Requests : Active(r) => Mine(r)' = Mine(r)
<1>1. \A r \in Requests : Active(r) => request[r].server # s
  BY DEF RequestsReady
<1>2. \A r \in Requests : Active(r) =>
        /\ server'[request'[r].server] = server[request[r].server]
  BY <1>1 DEF TypeOK, RequestsReady
<1>3. \A r \in Requests : Active(r)' <=> Active(r)
  BY DEF Active
<1> QED BY <1>2, <1>3 DEF RequestsReady, Mine

LEMMA OtherTable ==
  ASSUME overlap \/ TableKnown, request' = request, table' = table, temp' = temp,
         lastRoot' = lastRoot, overlap' = overlap,
         \A r \in Requests : Active(r) => Mine(r)' = Mine(r)
  PROVE  overlap' \/ TableKnown'
<1>1. \A r \in Requests : HasTable(r)' <=> HasTable(r)
  BY DEF HasTable
<1>2. \A r \in Requests : HasTable(r) => Active(r)
  BY DEF HasTable, Active
<1> QED BY <1>1, <1>2 DEF TableKnown

\* The files are known after a step that puts a document into one of them and
\* tells somebody of it.
LEMMA OtherFiles ==
  ASSUME TypeOK, FilesKnown, request' = request, cut' = cut,
         \A r \in Requests : Active(r) => Mine(r)' = Mine(r),
         NEW p \in Paths, NEW doc,
         \/ disk' = disk /\ acked' = acked
         \/ /\ disk' = [disk EXCEPT ![p] = doc]
            /\ acked' = [acked EXCEPT ![p] = @ \cup {doc}]
  PROVE  FilesKnown'
<1> SUFFICES ASSUME ~ cut, NEW q \in Paths
             PROVE  \/ disk'[q] \in acked'[q]
                    \/ \E r \in Requests : /\ request'[r].at = "saved" /\ Mine(r)' = q
                                           /\ request'[r].arg = disk'[q]
  BY DEF FilesKnown
<1>1. CASE disk'[q] # disk[q]
  BY <1>1 DEF TypeOK
<1>2. CASE disk'[q] = disk[q] /\ disk[q] \in acked[q]
  BY <1>2 DEF TypeOK
<1>3. CASE disk'[q] = disk[q] /\ disk[q] \notin acked[q]
  <2>1. PICK r \in Requests : /\ request[r].at = "saved" /\ Mine(r) = q
                              /\ request[r].arg = disk[q]
    BY <1>3 DEF FilesKnown
  <2>2. Mine(r)' = q
    BY <2>1 DEF Active
  <2> QED BY <1>3, <2>1, <2>2
<1> QED BY <1>1, <1>2, <1>3

Begins(s) ==
  \/ \E p \in Paths : Launch(s, p)
  \/ CreateChecks(s) \/ CreateWrites(s) \/ ReadsBack(s) \/ NamesFile(s)

BecomesReady(s, state) ==
  /\ server' = [server EXCEPT ![s] = state]
  /\ state.path = server[s].path \/ server[s].at = "new"
  /\ state.at # "new" => state.path \in Paths
  /\ state.at = "naming" => Mendable(state.doc, state.path)

LEMMA BeginsReady ==
  ASSUME ServerAssumption, TypeOK, ServersReady, FilesSound, NEW s \in Servers, Begins(s)
  PROVE  /\ server[s].at \in {"new", "creating", "writing", "reading", "naming"}
         /\ server[s].at # "new" => server[s].path \in Paths
         /\ \E state \in ServerType : BecomesReady(s, state)
<1>1. /\ server[s].at \in {"new", "creating", "writing", "reading", "naming"}
      /\ server[s].at # "new" => server[s].path \in Paths
  BY DEF Begins, Launch, CreateChecks, CreateWrites, ReadsBack, NamesFile, ServersReady
<1>2. server[s] \in ServerType
  BY DEF TypeOK
<1>3. \E state \in ServerType : BecomesReady(s, state)
  <2>1. ASSUME NEW p \in Paths, Launch(s, p) PROVE <1>3
    <3> DEFINE st == [at |-> IF disk[p] = None THEN "creating" ELSE Opened(disk[p]),
                      path |-> p, doc |-> disk[p]]
    <3>0. disk[p] # None => Mendable(disk[p], p)
      BY FoundMends
    <3>1. st \in ServerType /\ (st.at = "naming" => Mendable(st.doc, st.path))
      BY <3>0, OpenedAt DEF TypeOK, ServerType, ServerAt, Document, Lives
    <3>2. server' = [server EXCEPT ![s] = st] /\ st.path \in Paths /\ server[s].at = "new"
      BY <2>1 DEF Launch
    <3> HIDE DEF st
    <3> QED BY <3>1, <3>2 DEF BecomesReady
  <2>2. ASSUME CreateChecks(s) PROVE <1>3
    <3> DEFINE st == [server[s] EXCEPT !.at =
                        IF disk[server[s].path] = None THEN "writing" ELSE "ended"]
    <3>1. /\ st \in ServerType /\ st.at # "naming" /\ st.path = server[s].path
          /\ st.path \in Paths
      BY <1>1, <1>2, <2>2 DEF CreateChecks, ServerType, ServerAt
    <3>2. server' = [server EXCEPT ![s] = st]
      BY <2>2 DEF CreateChecks
    <3> HIDE DEF st
    <3> QED BY <3>1, <3>2 DEF BecomesReady
  <2>3. ASSUME CreateWrites(s) PROVE <1>3
    <3> DEFINE st == [server[s] EXCEPT !.at = "reading"]
    <3>1. /\ st \in ServerType /\ st.at # "naming" /\ st.path = server[s].path
          /\ st.path \in Paths
      BY <1>1, <1>2, <2>3 DEF CreateWrites, ServerType, ServerAt
    <3>2. server' = [server EXCEPT ![s] = st]
      BY <2>3 DEF CreateWrites
    <3> HIDE DEF st
    <3> QED BY <3>1, <3>2 DEF BecomesReady
  <2>4. ASSUME ReadsBack(s) PROVE <1>3
    <3>1. CASE disk[server[s].path] = None
      <4> DEFINE st == [server[s] EXCEPT !.at = "ended"]
      <4>1. /\ st \in ServerType /\ st.at # "naming" /\ st.path = server[s].path
            /\ st.path \in Paths
        BY <1>1, <1>2, <2>4 DEF ReadsBack, ServerType, ServerAt
      <4>2. server' = [server EXCEPT ![s] = st]
        BY <2>4, <3>1 DEF ReadsBack
      <4> HIDE DEF st
      <4> QED BY <4>1, <4>2 DEF BecomesReady
    <3>2. CASE disk[server[s].path] # None
      <4> DEFINE doc == disk[server[s].path]
                 st == [server[s] EXCEPT !.at = Opened(doc), !.doc = doc]
      <4>1. doc \in Docs \cup BadDocs /\ Mendable(doc, server[s].path)
        BY <1>1, <2>4, <3>2, FoundMends DEF Mendable, ReadsBack
      <4>2. server' = [server EXCEPT ![s] = st]
        BY <2>4, <3>2 DEF ReadsBack
      <4> HIDE DEF doc
      <4>3. /\ st \in ServerType /\ st.path = server[s].path /\ st.path \in Paths
            /\ Mendable(st.doc, st.path)
        BY <1>1, <1>2, <2>4, <4>1, OpenedAt
        DEF ReadsBack, ServerType, ServerAt, Lives, Document
      <4> HIDE DEF st
      <4> QED BY <4>2, <4>3 DEF BecomesReady
    <3> QED BY <3>1, <3>2
  <2>5. ASSUME NamesFile(s) PROVE <1>3
    <3>1. PICK at \in {"up", "ended"}, doc \in Document :
            server' = [server EXCEPT ![s].at = at, ![s].doc = doc]
      <4>1. server[s].doc \in Docs \cup BadDocs
        BY <2>5 DEF NamesFile, ServersReady, Mendable
      <4>2. WithName[server[s].doc] \in Document /\ server[s].doc \in Document
        BY <4>1 DEF ServerAssumption, Document
      <4>3. CASE server' = [server EXCEPT ![s].at = "up", ![s].doc = WithName[server[s].doc]]
        BY <4>2, <4>3
      <4>4. CASE server' = [server EXCEPT ![s].at = "ended"]
        <5>1. server' = [server EXCEPT ![s].at = "ended", ![s].doc = server[s].doc]
          BY <4>4, <1>2 DEF TypeOK, ServerType
        <5> QED BY <4>2, <5>1
      <4> QED BY <2>5, <4>3, <4>4 DEF NamesFile
    <3> DEFINE st == [server[s] EXCEPT !.at = at, !.doc = doc]
    <3>2. /\ st \in ServerType /\ st.at # "naming" /\ st.path = server[s].path
          /\ st.path \in Paths
      BY <1>1, <1>2, <2>5 DEF NamesFile, ServerType, ServerAt, Lives
    <3>3. server' = [server EXCEPT ![s] = st]
      BY <3>1 DEF TypeOK
    <3> HIDE DEF st
    <3> QED BY <3>2, <3>3 DEF BecomesReady
  <2> QED BY <2>1, <2>2, <2>3, <2>4, <2>5 DEF Begins
<1> QED BY <1>1, <1>3

LEMMA BeginsKeeps ==
  ASSUME ServerAssumption, ServerInv, NEW s \in Servers, Begins(s)
  PROVE  ServerInv'
<1> USE DEF ServerInv
<1>1. PICK state \in ServerType : BecomesReady(s, state)
  BY BeginsReady
<1>2. /\ server[s].at \in {"new", "creating", "writing", "reading", "naming"}
      /\ server[s].at # "new" => server[s].path \in Paths
  BY BeginsReady
<1>3. /\ request' = request /\ cut' = cut /\ overlap' = overlap /\ lastRoot' = lastRoot
      /\ table' = table /\ temp' = temp /\ found' = found
  BY DEF Begins, Launch, CreateChecks, CreateWrites, ReadsBack, NamesFile, files, ghosts
<1>4. /\ RequestsReady'
      /\ \A r \in Requests : Active(r) => Mine(r)' = Mine(r)
  BY <1>1, <1>2, <1>3, OtherServer DEF BecomesReady, Lives
<1>5. ServersReady'
  BY <1>1, <1>3 DEF BecomesReady, ServersReady, TypeOK, Mendable, Unmended
<1>6. overlap' \/ TableKnown'
  BY <1>3, <1>4, OtherTable
<1>7. /\ disk' \in [Paths -> Document] /\ acked' \in [Paths -> SUBSET Document]
      /\ FilesKnown' /\ FilesSound'
  <2>1. CASE disk' = disk /\ acked' = acked
    <3>1. \A p \in Paths : FilesKnown'
      BY <1>3, <1>4, <2>1, OtherFiles
    <3>2. Paths = {} => FilesKnown'
      BY DEF FilesKnown
    <3> QED BY <1>3, <2>1, <3>1, <3>2 DEF TypeOK, FilesSound, Unmended
  <2>2. CASE /\ CreateWrites(s) \/ NamesFile(s)
             /\ ~ (disk' = disk /\ acked' = acked)
    <3>1. server[s].path \in Paths
      BY <1>2, <2>2 DEF CreateWrites, NamesFile
    <3>2. PICK doc \in Document :
            /\ doc \in Docs \cup {None} \cup Unmended(server[s].path)
            /\ disk' = [disk EXCEPT ![server[s].path] = doc]
            /\ acked' = [acked EXCEPT ![server[s].path] = @ \cup {doc}]
      <4>1. CASE CreateWrites(s)
        BY <4>1 DEF CreateWrites, ServerAssumption, Document
      <4>2. CASE NamesFile(s)
        <5>1. Mendable(server[s].doc, server[s].path)
          BY <4>2 DEF NamesFile, ServersReady
        <5>2. WithName[server[s].doc] \in Document
          BY <5>1 DEF Mendable, ServerAssumption, Document
        <5> QED BY <2>2, <4>2, <5>1, <5>2 DEF NamesFile, Mendable
      <4> QED BY <2>2, <4>1, <4>2
    <3>3. FilesKnown'
      BY <1>3, <1>4, <3>1, <3>2, OtherFiles
    <3>4. disk' \in [Paths -> Document]
      BY <3>2 DEF TypeOK, Document
    <3>5. acked' \in [Paths -> SUBSET Document]
      BY <3>1, <3>2 DEF TypeOK, Document
    <3>6. FilesSound'
      BY <1>3, <3>2 DEF TypeOK, FilesSound, Unmended
    <3> QED BY <3>3, <3>4, <3>5, <3>6
  <2> QED BY <2>1, <2>2
      DEF Begins, Launch, CreateChecks, ReadsBack, NamesFile, files, ghosts
<1>8. TypeOK'
  BY <1>1, <1>3, <1>7 DEF TypeOK, BecomesReady
<1> QED BY <1>4, <1>5, <1>6, <1>7, <1>8

-------------------------------------------------------------------------------
(* Requests.                                                               *)

LEMMA Deletes ==
  ASSUME ServerAssumption, ServerInv, NEW p \in Paths, DeleteFile(p)
  PROVE  ServerInv'
<1> USE DEF ServerInv
<1>1. /\ disk' = [disk EXCEPT ![p] = None] /\ acked' = [acked EXCEPT ![p] = @ \cup {None}]
      /\ server' = server /\ request' = request /\ cut' = cut /\ overlap' = overlap
      /\ lastRoot' = lastRoot /\ table' = table /\ temp' = temp /\ found' = found
  BY DEF DeleteFile
<1>2. \A r \in Requests : Mine(r)' = Mine(r)
  BY <1>1 DEF Mine
<1>3. FilesKnown'
  BY <1>1, <1>2, OtherFiles
<1>4. TypeOK'
  <2>1. disk' \in [Paths -> Document]
    BY <1>1 DEF TypeOK, Document
  <2>2. acked' \in [Paths -> SUBSET Document]
    BY <1>1 DEF TypeOK, Document
  <2> QED BY <1>1, <2>1, <2>2 DEF TypeOK
<1>5. ServersReady' /\ RequestsReady'
  BY <1>1 DEF ServersReady, RequestsReady, Active, Mendable, Unmended
<1>6. overlap' \/ TableKnown'
  BY <1>1, <1>2, OtherTable
<1>7. FilesSound'
  BY <1>1 DEF FilesSound, Unmended, TypeOK
<1> QED BY <1>3, <1>4, <1>5, <1>6, <1>7

\* A request moves on, to a place where it is ready; the processes keep their
\* paths, and those that run go on running.
MovesTo(r, moved) ==
  /\ request' = [request EXCEPT ![r] = moved]
  /\ moved \in RequestType
  /\ moved.at \notin {"new", "done"} =>
       /\ moved.server \in Servers /\ server[moved.server].at \in Lives
       /\ moved.at \in SaveAt => moved.kind = "save"
       /\ moved.at \in RootAt => moved.arg \in Root
       /\ moved.at \in {"rename", "saved"} => moved.arg \in Docs
       /\ moved.at \in {"opened", "tabled"} => moved.map \in RootMap

SamePlaces ==
  /\ server' \in [Servers -> ServerType]
  /\ \A s \in Servers : /\ server'[s].path = server[s].path
                        /\ server[s].at \in Lives => server'[s].at \in Lives
                        /\ server[s].at \notin Lives => server'[s] = server[s]

LEMMA MoveReady ==
  ASSUME TypeOK, ServersReady, RequestsReady, NEW r \in Requests, NEW moved,
         MovesTo(r, moved), SamePlaces, found' = found
  PROVE  /\ ServersReady' /\ RequestsReady'
         /\ request' \in [Requests -> RequestType]
         /\ \A q \in Requests : q # r => request'[q] = request[q]
         /\ request'[r] = moved
         /\ \A q \in Requests : (q # r /\ Active(q)) => Mine(q)' = Mine(q)
         /\ (Active(r) /\ moved.server = request[r].server) => Mine(r)' = Mine(r)
<1>1. /\ request' \in [Requests -> RequestType]
      /\ \A q \in Requests : q # r => request'[q] = request[q]
      /\ request'[r] = moved
  BY DEF MovesTo, TypeOK
<1>2. ServersReady'
  BY DEF ServersReady, SamePlaces, Lives, Mendable, Unmended
<1>3. RequestsReady'
  BY <1>1 DEF RequestsReady, MovesTo, SamePlaces, Active
<1>4. \A q \in Requests : (q # r /\ Active(q)) => Mine(q)' = Mine(q)
  BY <1>1 DEF RequestsReady, SamePlaces, Mine
<1>5. (Active(r) /\ moved.server = request[r].server) => Mine(r)' = Mine(r)
  BY <1>1 DEF RequestsReady, SamePlaces, Mine
<1> QED BY <1>1, <1>2, <1>3, <1>4, <1>5

\* No file changes, and the request is none that has written one.
LEMMA MoveFiles ==
  ASSUME TypeOK, FilesKnown, NEW r \in Requests, request[r].at # "saved",
         disk' = disk, acked' = acked, cut => cut',
         \A q \in Requests : q # r => request'[q] = request[q],
         \A q \in Requests : (q # r /\ Active(q)) => Mine(q)' = Mine(q)
  PROVE  FilesKnown'
BY DEF FilesKnown, Active

\* The request touches no root, nor the table.
LEMMA MoveTable ==
  ASSUME TypeOK, overlap \/ TableKnown, NEW r \in Requests, ~ HasTable(r)',
         table' = table, lastRoot' = lastRoot, temp' = temp, overlap' = overlap,
         \A q \in Requests : q # r => request'[q] = request[q],
         \A q \in Requests : (q # r /\ Active(q)) => Mine(q)' = Mine(q)
  PROVE  overlap' \/ TableKnown'
<1>1. \A q \in Requests : HasTable(q)' => (q # r /\ HasTable(q) /\ Active(q))
  BY DEF HasTable, Active
<1> QED BY <1>1 DEF TableKnown

\* Actions that move one request and touch neither files nor table.
Quiet(r) ==
  \/ \E s \in Servers, gate \in Gates :
       \/ \E doc \in Docs \cup BadDocs : Receive(r, s, "save", gate, doc)
       \/ \E root \in Roots \cup {None} : Receive(r, s, "root", gate, root)
       \/ Receive(r, s, "cancel", gate, None) \/ Receive(r, s, "get", gate, None)
  \/ SaveChecks(r) \/ Cancel(r) \/ Answer(r)

LEMMA ReceiveMoves ==
  ASSUME TypeOK, NEW r \in Requests, NEW s \in Servers, NEW gate \in Gates,
         NEW kind \in {"save", "root", "cancel", "get"}, NEW arg,
         kind = "save" => arg \in Docs \cup BadDocs,
         kind # "save" => arg \in Root,
         Receive(r, s, kind, gate, arg)
  PROVE  \E moved : MovesTo(r, moved) /\ moved.map = None /\ moved.at # "saved"
                      /\ moved.at \notin {"opened", "tabled"}
<1> DEFINE moved == [at |-> kind, server |-> s, kind |-> kind, arg |-> arg, map |-> None]
<1>1. request' = [request EXCEPT ![r] = moved] /\ server[s].at = "up"
  BY DEF Receive
<1>2. arg \in Document \cup Root
  BY DEF Document
<1>3. moved \in RequestType
  BY <1>2 DEF RequestType, RequestAt, SaveAt, RootAt, Posts
<1>4. MovesTo(r, moved)
  BY <1>1, <1>3 DEF MovesTo, SaveAt, RootAt, Lives
<1> QED BY <1>4

LEMMA QuietMoves ==
  ASSUME ServerAssumption, ServerInv, NEW r \in Requests, Quiet(r)
  PROVE  /\ request[r].at # "saved"
         /\ SamePlaces
         /\ \E moved : /\ MovesTo(r, moved) /\ moved.at \notin {"saved", "opened", "tabled"}
                       /\ moved.at = "root" => moved.map = None
<1> USE DEF ServerInv
<1>1. ASSUME NEW s \in Servers, NEW gate \in Gates,
             \/ \E doc \in Docs \cup BadDocs : Receive(r, s, "save", gate, doc)
             \/ \E root \in Roots \cup {None} : Receive(r, s, "root", gate, root)
             \/ Receive(r, s, "cancel", gate, None) \/ Receive(r, s, "get", gate, None)
      PROVE  /\ request[r].at = "new" /\ server' = server
             /\ \E moved : MovesTo(r, moved) /\ moved.at \notin {"saved", "opened", "tabled"}
                             /\ moved.map = None
  <2>1. request[r].at = "new" /\ server' = server
    BY <1>1 DEF Receive
  <2>2. \E moved : MovesTo(r, moved) /\ moved.map = None /\ moved.at # "saved"
                      /\ moved.at \notin {"opened", "tabled"}
    BY <1>1, ReceiveMoves DEF Root
  <2> QED BY <2>1, <2>2
<1>2. ASSUME SaveChecks(r) \/ Cancel(r) \/ Answer(r)
      PROVE  /\ request[r].at # "saved"
             /\ \E moved : MovesTo(r, moved) /\ moved.at \in {"rename", "done"}
  <2>1. PICK at \in {"rename", "done"} :
          /\ request' = [request EXCEPT ![r].at = at]
          /\ at = "rename" => request[r].at = "save" /\ request[r].arg \in Docs
    BY <1>2 DEF SaveChecks, Cancel, Answer, To, Accepted
  <2> DEFINE moved == [request[r] EXCEPT !.at = at]
  <2>2. request[r] \in RequestType
    BY DEF TypeOK
  <2>3. /\ moved \in RequestType /\ moved.at = at /\ moved.server = request[r].server
        /\ moved.kind = request[r].kind /\ moved.arg = request[r].arg
    BY <2>2 DEF RequestType, RequestAt, SaveAt
  <2>4. request' = [request EXCEPT ![r] = moved]
    BY <2>1 DEF TypeOK
  <2>5. request[r].at = "save" =>
          /\ request[r].server \in Servers /\ server[request[r].server].at \in Lives
          /\ request[r].kind = "save"
    BY DEF RequestsReady, Active, SaveAt
  <2> HIDE DEF moved
  <2>6. MovesTo(r, moved)
    BY <2>1, <2>3, <2>4, <2>5 DEF MovesTo, RootAt
  <2>7. request[r].at # "saved"
    BY <1>2 DEF SaveChecks, Cancel, Answer
  <2> QED BY <2>1, <2>3, <2>6, <2>7
<1>3. SamePlaces
  <2>1. CASE server' = server
    BY <2>1 DEF SamePlaces, TypeOK
  <2>2. CASE Cancel(r)
    <3>1. /\ request[r].server \in Servers /\ server[request[r].server].at \in Lives
          /\ server' = [server EXCEPT ![request[r].server].at = "closing"]
      BY <2>2 DEF Cancel, RequestsReady, Active
    <3> QED BY <3>1 DEF SamePlaces, TypeOK, ServerType, ServerAt, Lives
  <2>3. CASE SaveChecks(r) \/ Answer(r)
    BY <2>1, <2>3 DEF SaveChecks, Answer
  <2> QED BY <1>1, <2>1, <2>2, <2>3 DEF Quiet
<1> QED BY <1>1, <1>2, <1>3 DEF Quiet

LEMMA QuietKeeps ==
  ASSUME ServerAssumption, ServerInv, NEW r \in Requests, Quiet(r)
  PROVE  ServerInv'
<1> USE DEF ServerInv
<1>1. /\ disk' = disk /\ acked' = acked /\ cut' = cut /\ overlap' = overlap
      /\ lastRoot' = lastRoot /\ table' = table /\ temp' = temp /\ found' = found
  BY DEF Quiet, Receive, SaveChecks, Cancel, Answer, files, ghosts
<1>2. PICK moved : /\ MovesTo(r, moved) /\ moved.at \notin {"saved", "opened", "tabled"}
                   /\ moved.at = "root" => moved.map = None
  BY QuietMoves
<1>3. SamePlaces /\ request[r].at # "saved"
  BY QuietMoves
<1>4. /\ ServersReady' /\ RequestsReady'
      /\ request' \in [Requests -> RequestType]
      /\ \A q \in Requests : q # r => request'[q] = request[q]
      /\ request'[r] = moved
      /\ \A q \in Requests : (q # r /\ Active(q)) => Mine(q)' = Mine(q)
  BY <1>1, <1>2, <1>3, MoveReady
<1>5. FilesKnown' /\ FilesSound'
  BY <1>1, <1>3, <1>4, MoveFiles DEF FilesSound, Unmended
<1>6. ~ HasTable(r)'
  BY <1>2, <1>4 DEF HasTable
<1>7. overlap' \/ TableKnown'
  BY <1>1, <1>4, <1>6, MoveTable
<1>8. TypeOK'
  BY <1>1, <1>3, <1>4 DEF TypeOK, SamePlaces
<1> QED BY <1>4, <1>5, <1>7, <1>8

\* The rename of a save makes its request the witness of the file it wrote.
LEMMA SaveRenamesKeeps ==
  ASSUME ServerAssumption, ServerInv, NEW r \in Requests, SaveRenames(r)
  PROVE  ServerInv'
<1> USE DEF ServerInv
<1>1. /\ acked' = acked /\ cut' = cut /\ overlap' = overlap /\ server' = server
      /\ lastRoot' = lastRoot /\ table' = table /\ temp' = temp /\ found' = found
      /\ request[r].at = "rename"
  BY DEF SaveRenames, ghosts
<1>2. PICK at \in {"saved", "done"} : request' = [request EXCEPT ![r].at = at]
                 /\ disk' = IF at = "saved" THEN [disk EXCEPT ![Mine(r)] = request[r].arg] ELSE disk
  BY DEF SaveRenames, To
<1>3. /\ request[r].server \in Servers /\ server[request[r].server].at \in Lives
      /\ request[r].kind = "save" /\ request[r].arg \in Docs /\ Mine(r) \in Paths
  BY <1>1 DEF RequestsReady, Active, SaveAt, ServersReady, Mine, Lives
<1> DEFINE moved == [request[r] EXCEPT !.at = at]
<1>4. request[r] \in RequestType
  BY DEF TypeOK
<1>5. /\ moved \in RequestType /\ moved.at = at /\ moved.server = request[r].server
      /\ moved.kind = request[r].kind /\ moved.arg = request[r].arg
  BY <1>4 DEF RequestType, RequestAt, SaveAt
<1>6. request' = [request EXCEPT ![r] = moved]
  BY <1>2 DEF TypeOK
<1> HIDE DEF moved
<1>7. MovesTo(r, moved) /\ SamePlaces
  BY <1>1, <1>3, <1>5, <1>6 DEF MovesTo, RootAt, SamePlaces, TypeOK
<1>8. /\ ServersReady' /\ RequestsReady'
      /\ request' \in [Requests -> RequestType]
      /\ \A q \in Requests : q # r => request'[q] = request[q]
      /\ request'[r] = moved
      /\ \A q \in Requests : (q # r /\ Active(q)) => Mine(q)' = Mine(q)
      /\ Mine(r)' = Mine(r)
  BY <1>1, <1>5, <1>7, MoveReady DEF Active
<1>9. FilesKnown'
  <2>1. CASE at = "done"
    BY <1>1, <1>2, <1>8, <2>1, MoveFiles
  <2>2. CASE at = "saved"
    <3> SUFFICES ASSUME ~ cut, NEW p \in Paths
                 PROVE  \/ disk'[p] \in acked'[p]
                        \/ \E q \in Requests : /\ request'[q].at = "saved" /\ Mine(q)' = p
                                               /\ request'[q].arg = disk'[p]
      BY <1>1 DEF FilesKnown
    <3>1. CASE p = Mine(r)
      BY <1>2, <1>5, <1>8, <2>2, <3>1 DEF TypeOK
    <3>2. CASE p # Mine(r)
      <4>1. disk'[p] = disk[p]
        BY <1>2, <3>2 DEF TypeOK
      <4>2. CASE disk[p] \in acked[p]
        BY <1>1, <4>1, <4>2
      <4>3. CASE disk[p] \notin acked[p]
        <5>1. PICK q \in Requests : /\ request[q].at = "saved" /\ Mine(q) = p
                                    /\ request[q].arg = disk[p]
          BY <4>3 DEF FilesKnown
        <5>2. q # r /\ Active(q)
          BY <1>1, <5>1 DEF Active
        <5> QED BY <1>8, <4>1, <5>1, <5>2
      <4> QED BY <4>2, <4>3
    <3> QED BY <3>1, <3>2
  <2> QED BY <2>1, <2>2
<1>10. ~ HasTable(r)'
  BY <1>5, <1>8 DEF HasTable
<1>11. overlap' \/ TableKnown'
  BY <1>1, <1>8, <1>10, MoveTable
<1>12. disk' \in [Paths -> Document] /\ FilesSound'
  BY <1>1, <1>2, <1>3 DEF TypeOK, Document, FilesSound, Unmended
<1>13. TypeOK'
  BY <1>1, <1>8, <1>12 DEF TypeOK
<1> QED BY <1>8, <1>9, <1>11, <1>12, <1>13

\* What is answered is told: the file may hold it, or another rename is under way.
LEMMA SaveAnswersKeeps ==
  ASSUME ServerAssumption, ServerInv, NEW r \in Requests, SaveAnswers(r)
  PROVE  ServerInv'
<1> USE DEF ServerInv
<1>1. /\ disk' = disk /\ cut' = cut /\ overlap' = overlap
      /\ lastRoot' = lastRoot /\ table' = table /\ temp' = temp /\ found' = found
      /\ request[r].at = "saved"
      /\ request' = [request EXCEPT ![r].at = "done"]
      /\ acked' = [acked EXCEPT ![Mine(r)] = @ \cup {request[r].arg}]
      /\ server' = [server EXCEPT ![request[r].server].doc = request[r].arg]
  BY DEF SaveAnswers, files, To
<1>3. /\ request[r].server \in Servers /\ server[request[r].server].at \in Lives
      /\ request[r].kind = "save" /\ request[r].arg \in Docs /\ Mine(r) \in Paths
  BY <1>1 DEF RequestsReady, Active, SaveAt, ServersReady, Mine, Lives
<1> DEFINE moved == [request[r] EXCEPT !.at = "done"]
<1>4. request[r] \in RequestType
  BY DEF TypeOK
<1>5. moved \in RequestType /\ moved.at = "done"
  BY <1>4 DEF RequestType, RequestAt, SaveAt
<1>6. request' = [request EXCEPT ![r] = moved]
  BY <1>1 DEF TypeOK
<1> HIDE DEF moved
<1>7. MovesTo(r, moved)
  BY <1>5, <1>6 DEF MovesTo, RootAt, SaveAt
<1>8. SamePlaces
  BY <1>1, <1>3 DEF SamePlaces, TypeOK, ServerType, Document
<1>9. /\ ServersReady' /\ RequestsReady'
      /\ request' \in [Requests -> RequestType]
      /\ \A q \in Requests : q # r => request'[q] = request[q]
      /\ request'[r] = moved
      /\ \A q \in Requests : (q # r /\ Active(q)) => Mine(q)' = Mine(q)
  BY <1>1, <1>7, <1>8, MoveReady
<1>10. FilesKnown'
  <2> SUFFICES ASSUME ~ cut, NEW p \in Paths, disk[p] \notin acked'[p]
               PROVE  \E q \in Requests : /\ request'[q].at = "saved" /\ Mine(q)' = p
                                          /\ request'[q].arg = disk[p]
    BY <1>1 DEF FilesKnown
  <2>1. disk[p] \notin acked[p] /\ (p = Mine(r) => disk[p] # request[r].arg)
    BY <1>1, <1>3 DEF TypeOK
  <2>2. PICK q \in Requests : /\ request[q].at = "saved" /\ Mine(q) = p
                              /\ request[q].arg = disk[p]
    BY <2>1 DEF FilesKnown
  <2>3. q # r /\ Active(q)
    BY <2>1, <2>2 DEF Active
  <2> QED BY <1>9, <2>2, <2>3
<1>11. ~ HasTable(r)'
  BY <1>5, <1>9 DEF HasTable
<1>12. overlap' \/ TableKnown'
  BY <1>1, <1>9, <1>11, MoveTable
<1>13. acked' \in [Paths -> SUBSET Document]
  BY <1>1, <1>3 DEF TypeOK, Document
<1>14. TypeOK'
  BY <1>1, <1>8, <1>9, <1>13 DEF TypeOK, SamePlaces
<1>15. FilesSound'
  BY <1>1 DEF FilesSound, Unmended
<1> QED BY <1>9, <1>10, <1>12, <1>14, <1>15

-------------------------------------------------------------------------------
(* The table of roots, and the end of a process.                           *)

LEMMA Alone ==
  ASSUME ServerAssumption, NEW r \in Writing, ~ (Cardinality(Writing) > 1)
  PROVE  Writing = {r}
<1>1. IsFiniteSet(Writing)
  BY FS_Subset DEF ServerAssumption, Writing
<1>2. Cardinality(Writing) \in Nat /\ Cardinality(Writing) <= 1
  BY <1>1, FS_CardinalityType
<1>3. /\ IsFiniteSet(Writing \ {r})
      /\ Cardinality(Writing \ {r}) = Cardinality(Writing) - 1
  BY <1>1, FS_RemoveElement
<1>4. Cardinality(Writing \ {r}) \in Nat
  BY <1>3, FS_CardinalityType
<1>5. Cardinality(Writing \ {r}) = 0
  BY <1>2, <1>3, <1>4
<1>6. Writing \ {r} = {}
  BY <1>3, <1>5, FS_EmptySet
<1> QED BY <1>6

\* The table is read and written by one request, if by any.
LEMMA RootStepKeeps ==
  ASSUME ServerAssumption, ServerInv, NEW r \in Requests,
         RootReads(r) \/ RootOpens(r) \/ RootWrites(r)
  PROVE  ServerInv'
<1> USE DEF ServerInv
<1>1. /\ disk' = disk /\ cut' = cut /\ server' = server /\ acked' = acked
      /\ lastRoot' = lastRoot /\ table' = table /\ found' = found
      /\ request[r].at \in {"root", "opened"}
  BY DEF RootReads, RootOpens, RootWrites, files, ghosts
<1>2. /\ request[r].server \in Servers /\ server[request[r].server].at \in Lives
      /\ request[r].arg \in Root /\ Mine(r) \in Paths
  BY <1>1 DEF RequestsReady, Active, RootAt, ServersReady, Mine, Lives
<1>3. request[r] \in RequestType /\ table.map \in RootMap
  BY DEF TypeOK, Table
<1>4. PICK moved : /\ MovesTo(r, moved) /\ moved.server = request[r].server
                   /\ moved.arg = request[r].arg /\ moved.at \in RootAt
                   /\ RootReads(r) => /\ moved.at = "root"
                                      /\ moved.map = [table.map EXCEPT ![Mine(r)] = request[r].arg]
                   /\ RootOpens(r) => moved.at = "opened" /\ moved.map = request[r].map
                   /\ RootWrites(r) => moved.at = "tabled" /\ moved.map = request[r].map
  <2>1. CASE RootReads(r)
    <3> DEFINE moved == [request[r] EXCEPT !.map = [table.map EXCEPT ![Mine(r)] = request[r].arg]]
    <3>1. [table.map EXCEPT ![Mine(r)] = request[r].arg] \in RootMap
      BY <1>2, <1>3 DEF RootMap
    <3>2. /\ moved \in RequestType /\ moved.at = "root" /\ moved.server = request[r].server
          /\ moved.arg = request[r].arg
          /\ moved.map = [table.map EXCEPT ![Mine(r)] = request[r].arg]
      BY <1>3, <2>1, <3>1 DEF RequestType, RootReads
    <3>3. request' = [request EXCEPT ![r] = moved]
      BY <2>1 DEF RootReads
    <3>4. ~ RootOpens(r) \/ moved.at = "opened"
      BY <2>1, <3>3, <1>3 DEF RootReads, RootOpens, To, TypeOK, RequestType
    <3>5. ~ RootWrites(r)
      BY <2>1 DEF RootReads, RootWrites
    <3> HIDE DEF moved
    <3>6. MovesTo(r, moved)
      BY <1>2, <3>2, <3>3 DEF MovesTo, RootAt, SaveAt
    <3> QED BY <3>2, <3>4, <3>5, <3>6 DEF RootAt
  <2>2. CASE ~ RootReads(r)
    <3> DEFINE at == IF RootOpens(r) THEN "opened" ELSE "tabled"
               moved == [request[r] EXCEPT !.at = at]
    <3>1. /\ at \in RootAt /\ at \in RequestAt /\ at \notin SaveAt
          /\ at \notin {"rename", "saved", "new", "done", "root"}
      BY DEF RootAt, RequestAt, SaveAt
    <3>2. RootWrites(r) => at = "tabled"
      BY DEF RootOpens, RootWrites
    <3>3. RootOpens(r) => at = "opened"
      OBVIOUS
    <3>4. request' = [request EXCEPT ![r].at = at]
      BY <2>2, <3>2, <3>3 DEF RootOpens, RootWrites, To
    <3> HIDE DEF at
    <3>5. /\ moved \in RequestType /\ moved.at = at /\ moved.server = request[r].server
          /\ moved.arg = request[r].arg /\ moved.map = request[r].map
      BY <1>3, <3>1 DEF RequestType
    <3>6. request' = [request EXCEPT ![r] = moved]
      BY <3>4
    <3> HIDE DEF moved
    <3>7. request[r].map \in RootMap
      BY <1>1, <1>3, <2>2
      DEF RootOpens, RootWrites, RequestsReady, Active, RequestType
    <3>8. MovesTo(r, moved)
      BY <1>2, <3>1, <3>5, <3>6, <3>7 DEF MovesTo
    <3> QED BY <2>2, <3>1, <3>2, <3>3, <3>5, <3>8
  <2> QED BY <2>1, <2>2
<1>5. SamePlaces
  BY <1>1 DEF SamePlaces, TypeOK
<1>6. /\ ServersReady' /\ RequestsReady'
      /\ request' \in [Requests -> RequestType]
      /\ \A q \in Requests : q # r => request'[q] = request[q]
      /\ request'[r] = moved
      /\ \A q \in Requests : (q # r /\ Active(q)) => Mine(q)' = Mine(q)
      /\ Mine(r)' = Mine(r)
  BY <1>1, <1>4, <1>5, MoveReady DEF Active
<1>7. FilesKnown' /\ FilesSound'
  BY <1>1, <1>6, MoveFiles DEF FilesSound, Unmended
<1>8. temp' \in [Servers -> Table \cup {None}] /\ overlap' \in BOOLEAN
  <2>1. Torn \in Table
    BY DEF Torn, Table, RootMap, Root
  <2>2. RootWrites(r) => NewTable(r) \in Table
    BY DEF RootWrites, NewTable, Table, RequestsReady, Active
  <2>3. CASE RootReads(r)
    BY <2>3 DEF RootReads, files, TypeOK
  <2>4. CASE RootOpens(r)
    BY <2>1, <2>4 DEF RootOpens, TypeOK
  <2>5. CASE RootWrites(r)
    BY <2>2, <2>5 DEF RootWrites, TypeOK, ghosts
  <2> QED BY <2>3, <2>4, <2>5
<1>9. TypeOK'
  BY <1>1, <1>6, <1>8 DEF TypeOK
<1>10. overlap' \/ TableKnown'
  <2> SUFFICES ASSUME ~ overlap' PROVE TableKnown'
    OBVIOUS
  <2>1. overlap' = FALSE /\ TableKnown
    BY DEF RootReads, RootOpens, RootWrites, ghosts, TypeOK
  <2>2. \A q \in Requests : HasTable(q)' => q = r
    <3>1. \A q \in Requests : HasTable(q)' => (q = r \/ HasTable(q))
      BY <1>6 DEF HasTable
    <3>2. CASE RootWrites(r)
      BY <2>1, <3>1, <3>2 DEF TableKnown, RootWrites, HasTable
    <3>3. CASE ~ RootWrites(r)
      <4>1. r \in Writing /\ ~ (Cardinality(Writing) > 1)
        BY <1>1, <2>1, <3>3 DEF RootReads, RootOpens, Writing
      <4>2. Writing = {r}
        BY <4>1, Alone
      <4> QED BY <3>1, <4>2 DEF Writing, HasTable
    <3> QED BY <3>2, <3>3
  <2>3. ~ table'.torn /\ table'.map = lastRoot'
    BY <1>1, <2>1 DEF TableKnown
  <2>4. moved.map = [lastRoot EXCEPT ![Mine(r)] = moved.arg]
    BY <1>4, <2>1 DEF RootReads, RootOpens, RootWrites, TableKnown, HasTable
  <2>5. moved.at = "tabled" => temp'[moved.server] = [torn |-> FALSE, map |-> moved.map]
    <3> SUFFICES ASSUME moved.at = "tabled"
                 PROVE  temp'[moved.server] = [torn |-> FALSE, map |-> moved.map]
      OBVIOUS
    <3>1. RootWrites(r)
      BY <1>4
    <3> QED BY <1>2, <1>4, <3>1 DEF RootWrites, NewTable, TypeOK
  <2> QED BY <1>1, <1>6, <2>2, <2>3, <2>4, <2>5 DEF TableKnown
<1> QED BY <1>6, <1>7, <1>9, <1>10

\* A process ends: its requests are done, and none of them was to be told of a
\* file, unless the process was cut off.
Ends(s) ==
  /\ server' = [server EXCEPT ![s].at = "ended"]
  /\ request' = [r \in Requests |-> IF r \in Under(s) THEN [request[r] EXCEPT !.at = "done"]
                                    ELSE request[r]]
  /\ UNCHANGED <<files, acked, lastRoot, overlap, found>>
  /\ cut => cut'
  /\ (\E r \in Under(s) : request[r].kind = "save") => cut'
  /\ cut' \in BOOLEAN

LEMMA EndsKeeps ==
  ASSUME ServerAssumption, ServerInv, NEW s \in Servers, server[s].at \in Lives, Ends(s)
  PROVE  ServerInv'
<1> USE DEF ServerInv
<1>1. /\ disk' = disk /\ table' = table /\ temp' = temp /\ acked' = acked
      /\ lastRoot' = lastRoot /\ overlap' = overlap /\ found' = found
  BY DEF Ends, files
<1>2. \A r \in Requests :
        /\ request'[r] \in RequestType
        /\ Active(r)' => /\ request'[r] = request[r] /\ request[r].server # s
                         /\ request[r].server \in Servers /\ Active(r)
  <2> SUFFICES ASSUME NEW r \in Requests
               PROVE  /\ request'[r] \in RequestType
                      /\ Active(r)' => /\ request'[r] = request[r] /\ request[r].server # s
                                       /\ request[r].server \in Servers /\ Active(r)
    OBVIOUS
  <2>1. request[r] \in RequestType
    BY DEF TypeOK
  <2>2. CASE r \in Under(s)
    <3>1. request'[r] = [request[r] EXCEPT !.at = "done"]
      BY <2>2 DEF Ends
    <3>2. request'[r] \in RequestType /\ request'[r].at = "done"
      BY <2>1, <3>1 DEF RequestType, RequestAt
    <3> QED BY <3>2 DEF Active
  <2>3. CASE r \notin Under(s)
    <3>1. request'[r] = request[r]
      BY <2>3 DEF Ends
    <3> QED BY <2>1, <2>3, <3>1 DEF Active, Under, RequestsReady
  <2> QED BY <2>2, <2>3
<1>3. /\ server' \in [Servers -> ServerType] /\ server'[s].at = "ended"
      /\ server'[s].path = server[s].path
      /\ \A t \in Servers : t # s => server'[t] = server[t]
  BY DEF Ends, TypeOK, ServerType, ServerAt
<1>4. ServersReady' /\ FilesSound'
  BY <1>1, <1>3 DEF ServersReady, Lives, FilesSound, Mendable, Unmended
<1>5. RequestsReady'
  BY <1>2, <1>3 DEF RequestsReady
<1>6. \A r \in Requests : Active(r)' => Mine(r)' = Mine(r)
  BY <1>2, <1>3 DEF Mine
<1>7. FilesKnown'
  <2> SUFFICES ASSUME ~ cut', NEW p \in Paths, disk[p] \notin acked[p]
               PROVE  \E r \in Requests : /\ request'[r].at = "saved" /\ Mine(r)' = p
                                          /\ request'[r].arg = disk[p]
    BY <1>1 DEF FilesKnown
  <2>1. PICK r \in Requests : /\ request[r].at = "saved" /\ Mine(r) = p
                              /\ request[r].arg = disk[p]
    BY DEF FilesKnown, Ends
  <2>2. request[r].kind = "save"
    BY <2>1 DEF RequestsReady, Active, SaveAt
  <2>3. r \notin Under(s)
    BY <2>2 DEF Ends
  <2>4. request'[r] = request[r]
    BY <2>3 DEF Ends
  <2>5. Active(r)'
    BY <2>1, <2>4 DEF Active
  <2> QED BY <1>6, <2>1, <2>4, <2>5
<1>8. overlap' \/ TableKnown'
  <2>1. \A r \in Requests : HasTable(r)' => HasTable(r) /\ Active(r)'
    BY <1>2 DEF HasTable, Active
  <2> QED BY <1>1, <1>2, <1>6, <2>1 DEF TableKnown
<1>9. request' \in [Requests -> RequestType]
  BY <1>2 DEF Ends
<1>10. TypeOK'
  BY <1>1, <1>3, <1>9 DEF TypeOK, Ends
<1> QED BY <1>4, <1>5, <1>7, <1>8, <1>10

LEMMA RootRenamesKeeps ==
  ASSUME ServerAssumption, ServerInv, NEW r \in Requests, RootRenames(r)
  PROVE  ServerInv'
<1> USE DEF ServerInv
<1>1. /\ request[r].at = "tabled" /\ disk' = disk /\ acked' = acked /\ overlap' = overlap
      /\ (cut => cut') /\ found' = found
  BY DEF RootRenames
<1>2. /\ request[r].server \in Servers /\ server[request[r].server].at \in Lives
      /\ request[r].arg \in Root /\ Mine(r) \in Paths
  BY <1>1 DEF RequestsReady, Active, RootAt, ServersReady, Mine, Lives
<1>3. CASE temp[request[r].server] = None
  <2>1. cut' = TRUE
    BY <1>3 DEF RootRenames
  <2>2. Ends(request[r].server)
    BY <1>1, <1>3, <2>1 DEF RootRenames, Ends, files
  <2> QED BY <1>2, <2>2, EndsKeeps
<1>4. CASE temp[request[r].server] # None
  <2>1. /\ table' = temp[request[r].server]
        /\ temp' = [temp EXCEPT ![request[r].server] = None]
        /\ lastRoot' = [lastRoot EXCEPT ![Mine(r)] = request[r].arg]
        /\ request' = [request EXCEPT ![r].at = "done"] /\ server' = server
    BY <1>4 DEF RootRenames, To
  <2> DEFINE moved == [request[r] EXCEPT !.at = "done"]
  <2>2. request[r] \in RequestType
    BY DEF TypeOK
  <2>3. moved \in RequestType /\ moved.at = "done"
    BY <2>2 DEF RequestType, RequestAt
  <2>4. request' = [request EXCEPT ![r] = moved]
    BY <2>1
  <2> HIDE DEF moved
  <2>5. MovesTo(r, moved) /\ SamePlaces
    BY <2>1, <2>3, <2>4 DEF MovesTo, SaveAt, RootAt, SamePlaces, TypeOK
  <2>6. /\ ServersReady' /\ RequestsReady'
        /\ request' \in [Requests -> RequestType]
        /\ \A q \in Requests : q # r => request'[q] = request[q]
        /\ request'[r] = moved
        /\ \A q \in Requests : (q # r /\ Active(q)) => Mine(q)' = Mine(q)
    BY <1>1, <2>5, MoveReady
  <2>7. FilesKnown' /\ FilesSound'
    BY <1>1, <2>6, MoveFiles DEF FilesSound, Unmended
  <2>8. table' \in Table /\ temp' \in [Servers -> Table \cup {None}]
    BY <1>2, <1>4, <2>1 DEF TypeOK
  <2>9. lastRoot' \in RootMap
    BY <1>2, <2>1 DEF TypeOK, RootMap
  <2>10. cut' \in BOOLEAN
    BY DEF RootRenames, TypeOK
  <2>11. TypeOK'
    BY <1>1, <2>1, <2>6, <2>8, <2>9, <2>10 DEF TypeOK
  <2>12. overlap' \/ TableKnown'
    <3> SUFFICES ASSUME TableKnown PROVE TableKnown'
      BY <1>1
    <3>1. HasTable(r)
      BY <1>1 DEF HasTable
    <3>2. \A q \in Requests : ~ HasTable(q)'
      BY <2>3, <2>6, <3>1 DEF HasTable, TableKnown
    <3>3. table' = [torn |-> FALSE, map |-> request[r].map] /\ request[r].map = lastRoot'
      BY <1>1, <2>1, <3>1 DEF TableKnown
    <3> QED BY <3>2, <3>3 DEF TableKnown
  <2> QED BY <2>6, <2>7, <2>11, <2>12
<1> QED BY <1>3, <1>4

-------------------------------------------------------------------------------
(* The theorems.                                                           *)

LEMMA ServerInit ==
  ASSUME ServerAssumption, Init
  PROVE  ServerInv
<1> USE DEF Init
<1>1. \A r \in Requests : ~ Active(r) /\ ~ HasTable(r)
  BY DEF Active, HasTable
<1>2. table \in Table /\ lastRoot \in RootMap /\ ~ table.torn /\ table.map = lastRoot
  BY DEF NoRoots, Table, RootMap, Root
<1>3. TypeOK
  <2>1. server \in [Servers -> ServerType]
    BY DEF ServerType, ServerAt, Document
  <2>2. request \in [Requests -> RequestType]
    BY DEF RequestType, RequestAt, Document
  <2>3. /\ disk \in [Paths -> Document] /\ acked \in [Paths -> SUBSET Document]
        /\ found \in [Paths -> Document]
    BY DEF Document
  <2> QED BY <1>2, <2>1, <2>2, <2>3 DEF TypeOK
<1>4. ServersReady /\ RequestsReady
  BY <1>1 DEF ServersReady, RequestsReady
<1>5. FilesKnown /\ FilesSound
  BY DEF FilesKnown, FilesSound, Unmended
<1>6. TableKnown
  BY <1>1, <1>2 DEF TableKnown
<1> QED BY <1>3, <1>4, <1>5, <1>6 DEF ServerInv

LEMMA ServerNext ==
  ASSUME ServerAssumption, ServerInv, [Next]_vars
  PROVE  ServerInv'
<1>1. ASSUME NEW s \in Servers, Begins(s) PROVE ServerInv'
  BY <1>1, BeginsKeeps
<1>2. ASSUME NEW s \in Servers, End(s) PROVE ServerInv'
  <2>1. server[s].at \in Lives
    BY <1>2 DEF End, Lives
  <2>2. cut' \in BOOLEAN
    BY <1>2 DEF End, ServerInv, TypeOK
  <2>3. Ends(s)
    BY <1>2, <2>2 DEF End, Ends
  <2> QED BY <2>1, <2>3, EndsKeeps
<1>3. ASSUME NEW p \in Paths, DeleteFile(p) PROVE ServerInv'
  BY <1>3, Deletes
<1>4. ASSUME NEW r \in Requests, Quiet(r) PROVE ServerInv'
  BY <1>4, QuietKeeps
<1>5. ASSUME NEW r \in Requests, SaveRenames(r) \/ SaveAnswers(r) PROVE ServerInv'
  BY <1>5, SaveRenamesKeeps, SaveAnswersKeeps
<1>6. ASSUME NEW r \in Requests, RootReads(r) \/ RootOpens(r) \/ RootWrites(r) PROVE ServerInv'
  BY <1>6, RootStepKeeps
<1>7. ASSUME NEW r \in Requests, RootRenames(r) PROVE ServerInv'
  BY <1>7, RootRenamesKeeps
<1>8. CASE UNCHANGED vars
  <2>1. UNCHANGED <<disk, table, temp, server, request, acked, lastRoot, overlap, cut, found>>
    BY <1>8 DEF vars
  <2>2. TypeOK' /\ ServersReady' /\ RequestsReady' /\ FilesKnown' /\ FilesSound'
    BY <2>1 DEF ServerInv, TypeOK, ServersReady, RequestsReady, FilesKnown, FilesSound, Active,
                Mine, Mendable, Unmended
  <2>3. overlap' \/ TableKnown'
    BY <2>1 DEF ServerInv, TableKnown, HasTable, Mine
  <2> QED BY <2>2, <2>3 DEF ServerInv
<1>9. CASE \E s \in Servers : \/ \E p \in Paths : Launch(s, p)
                              \/ CreateChecks(s) \/ CreateWrites(s) \/ ReadsBack(s)
                              \/ NamesFile(s) \/ End(s)
  BY <1>1, <1>2, <1>9 DEF Begins
<1>10. CASE \E r \in Requests, s \in Servers, gate \in Gates :
              \/ \E doc \in Docs \cup BadDocs : Receive(r, s, "save", gate, doc)
              \/ \E root \in Roots \cup {None} : Receive(r, s, "root", gate, root)
              \/ Receive(r, s, "cancel", gate, None) \/ Receive(r, s, "get", gate, None)
  BY <1>4, <1>10 DEF Quiet
<1>11. CASE \E r \in Requests :
              \/ SaveChecks(r) \/ SaveRenames(r) \/ SaveAnswers(r)
              \/ RootReads(r) \/ RootOpens(r) \/ RootWrites(r) \/ RootRenames(r)
              \/ Cancel(r) \/ Answer(r)
  BY <1>4, <1>5, <1>6, <1>7, <1>11 DEF Quiet
<1> QED BY <1>3, <1>8, <1>9, <1>10, <1>11 DEF Next

LEMMA ServerInvMeans ==
  ASSUME ServerAssumption, ServerInv
  PROVE  FileIsAcknowledged /\ RootsKept
<1>1. FileIsAcknowledged
  BY DEF ServerInv, FilesKnown, FilesSound, FileIsAcknowledged
<1>2. RootsKept
  BY DEF ServerInv, TableKnown, RootsKept
<1> QED BY <1>1, <1>2

-------------------------------------------------------------------------------
(* The draft of the project editor.                                        *)

\* Unless an answer was dropped, the snapshot last committed is what the host holds,
\* or the host has just taken the snapshot of the save in flight.
Committed == \/ save # None /\ save.stage = "ok"
             \/ stale \/ committed = host
DraftInv ==
  /\ save # None =>
       \E snapshot, at, where : save = [snapshot |-> snapshot, revision |-> at, stage |-> where]
  /\ save # None /\ save.stage = "ok" => save.snapshot = host
  /\ Committed

NoneIsNoSave ==
  \A snapshot, at, where : None # [snapshot |-> snapshot, revision |-> at, stage |-> where]

LEMMA DraftNext ==
  ASSUME NoneIsNoSave, DraftInv, [Draft!Next]_(Draft!vars)
  PROVE  DraftInv'
<1>1. ASSUME UNCHANGED <<committed, host, stale, save>>
      PROVE  DraftInv'
  BY <1>1 DEF DraftInv, Committed
<1>2. CASE Draft!Save
  BY <1>2 DEF Draft!Save, Draft!Idle, DraftInv, Committed
<1>3. CASE Draft!HostSaves
  <2>1. /\ save # None /\ save.stage = "sent" /\ UNCHANGED <<committed, stale>>
        /\ stale \/ committed = host
        /\ \E snapshot, at, where : save = [snapshot |-> snapshot, revision |-> at, stage |-> where]
    BY <1>3 DEF Draft!HostSaves, Draft!Idle, DraftInv, Committed
  <2>2. PICK snapshot, at, where : save = [snapshot |-> snapshot, revision |-> at, stage |-> where]
    BY <2>1
  <2>3. CASE host' = save.snapshot /\ save' = [save EXCEPT !.stage = "ok"]
    <3>1. save' = [snapshot |-> snapshot, revision |-> at, stage |-> "ok"] /\ host' = snapshot
      BY <2>2, <2>3
    <3>2. save' # None /\ save'.stage = "ok" /\ save'.snapshot = host'
      BY <3>1 DEF NoneIsNoSave
    <3> QED BY <3>1, <3>2 DEF DraftInv, Committed
  <2>4. CASE save' = [save EXCEPT !.stage = "failed"] /\ UNCHANGED host
    <3>1. save' = [snapshot |-> snapshot, revision |-> at, stage |-> "failed"]
      BY <2>2, <2>4
    <3> QED BY <2>1, <2>4, <3>1 DEF DraftInv, Committed
  <2> QED BY <1>3, <2>3, <2>4 DEF Draft!HostSaves
<1>4. CASE Draft!SaveReturns
  BY <1>4 DEF Draft!SaveReturns, Draft!Counts, Draft!Idle, DraftInv, Committed
<1>5. ASSUME \/ Draft!AddGroup \/ Draft!RequestCancel \/ Draft!DropConfirmation
             \/ Draft!ConfirmRemoval \/ Draft!Discard
             \/ Draft!CommitRename \/ Draft!CancelRename \/ Draft!AskAI \/ Draft!AnswerAI
      PROVE  Draft!Keep
  BY <1>5 DEF Draft!AddGroup, Draft!RequestCancel, Draft!DropConfirmation, Draft!Ask,
              Draft!ConfirmRemoval, Draft!Discard, Draft!CommitRename, Draft!CancelRename,
              Draft!AskAI, Draft!AnswerAI, Draft!Present
<1>6. ASSUME NEW gid, NEW rid, Draft!OnEntity(gid, rid) \/ Draft!OnRule(gid, rid)
      PROVE  Draft!Keep
  BY <1>6 DEF Draft!OnEntity, Draft!OnRule, Draft!CopyRule, Draft!MoveRule, Draft!EditRule,
              Draft!SetRuleType, Draft!RequestRemove, Draft!Ask, Draft!OpenRename,
              Draft!OpenForDiagnostic, Draft!Present, Draft!Staying
<1>7. ASSUME NEW gid, Draft!AddRule(gid) \/ Draft!CopyGroup(gid)
      PROVE  Draft!Keep
  BY <1>7 DEF Draft!AddRule, Draft!CopyGroup, Draft!Present
<1>8. ASSUME \/ \E gid \in Draft!Groups \cup {None}, keeps \in BOOLEAN : Draft!Navigate(gid, keeps)
             \/ \E gi \in 1 .. MaxGroups, ri \in 0 .. MaxRules : Draft!RepairId(gi, ri)
             \/ \E value \in Typed : Draft!TypeName(value)
             \/ \E p \in Proposals : Draft!ApplyProposal(p)
      PROVE  Draft!Keep
  BY <1>8 DEF Draft!Navigate, Draft!RepairId, Draft!TypeName, Draft!ApplyProposal
<1>9. Draft!Keep => DraftInv'
  BY <1>1 DEF Draft!Keep
<1>10. CASE UNCHANGED Draft!vars
  BY <1>1, <1>10 DEF Draft!vars
<1> QED BY <1>2, <1>3, <1>4, <1>5, <1>6, <1>7, <1>8, <1>9, <1>10 DEF Draft!Next

LEMMA DraftStarts ==
  ASSUME Draft!Init
  PROVE  DraftInv
BY DEF Draft!Init, DraftInv, Committed

-------------------------------------------------------------------------------
(* The test console.                                                       *)

\* The run asked for last is not in flight once the user has left it behind: moving
\* the request id on leaves every flight below it.
ConsoleInv ==
  /\ run \in Nat /\ flights \subseteq 1 .. run
  /\ abandoned = FALSE \/ run \notin flights
  /\ Console!HostFollows

\* A verdict appears.
Shows == result' # result /\ result' # None

LEMMA ConsoleNext ==
  ASSUME ConsoleInv, [Console!Next]_(Console!vars)
  PROVE  ConsoleInv' /\ (Shows => result' = run /\ abandoned = FALSE)
<1>0. Console!Told => open' = hostOpen'
  BY Zenon DEF Console!Told
<1> USE DEF Console!Bump, Console!test, Console!HostFollows, ConsoleInv, Shows
<1>1. CASE Console!Navigate
  BY <1>0, <1>1 DEF Console!Navigate
<1>2. CASE Console!SyncRoute
  BY <1>2 DEF Console!SyncRoute
<1>3. CASE Console!NavigateToField \/ Console!OpenPicker
  BY <1>0, <1>3 DEF Console!NavigateToField, Console!OpenPicker
<1>4. CASE Console!OpenDialog \/ Console!ClosePicker
  BY <1>4 DEF Console!OpenDialog, Console!ClosePicker
<1>10. CASE Console!SetConsolePage
  <2>1. open' = hostOpen'
    BY <1>10, Zenon DEF Console!SetConsolePage
  <2> QED BY <1>10, <2>1 DEF Console!SetConsolePage
<1>5. CASE Console!CloseDialog
  BY <1>5 DEF Console!CloseDialog
<1>6. CASE Console!RunTest
  <2>1. run' \in Nat /\ flights' \subseteq 1 .. run'
    BY <1>6 DEF Console!RunTest
  <2>2. abandoned' = FALSE
    BY <1>6, Zenon DEF Console!RunTest
  <2>3. Console!HostFollows' /\ result' = result
    BY <1>6 DEF Console!RunTest
  <2> QED BY <2>1, <2>2, <2>3
<1>7. CASE Console!RefuseTest
  BY <1>7 DEF Console!RefuseTest
<1>8. ASSUME NEW id \in flights, Console!Drop(id) \/ Console!Verdict(id) \/ Console!Diagnosed(id)
      PROVE  ConsoleInv' /\ (Shows => result' = run /\ abandoned = FALSE)
  BY <1>0, <1>8 DEF Console!Drop, Console!Verdict, Console!Diagnosed, Console!Answered, Console!Current
<1>9. CASE UNCHANGED Console!vars
  BY <1>9 DEF Console!vars
<1> QED BY <1>1, <1>2, <1>3, <1>4, <1>5, <1>6, <1>7, <1>8, <1>9, <1>10 DEF Console!Next

-------------------------------------------------------------------------------
(* The doctor: tables of verdicts.                                         *)

\* The row that a table is decided by.
Decides(rows, i) ==
  i \in DOMAIN rows /\ rows[i].when /\ \A j \in 1 .. i - 1 : ~ rows[j].when

\* Doctor's First is the row that decides.
LEMMA FirstIs ==
  ASSUME NEW rows, DOMAIN rows \subseteq Nat \ {0}, NEW i, Decides(rows, i)
  PROVE  Checks!First(rows) = rows[i].then
<1>1. \A k \in DOMAIN rows : Decides(rows, k) => k = i
  BY DEF Decides
<1> QED BY <1>1 DEF Decides, Checks!First

SomeRow(rows, k) == \E i \in 1 .. k : rows[i].when
SomeDecides(rows, k) == \E i \in 1 .. k : rows[i].when /\ \A j \in 1 .. i - 1 : ~ rows[j].when

LEMMA NextRow ==
  ASSUME NEW rows, NEW k \in Nat, SomeRow(rows, k) => SomeDecides(rows, k)
  PROVE  SomeRow(rows, k + 1) => SomeDecides(rows, k + 1)
<1>1. CASE SomeRow(rows, k)
  <2>1. PICK i \in 1 .. k : rows[i].when /\ \A j \in 1 .. i - 1 : ~ rows[j].when
    BY <1>1 DEF SomeDecides
  <2> QED BY <2>1 DEF SomeDecides
<1>2. CASE ~ SomeRow(rows, k) /\ SomeRow(rows, k + 1)
  <2>1. rows[k + 1].when /\ \A j \in 1 .. k : ~ rows[j].when
    BY <1>2 DEF SomeRow
  <2> QED BY <2>1 DEF SomeDecides
<1> QED BY <1>1, <1>2

\* A table whose last row always holds is decided by one of its rows.
LEMMA OneRow ==
  ASSUME NEW rows, NEW n \in 1 .. 8, DOMAIN rows = 1 .. n, rows[n].when
  PROVE  \E i \in 1 .. n : Checks!First(rows) = rows[i].then
<1> DEFINE P(k) == SomeRow(rows, k) => SomeDecides(rows, k)
<1>0. P(0)
  BY DEF SomeRow
<1>1. P(1)
  BY <1>0, NextRow
<1>2. P(2)
  BY <1>1, NextRow
<1>3. P(3)
  BY <1>2, NextRow
<1>4. P(4)
  BY <1>3, NextRow
<1>5. P(5)
  BY <1>4, NextRow
<1>6. P(6)
  BY <1>5, NextRow
<1>7. P(7)
  BY <1>6, NextRow
<1>8. P(8)
  BY <1>7, NextRow
<1>9. P(n)
  <2> HIDE DEF P
  <2> QED BY <1>1, <1>2, <1>3, <1>4, <1>5, <1>6, <1>7, <1>8
<1>10. SomeRow(rows, n)
  BY DEF SomeRow
<1>11. PICK i \in 1 .. n : rows[i].when /\ \A j \in 1 .. i - 1 : ~ rows[j].when
  BY <1>9, <1>10 DEF SomeDecides
<1>12. DOMAIN rows \subseteq Nat \ {0} /\ Decides(rows, i)
  BY <1>11 DEF Decides
<1> QED BY <1>12, FirstIs

-------------------------------------------------------------------------------
(* The doctor: checks and reports.                                         *)

\* A verdict of the check id, required or optional as that check is.
Of(check, id) == check = Checks!Check(id, check.status, check.says)

LEMMA ChecksAre ==
  ASSUME NEW id, NEW status, NEW says
  PROVE  /\ Of(Checks!Check(id, status, says), id)
         /\ Checks!Check(id, status, says).id = id
         /\ Checks!Check(id, status, says).optional = (id \notin Checks!Required)
         /\ Checks!Check(id, status, says).status = status
         /\ Checks!Check(id, status, says).says = says
BY DEF Of, Checks!Check

\* A table of verdicts of one check gives a verdict of that check.
LEMMA TableOf ==
  ASSUME NEW rows, NEW id, NEW n \in 1 .. 8, DOMAIN rows = 1 .. n, rows[n].when,
         \A i \in 1 .. n : Of(rows[i].then, id)
  PROVE  Of(Checks!First(rows), id)
BY OneRow

LEMMA Rows3 ==
  ASSUME NEW id, NEW p, NEW q,
         NEW s1, NEW s2, NEW s3,
         NEW d1, NEW d2, NEW d3
  PROVE  Of(Checks!First(
                <<Checks!Row(p, Checks!Check(id, s1, d1)), Checks!Row(q, Checks!Check(id, s2, d2)),
                    Checks!Row(TRUE, Checks!Check(id, s3, d3))>>), id)
<1> DEFINE rows == <<Checks!Row(p, Checks!Check(id, s1, d1)), Checks!Row(q, Checks!Check(id, s2, d2)),
                    Checks!Row(TRUE, Checks!Check(id, s3, d3))>>
<1>1. DOMAIN rows = 1 .. 3 /\ rows[3].when
  BY DEF Checks!Row
<1>2. \A i \in 1 .. 3 : Of(rows[i].then, id)
  BY ChecksAre DEF Checks!Row
<1> HIDE DEF rows
<1>3. Of(Checks!First(rows), id)
  BY <1>1, <1>2, TableOf
<1> QED BY <1>3 DEF rows

LEMMA Rows4 ==
  ASSUME NEW id, NEW p, NEW q, NEW r,
         NEW s1, NEW s2, NEW s3, NEW s4,
         NEW d1, NEW d2, NEW d3, NEW d4
  PROVE  Of(Checks!First(
                <<Checks!Row(p, Checks!Check(id, s1, d1)), Checks!Row(q, Checks!Check(id, s2, d2)),
                    Checks!Row(r, Checks!Check(id, s3, d3)), Checks!Row(TRUE, Checks!Check(id, s4, d4))>>), id)
<1> DEFINE rows == <<Checks!Row(p, Checks!Check(id, s1, d1)), Checks!Row(q, Checks!Check(id, s2, d2)),
                    Checks!Row(r, Checks!Check(id, s3, d3)), Checks!Row(TRUE, Checks!Check(id, s4, d4))>>
<1>1. DOMAIN rows = 1 .. 4 /\ rows[4].when
  BY DEF Checks!Row
<1>2. \A i \in 1 .. 4 : Of(rows[i].then, id)
  BY ChecksAre DEF Checks!Row
<1> HIDE DEF rows
<1>3. Of(Checks!First(rows), id)
  BY <1>1, <1>2, TableOf
<1> QED BY <1>3 DEF rows

LEMMA Rows6 ==
  ASSUME NEW id, NEW p, NEW q, NEW r, NEW t, NEW u,
         NEW s1, NEW s2, NEW s3, NEW s4, NEW s5, NEW s6,
         NEW d1, NEW d2, NEW d3, NEW d4, NEW d5, NEW d6
  PROVE  Of(Checks!First(
                <<Checks!Row(p, Checks!Check(id, s1, d1)), Checks!Row(q, Checks!Check(id, s2, d2)),
                    Checks!Row(r, Checks!Check(id, s3, d3)), Checks!Row(t, Checks!Check(id, s4, d4)),
                    Checks!Row(u, Checks!Check(id, s5, d5)), Checks!Row(TRUE, Checks!Check(id, s6, d6))>>), id)
<1> DEFINE rows == <<Checks!Row(p, Checks!Check(id, s1, d1)), Checks!Row(q, Checks!Check(id, s2, d2)),
                    Checks!Row(r, Checks!Check(id, s3, d3)), Checks!Row(t, Checks!Check(id, s4, d4)),
                    Checks!Row(u, Checks!Check(id, s5, d5)), Checks!Row(TRUE, Checks!Check(id, s6, d6))>>
<1>1. DOMAIN rows = 1 .. 6 /\ rows[6].when
  BY DEF Checks!Row
<1>2. \A i \in 1 .. 6 : Of(rows[i].then, id)
  BY ChecksAre DEF Checks!Row
<1> HIDE DEF rows
<1>3. Of(Checks!First(rows), id)
  BY <1>1, <1>2, TableOf
<1> QED BY <1>3 DEF rows

LEMMA Rows8 ==
  ASSUME NEW id, NEW p, NEW q, NEW r, NEW t, NEW u, NEW v, NEW w,
         NEW s1, NEW s2, NEW s3, NEW s4, NEW s5, NEW s6, NEW s7, NEW s8,
         NEW d1, NEW d2, NEW d3, NEW d4, NEW d5, NEW d6, NEW d7, NEW d8
  PROVE  Of(Checks!First(
                <<Checks!Row(p, Checks!Check(id, s1, d1)), Checks!Row(q, Checks!Check(id, s2, d2)),
                    Checks!Row(r, Checks!Check(id, s3, d3)), Checks!Row(t, Checks!Check(id, s4, d4)),
                    Checks!Row(u, Checks!Check(id, s5, d5)), Checks!Row(v, Checks!Check(id, s6, d6)),
                    Checks!Row(w, Checks!Check(id, s7, d7)), Checks!Row(TRUE, Checks!Check(id, s8, d8))>>), id)
<1> DEFINE rows == <<Checks!Row(p, Checks!Check(id, s1, d1)), Checks!Row(q, Checks!Check(id, s2, d2)),
                    Checks!Row(r, Checks!Check(id, s3, d3)), Checks!Row(t, Checks!Check(id, s4, d4)),
                    Checks!Row(u, Checks!Check(id, s5, d5)), Checks!Row(v, Checks!Check(id, s6, d6)),
                    Checks!Row(w, Checks!Check(id, s7, d7)), Checks!Row(TRUE, Checks!Check(id, s8, d8))>>
<1>1. DOMAIN rows = 1 .. 8 /\ rows[8].when
  BY DEF Checks!Row
<1>2. \A i \in 1 .. 8 : Of(rows[i].then, id)
  BY ChecksAre DEF Checks!Row
<1> HIDE DEF rows
<1>3. Of(Checks!First(rows), id)
  BY <1>1, <1>2, TableOf
<1> QED BY <1>3 DEF rows

\* So it is with the tables of the doctor.
LEMMA Tables ==
  ASSUME NEW w, NEW updates, NEW verified, NEW id, NEW phase, NEW proxy, NEW a, NEW b, NEW read
  PROVE  /\ Of(Checks!NodeCheck(w, updates), "node")
         /\ Of(Checks!HostCheck(verified, id), "host")
         /\ Of(Checks!CaCheck(verified), "ca")
         /\ Of(Checks!ProxyCheck(phase, proxy), "ext.proxy")
         /\ Of(Checks!AssistCheck(a, b), "editor.ai")
         /\ Of(Checks!RulesCheck(read), "ext.rules")
<1>1. Of(Checks!NodeCheck(w, updates), "node")
  <2>1. \A p, q, r, t, u : Of(Checks!First(<<
           Checks!Row(p, Checks!Check("node", "fail", "old Node")),
           Checks!Row(q, Checks!Check("node", "fail", "no CLI version")),
           Checks!Row(r, Checks!Check("node", "pass", "versions")),
           Checks!Row(t, Checks!Check("node", "warn", "no registry")),
           Checks!Row(u, Checks!Check("node", "warn", "newer CLI")),
           Checks!Row(TRUE, Checks!Check("node", "pass", "current"))>>), "node")
    BY Rows6, Zenon
  <2> QED BY <2>1, Zenon DEF Checks!NodeCheck
<1>2. Of(Checks!HostCheck(verified, id), "host")
  <2>1. \A p, q, r, t, u : Of(Checks!First(<<
           Checks!Row(p, Checks!Check("host", "fail", "unchecked")),
           Checks!Row(q, Checks!Check("host", "fail", verified.manifest)),
           Checks!Row(r, Checks!Check("host", "fail", verified.wrapper)),
           Checks!Row(t, Checks!Check("host", "fail", "no origins")),
           Checks!Row(u, Checks!Check("host", "fail", "another extension")),
           Checks!Row(TRUE, Checks!Check("host", "pass", "listed"))>>), "host")
    BY Rows6, Zenon
  <2> QED BY <2>1, Zenon DEF Checks!HostCheck
<1>3. Of(Checks!CaCheck(verified), "ca")
  BY Rows3, Zenon DEF Checks!CaCheck
<1>4. Of(Checks!ProxyCheck(phase, proxy), "ext.proxy")
  <2>1. \A p, q, r, t, u : Of(Checks!First(<<
           Checks!Row(p, Checks!Check("ext.proxy", "warn", "unread")),
           Checks!Row(q, Checks!Check("ext.proxy", "fail", proxy)),
           Checks!Row(r, Checks!Check("ext.proxy", "fail", "not ours")),
           Checks!Row(t, Checks!Check("ext.proxy", "pass", "ours")),
           Checks!Row(u, Checks!Check("ext.proxy", "warn", "left over")),
           Checks!Row(TRUE, Checks!Check("ext.proxy", "pass", "clear"))>>), "ext.proxy")
    BY Rows6, Zenon
  <2> QED BY <2>1, Zenon DEF Checks!ProxyCheck
<1>5. Of(Checks!AssistCheck(a, b), "editor.ai")
  BY Rows4, Zenon DEF Checks!AssistCheck
<1>6. Of(Checks!RulesCheck(read), "ext.rules")
  <2> DEFINE p == read.project = "none"
             q == read.project = "invalid"
             r == ~ read.enabled
             t == read.status \notin Checks!Attention
             u == read.status = "error"
             v == read.status = "needs runtime" /\ read.phase = "started"
             x == read.status = "needs runtime"
  <2>1. Of(Checks!First(<<
           Checks!Row(p, Checks!Check("ext.rules", "warn", "no project")),
           Checks!Row(q, Checks!Check("ext.rules", "warn", "unread")),
           Checks!Row(r, Checks!Check("ext.rules", "warn", "no groups")),
           Checks!Row(t, Checks!Check("ext.rules", "pass", "no attention")),
           Checks!Row(u, Checks!Check("ext.rules", "fail", "error")),
           Checks!Row(v, Checks!Check("ext.rules", "warn", "not routable")),
           Checks!Row(x, Checks!Check("ext.rules", "warn", "start the runtime")),
           Checks!Row(TRUE, Checks!Check("ext.rules", "warn", read.status))>>), "ext.rules")
    <3> HIDE DEF p, q, r, t, u, v, x
    <3> QED BY Rows8, Zenon
  <2> QED BY <2>1, Zenon DEF Checks!RulesCheck
<1> QED BY <1>1, <1>2, <1>3, <1>4, <1>5, <1>6

-------------------------------------------------------------------------------
(* The doctor: what the host replies, and what is read of it.              *)

\* A sequence of n checks that are in the order of ids.
InOrder(checks, ids, n) ==
  checks = [i \in 1 .. n |-> checks[i]] /\ \A i \in 1 .. n : Of(checks[i], ids[i])

LEMMA InOrderLen ==
  ASSUME NEW checks, NEW ids, NEW n \in Nat, InOrder(checks, ids, n)
  PROVE  checks \in Seq({checks[i] : i \in 1 .. n}) /\ Len(checks) = n /\ DOMAIN checks = 1 .. n
<1>1. checks = [i \in 1 .. n |-> checks[i]]
  BY DEF InOrder
<1>2. checks \in [1 .. n -> {checks[i] : i \in 1 .. n}]
  BY <1>1
<1>3. checks \in Seq({checks[i] : i \in 1 .. n})
  BY <1>2
<1> QED BY <1>1, <1>2, <1>3

LEMMA AiIsOptional ==
  ASSUME NEW i \in 1 .. 6
  PROVE  (Checks!Ids[i] = "ai") = (Checks!Ids[i] \notin Checks!Required)
<1>1. CASE i = 6
  BY <1>1 DEF Checks!Ids, Checks!Required
<1>2. CASE i \in 1 .. 5
  BY <1>2 DEF Checks!Ids, Checks!Required
<1> QED BY <1>1, <1>2

\* A sent check is read as the check that it names.
LEMMA CheckRead ==
  ASSUME NEW i \in 1 .. 6, NEW check, NEW status, NEW optional, NEW says,
         check = [id |-> Checks!Ids[i], status |-> status, optional |-> optional, says |-> says]
  PROVE  Checks!ReadCheck(check) = Checks!Check(Checks!Ids[i], status, says)
BY AiIsOptional DEF Checks!ReadCheck, Checks!Check

\* Six checks in order are read back, whatever the host's flags.
LEMMA ReplyRead ==
  ASSUME NEW checks, InOrder(checks, Checks!Ids, 6), NEW reply, reply # None,
         reply.checks = [i \in 1 .. 6 |-> reply.checks[i]],
         \A i \in 1 .. 6 : \E o : reply.checks[i] = [checks[i] EXCEPT !.optional = o]
  PROVE  Checks!ParseDoctorReport(reply) = Checks!Report(checks)
<1> DEFINE sent == reply.checks
<1>1. \A i \in 1 .. 6 :
        /\ sent[i].id = Checks!Ids[i]
        /\ Checks!ReadCheck(sent[i]) = checks[i]
  <2> SUFFICES ASSUME NEW i \in 1 .. 6
               PROVE  sent[i].id = Checks!Ids[i] /\ Checks!ReadCheck(sent[i]) = checks[i]
    OBVIOUS
  <2>1. PICK o : sent[i] = [checks[i] EXCEPT !.optional = o]
    OBVIOUS
  <2>2. checks[i] = Checks!Check(Checks!Ids[i], checks[i].status, checks[i].says)
    BY DEF InOrder, Of
  <2>3. sent[i] = [id |-> Checks!Ids[i], status |-> checks[i].status, optional |-> o,
                   says |-> checks[i].says]
    BY <2>1, <2>2 DEF Checks!Check
  <2> QED BY <2>2, <2>3, CheckRead
<1>2. Len(sent) = 6
  <2>1. sent \in [1 .. 6 -> {sent[i] : i \in 1 .. 6}]
    OBVIOUS
  <2>2. sent \in Seq({sent[i] : i \in 1 .. 6})
    BY <2>1
  <2> QED BY <2>1, <2>2
<1>3. [i \in 1 .. 6 |-> Checks!ReadCheck(sent[i])] = checks
  BY <1>1 DEF InOrder
<1> QED BY <1>1, <1>2, <1>3 DEF Checks!ParseDoctorReport

\* null is not a report of the host.
NoneIsNoReport == \A ok, checks : None # [ok |-> ok, checks |-> checks]

LEMMA InterruptedInOrder ==
  \E checks : /\ InOrder(checks, Checks!Ids, 6) /\ Checks!Interrupted = Checks!Report(checks)
              /\ \A i \in 1 .. 6 : checks[i].says = "not finished"
              /\ checks[1].status = "fail"
<1> DEFINE status(id) == IF id = "ai" THEN "warn" ELSE "fail"
           verdict(id) == Checks!Check(id, status(id), "not finished")
           checks == [i \in 1 .. 6 |-> verdict(Checks!Ids[i])]
<1>0. \A id : /\ Of(verdict(id), id) /\ verdict(id).says = "not finished"
              /\ verdict(id).status = status(id)
  <2>1. \A id, s : /\ Of(Checks!Check(id, s, "not finished"), id)
                   /\ Checks!Check(id, s, "not finished").says = "not finished"
                   /\ Checks!Check(id, s, "not finished").status = s
    BY DEF Of, Checks!Check
  <2> HIDE DEF status
  <2> QED BY <2>1, Zenon
<1>1. \A i \in 1 .. 6 : Of(checks[i], Checks!Ids[i]) /\ checks[i].says = "not finished"
  <2> HIDE DEF verdict
  <2> QED BY <1>0
<1>2. checks[1].status = "fail"
  <2>1. Checks!Ids[1] = "node"
    BY DEF Checks!Ids
  <2>2. checks[1] = verdict(Checks!Ids[1])
    OBVIOUS
  <2>3. verdict("node").status = "fail"
    BY <1>0
  <2> QED BY <2>1, <2>2, <2>3
<1>3. Checks!Interrupted = Checks!Report(checks)
  BY DEF Checks!Interrupted
<1>4. checks = [i \in 1 .. 6 |-> checks[i]]
  OBVIOUS
<1> HIDE DEF checks
<1> QED BY <1>1, <1>2, <1>3, <1>4 DEF InOrder

LEMMA ReportRead ==
  ASSUME NoneIsNoReport, NEW checks, InOrder(checks, Checks!Ids, 6)
  PROVE  Checks!ParseDoctorReport(Checks!Report(checks)) = Checks!Report(checks)
<1> DEFINE reply == Checks!Report(checks)
<1>1. reply # None /\ reply.checks = checks
  BY DEF Checks!Report, NoneIsNoReport
<1>2. \A i \in 1 .. 6 : \E o : checks[i] = [checks[i] EXCEPT !.optional = o]
  <2> SUFFICES ASSUME NEW i \in 1 .. 6 PROVE checks[i] = [checks[i] EXCEPT !.optional = checks[i].optional]
    OBVIOUS
  <2> QED BY DEF InOrder, Of, Checks!Check
<1> HIDE DEF reply
<1>3. Checks!ParseDoctorReport(reply) = Checks!Report(checks)
  BY <1>1, <1>2, ReplyRead DEF InOrder
<1> QED BY <1>3 DEF reply

\* Of all that a host may send, its report is read, that it was interrupted, or nothing.
LEMMA RepliesRead ==
  ASSUME NoneIsNoReport, NEW checks, InOrder(checks, Checks!Ids, 6),
         NEW reply \in Checks!Replies(Checks!Report(checks))
  PROVE  Checks!ParseDoctorReport(reply) \in {Checks!Report(checks), Checks!Interrupted, None}
<1> DEFINE report == Checks!Report(checks)
<1>0. report.checks = checks /\ report.ok = ~ Checks!Fails(checks)
  BY DEF Checks!Report
<1>1. CASE reply = report
  BY <1>1, ReportRead
<1>2. CASE reply = [ok |-> ~ report.ok, checks |-> report.checks]
  <2>1. reply # None /\ reply.checks = checks
    BY <1>0, <1>2 DEF NoneIsNoReport
  <2>2. \A i \in 1 .. 6 : \E o : checks[i] = [checks[i] EXCEPT !.optional = o]
    <3> SUFFICES ASSUME NEW i \in 1 .. 6 PROVE checks[i] = [checks[i] EXCEPT !.optional = checks[i].optional]
      OBVIOUS
    <3> QED BY DEF InOrder, Of, Checks!Check
  <2> QED BY <2>1, <2>2, ReplyRead DEF InOrder
<1>3. CASE reply = Checks!Interrupted
  <2>1. PICK six : InOrder(six, Checks!Ids, 6) /\ Checks!Interrupted = Checks!Report(six)
    BY InterruptedInOrder
  <2> QED BY <1>3, <2>1, ReportRead
<1>4. CASE reply = [ok |-> TRUE, checks |-> [i \in 1 .. 6 |-> [report.checks[i] EXCEPT !.optional = TRUE]]]
  <2>1. reply # None /\ reply.checks = [i \in 1 .. 6 |-> [checks[i] EXCEPT !.optional = TRUE]]
    BY <1>0, <1>4 DEF NoneIsNoReport
  <2>2. reply.checks = [i \in 1 .. 6 |-> reply.checks[i]]
    BY <2>1
  <2>3. \A i \in 1 .. 6 : \E o : reply.checks[i] = [checks[i] EXCEPT !.optional = o]
    BY <2>1
  <2> QED BY <2>1, <2>2, <2>3, ReplyRead
<1>5. CASE reply = [ok |-> TRUE, checks |-> SubSeq(report.checks, 1, 1)]
  <2>1. reply.checks = SubSeq(checks, 1, 1)
    BY <1>0, <1>5
  <2>2. Len(SubSeq(checks, 1, 1)) = 1
    BY InOrderLen
  <2> QED BY <2>1, <2>2 DEF Checks!ParseDoctorReport
<1>6. CASE reply = None
  BY <1>6 DEF Checks!ParseDoctorReport
<1> QED BY <1>1, <1>2, <1>3, <1>4, <1>5, <1>6 DEF Checks!Replies

-------------------------------------------------------------------------------
(* The doctor: what the page takes of the worker's report.                 *)

\* The page knows each of the worker's checks by its place.
LEMMA Places ==
  ASSUME NEW i \in 1 .. 9
  PROVE  Checks!Place(Checks!UiIds[i]) = i
<1>1. DOMAIN Checks!UiIds = 1 .. 9
  BY DEF Checks!UiIds
<1>2. \A k \in 1 .. 9 : Checks!UiIds[k] = Checks!UiIds[i] => k = i
  BY DEF Checks!UiIds
<1> QED BY <1>1, <1>2 DEF Checks!Place

LEMMA UiChecksRead ==
  ASSUME NEW i \in 1 .. 9, NEW check, Of(check, Checks!UiIds[i])
  PROVE  Checks!ReadUiCheck(check) = check
<1> DEFINE id == Checks!UiIds[i]
<1>1. (id \in {"ext.id", "ext.version", "ext.incognito", "ext.tab"}) = (id \notin Checks!Required)
  BY DEF Checks!UiIds, Checks!Required
<1>2. check.id = id /\ check.optional = (id \notin Checks!Required)
  BY DEF Of, Checks!Check
<1>3. check = [id |-> id, status |-> check.status, optional |-> (id \notin Checks!Required),
               says |-> check.says]
  BY DEF Of, Checks!Check
<1> HIDE DEF id
<1> QED BY <1>1, <1>2, <1>3 DEF Checks!ReadUiCheck

\* The page takes the report of the worker as it is.
LEMMA UiRead ==
  ASSUME NEW ui, NEW n \in 1 .. 9, InOrder(ui, Checks!UiIds, n),
         NEW heard, Checks!ParseDoctorReport(heard) = heard
  PROVE  Checks!ParseExtensionDoctor(Checks!Combined(ui, heard)) = Checks!Combined(ui, heard)
<1> DEFINE value == Checks!Combined(ui, heard)
<1>1. value.ui = ui /\ value.host = heard
  BY DEF Checks!Combined
<1>2. Len(ui) = n /\ DOMAIN ui = 1 .. n
  <2>1. n \in Nat
    OBVIOUS
  <2> QED BY <2>1, InOrderLen
<1>3. \A i \in 1 .. n : ui[i].id = Checks!UiIds[i]
  BY DEF InOrder, Of, Checks!Check
<1>4. ui[1].id = "ext.worker"
  BY <1>3 DEF Checks!UiIds
<1>5. \A i \in 1 .. n : Checks!Place(ui[i].id) = i
  BY <1>3, Places
<1>6. \A i \in DOMAIN value.ui :
        Checks!Place(value.ui[i].id) > (IF i = 1 THEN 0 ELSE Checks!Place(value.ui[i - 1].id))
  BY <1>1, <1>2, <1>5
<1>7. [i \in DOMAIN value.ui |-> Checks!ReadUiCheck(value.ui[i])] = ui
  <2>1. \A i \in 1 .. n : Checks!ReadUiCheck(ui[i]) = ui[i]
    BY UiChecksRead DEF InOrder
  <2> QED BY <1>1, <1>2, <2>1 DEF InOrder
<1>8. value.host = None \/ Checks!ParseDoctorReport(value.host) # None
  BY <1>1
<1> HIDE DEF value
<1>9. Checks!ParseExtensionDoctor(value) = Checks!Combined(ui, heard)
  BY <1>1, <1>2, <1>4, <1>6, <1>7, <1>8 DEF Checks!ParseExtensionDoctor
<1> QED BY <1>9 DEF value

-------------------------------------------------------------------------------
(* The doctor: a report and its host's in one.                             *)

\* A sequence of checks, each as required or optional as it is.
Judged(checks) ==
  \E n \in Nat : checks = [i \in 1 .. n |-> checks[i]] /\ \A i \in 1 .. n : Of(checks[i], checks[i].id)

LEMMA InOrderJudged ==
  ASSUME NEW checks, NEW ids, NEW n \in Nat, InOrder(checks, ids, n)
  PROVE  Judged(checks) /\ \A i \in 1 .. n : checks[i].id = ids[i]
<1>1. \A i \in 1 .. n : checks[i].id = ids[i]
  BY DEF InOrder, Of, Checks!Check
<1> QED BY <1>1 DEF Judged, InOrder

Bad(check) == check.status = "fail" /\ check.id \in Checks!Required

\* Of checks as required as they are, those fail that are required and failed.
LEMMA FailsAre ==
  ASSUME NEW checks, Judged(checks)
  PROVE  Checks!Fails(checks) <=> \E i \in DOMAIN checks : Bad(checks[i])
<1>1. \A i \in DOMAIN checks : checks[i].optional = (checks[i].id \notin Checks!Required)
  BY DEF Judged, Of, Checks!Check
<1>2. \A i \in DOMAIN checks : ~ checks[i].optional <=> checks[i].id \in Checks!Required
  BY <1>1
<1> QED BY <1>2 DEF Checks!Fails, Bad

\* c holds the elements of a and of b.
Joins(a, b, c) ==
  /\ \A i \in DOMAIN c : (\E j \in DOMAIN a : c[i] = a[j]) \/ (\E j \in DOMAIN b : c[i] = b[j])
  /\ \A j \in DOMAIN a : \E i \in DOMAIN c : c[i] = a[j]
  /\ \A j \in DOMAIN b : \E i \in DOMAIN c : c[i] = b[j]

LEMMA Both ==
  ASSUME NEW a, Judged(a), NEW b, Judged(b)
  PROVE  Joins(a, b, a \o b)
<1>1. PICK m \in Nat : a = [i \in 1 .. m |-> a[i]] /\ \A i \in 1 .. m : Of(a[i], a[i].id)
  BY DEF Judged
<1>2. PICK n \in Nat : b = [i \in 1 .. n |-> b[i]] /\ \A i \in 1 .. n : Of(b[i], b[i].id)
  BY DEF Judged
<1> DEFINE S == {a[i] : i \in 1 .. m} \cup {b[i] : i \in 1 .. n}
<1>3. a \in Seq(S) /\ Len(a) = m
  <2>1. a \in [1 .. m -> S]
    BY <1>1
  <2>2. a \in Seq(S)
    BY <2>1
  <2> QED BY <1>1, <2>2
<1>4. b \in Seq(S) /\ Len(b) = n
  <2>1. b \in [1 .. n -> S]
    BY <1>2
  <2>2. b \in Seq(S)
    BY <2>1
  <2> QED BY <1>2, <2>2
<1> HIDE DEF S
<1>5. a \o b = [i \in 1 .. m + n |-> IF i <= m THEN a[i] ELSE b[i - m]]
  <2>1. a \o b \in Seq(S) /\ Len(a \o b) = m + n
    BY <1>3, <1>4
  <2>2. \A i \in 1 .. m + n : (a \o b)[i] = IF i <= m THEN a[i] ELSE b[i - m]
    BY <1>3, <1>4
  <2>3. \A z \in Seq(S) : z = [i \in 1 .. Len(z) |-> z[i]]
    OBVIOUS
  <2>4. a \o b = [i \in 1 .. m + n |-> (a \o b)[i]]
    BY <2>1, <2>3
  <2> QED BY <2>2, <2>4
<1>6. DOMAIN (a \o b) = 1 .. m + n /\ DOMAIN a = 1 .. m /\ DOMAIN b = 1 .. n
  BY <1>1, <1>2, <1>5
<1>7. \A j \in 1 .. m : (a \o b)[j] = a[j]
  BY <1>5
<1>8. \A j \in 1 .. n : (a \o b)[j + m] = b[j]
  BY <1>5
<1>9. \A i \in 1 .. m + n : \/ i \in 1 .. m /\ (a \o b)[i] = a[i]
                            \/ i - m \in 1 .. n /\ (a \o b)[i] = b[i - m]
  BY <1>5
<1> DEFINE c == a \o b
<1> HIDE DEF c
<1>10. Joins(a, b, c)
  <2>1. DOMAIN c = 1 .. m + n
    BY <1>6 DEF c
  <2>2. /\ \A j \in 1 .. m : c[j] = a[j]
        /\ \A j \in 1 .. n : c[j + m] = b[j]
        /\ \A i \in 1 .. m + n :
             (i \in 1 .. m /\ c[i] = a[i]) \/ (i - m \in 1 .. n /\ c[i] = b[i - m])
    BY <1>7, <1>8, <1>9 DEF c
  <2>3. \A j \in 1 .. n : j + m \in 1 .. m + n
    OBVIOUS
  <2>4. \A j \in 1 .. m : j \in 1 .. m + n
    OBVIOUS
  <2> QED BY <1>6, <2>1, <2>2, <2>3, <2>4 DEF Joins
<1> QED BY <1>10 DEF c

\* The check c comes after the first n, and they are m then.
Grows(checks, c, longer, ids, n, m) ==
  /\ InOrder(longer, ids, m)
  /\ longer[m] = c /\ \A i \in 1 .. n : longer[i] = checks[i]

LEMMA OneMore ==
  ASSUME NEW checks, NEW ids, NEW n \in Nat, InOrder(checks, ids, n),
         NEW m, m = n + 1, NEW c, Of(c, ids[m])
  PROVE  /\ \E longer : longer = checks \o <<c>> /\ Grows(checks, c, longer, ids, n, m)
         /\ Grows(checks, c, Append(checks, c), ids, n, m) /\ checks \o <<>> = checks
<1> DEFINE S == {checks[i] : i \in 1 .. n} \cup {c}
<1>1. checks \in Seq({checks[i] : i \in 1 .. n}) /\ Len(checks) = n /\ DOMAIN checks = 1 .. n
  BY InOrderLen
<1>2. checks \in Seq(S) /\ c \in S
  <2>1. checks \in [1 .. n -> S]
    BY DEF InOrder
  <2> QED BY <2>1
<1> HIDE DEF S
<1>3. \A z \in Seq(S) : z \o <<>> = z
  OBVIOUS
<1>4. Append(checks, c) \in Seq(S) /\ Len(Append(checks, c)) = n + 1
  BY <1>1, <1>2
<1>5. /\ \A i \in 1 .. n : Append(checks, c)[i] = checks[i]
      /\ Append(checks, c)[n + 1] = c
  BY <1>1, <1>2
<1>6. \A z \in Seq(S) : z = [i \in 1 .. Len(z) |-> z[i]]
  OBVIOUS
<1>7. Append(checks, c) = [i \in 1 .. n + 1 |-> Append(checks, c)[i]]
  BY <1>4, <1>6
<1>8. InOrder(Append(checks, c), ids, n + 1)
  BY <1>5, <1>7 DEF InOrder
<1>9. Append(checks, c) = checks \o <<c>>
  BY <1>1, <1>2
<1> QED BY <1>2, <1>3, <1>5, <1>8, <1>9 DEF Grows

\* A report is fine if none of its required checks failed, its host's included, and
\* shows those checks and no others.
LEMMA CombinedTells ==
  ASSUME NoneIsNoReport, NEW ui, Judged(ui), NEW heard,
         heard = None \/ \E checks : Judged(checks) /\ heard = Checks!Report(checks)
  PROVE  LET r == Checks!Combined(ui, heard)
         IN  /\ r.ok = ~ \E i \in DOMAIN Checks!All(r) : Bad(Checks!All(r)[i])
             /\ \A i \in DOMAIN Checks!All(r) :
                  \/ \E j \in DOMAIN ui : Checks!All(r)[i] = ui[j]
                  \/ heard # None /\ \E j \in DOMAIN heard.checks : Checks!All(r)[i] = heard.checks[j]
<1> DEFINE r == Checks!Combined(ui, heard)
           all == Checks!All(r)
<1>1. r.ui = ui /\ r.host = heard /\ r.ok = (~ Checks!Fails(ui) /\ (heard = None \/ heard.ok))
  BY DEF Checks!Combined
<1>2. CASE heard = None
  <2>1. all = ui
    <3>1. all = ui \o <<>>
      BY <1>1, <1>2 DEF Checks!All
    <3>2. PICK n \in Nat : ui = [i \in 1 .. n |-> ui[i]]
      BY DEF Judged
    <3>3. ui \in Seq({ui[i] : i \in 1 .. n})
      <4>1. ui \in [1 .. n -> {ui[i] : i \in 1 .. n}]
        BY <3>2
      <4> QED BY <4>1
    <3>4. \A S : \A z \in Seq(S) : z \o <<>> = z
      OBVIOUS
    <3> QED BY <3>1, <3>3, <3>4
  <2>2. r.ok = ~ Checks!Fails(ui)
    BY <1>1, <1>2
  <2> HIDE DEF r, all
  <2>3. r.ok = ~ \E i \in DOMAIN all : Bad(all[i])
    BY <2>1, <2>2, FailsAre
  <2>4. \A i \in DOMAIN all : \E j \in DOMAIN ui : all[i] = ui[j]
    BY <2>1
  <2> QED BY <2>3, <2>4 DEF r, all
<1>3. CASE heard # None
  <2>1. PICK checks : Judged(checks) /\ heard = Checks!Report(checks)
    BY <1>3
  <2>2. heard.checks = checks /\ heard.ok = ~ Checks!Fails(checks)
    BY <2>1 DEF Checks!Report
  <2>3. all = ui \o checks
    BY <1>1, <1>3, <2>2 DEF Checks!All
  <2>4. r.ok = (~ Checks!Fails(ui) /\ ~ Checks!Fails(checks))
    BY <1>1, <1>3, <2>2
  <2> HIDE DEF r, all
  <2>7. Joins(ui, checks, all)
    BY <2>1, <2>3, Both
  <2>5. r.ok = ~ \E i \in DOMAIN all : Bad(all[i])
    <3>1. (Checks!Fails(ui) \/ Checks!Fails(checks)) <=> \E i \in DOMAIN all : Bad(all[i])
      BY <2>1, <2>7, FailsAre DEF Joins
    <3> QED BY <2>4, <3>1
  <2>6. \A i \in DOMAIN all : \/ \E j \in DOMAIN ui : all[i] = ui[j]
                              \/ \E j \in DOMAIN checks : all[i] = checks[j]
    BY <2>7 DEF Joins
  <2> QED BY <1>3, <2>2, <2>5, <2>6 DEF r, all
<1> QED BY <1>2, <1>3

\* The report that the command prints.
LEMMA PrintedTells ==
  ASSUME NoneIsNoReport, NEW checks, Judged(checks)
  PROVE  LET r == [ok |-> Checks!Report(checks).ok, ui |-> <<>>, host |-> Checks!Report(checks)]
         IN  /\ r.ok = ~ \E i \in DOMAIN Checks!All(r) : Bad(Checks!All(r)[i])
             /\ Checks!All(r) = checks
<1> DEFINE r == [ok |-> Checks!Report(checks).ok, ui |-> <<>>, host |-> Checks!Report(checks)]
           all == Checks!All(r)
<1>1. r.ok = ~ Checks!Fails(checks)
  BY DEF Checks!Report
<1>2. all = <<>> \o checks
  BY DEF Checks!Report, Checks!All, NoneIsNoReport
<1>3. all = checks
  <2>1. PICK n \in Nat : checks = [i \in 1 .. n |-> checks[i]]
    BY DEF Judged
  <2>2. checks \in Seq({checks[i] : i \in 1 .. n})
    <3>1. checks \in [1 .. n -> {checks[i] : i \in 1 .. n}]
      BY <2>1
    <3> QED BY <3>1
  <2>3. \A S : \A z \in Seq(S) : <<>> \o z = z
    OBVIOUS
  <2> QED BY <1>2, <2>2, <2>3
<1> HIDE DEF r, all
<1>4. r.ok = ~ \E i \in DOMAIN all : Bad(all[i])
  BY <1>1, <1>3, FailsAre
<1> QED BY <1>3, <1>4 DEF r, all

-------------------------------------------------------------------------------
(* The doctor: the checks that each surface builds.                        *)

\* And with the checks that need no table.
LEMMA ShortChecks ==
  ASSUME NEW native, NEW w, NEW cli, NEW id, NEW value, NEW tab, NEW file, NEW root
  PROVE  /\ Of(Checks!NativeCheck(native), "ext.native")
         /\ Of(Checks!IdCheck(w), "ext.id")
         /\ Of(Checks!VersionCheck(w, cli), "ext.version")
         /\ Of(Checks!Allowed(id, value), id)
         /\ Of(Checks!TabCheck(tab), "ext.tab")
         /\ Of(Checks!FileCheck(file), "project") /\ Of(Checks!ActiveCheck(file), "project")
         /\ Of(Checks!PacCheck(w), "pac") /\ Of(Checks!AiCheck(w), "ai")
         /\ Of(Checks!DraftCheck(file), "editor.project")
         /\ Of(Checks!MockRootCheck(root), "editor.mockRoot")
<1>1. Of(Checks!DraftCheck(file), "editor.project")
  <2>1. PICK status, says : Checks!FileCheck(file) = Checks!Check("project", status, says)
    BY DEF Checks!FileCheck
  <2>2. "project" \in Checks!Required /\ "editor.project" \in Checks!Required
    BY DEF Checks!Required
  <2>3. Checks!DraftCheck(file) = Checks!Check("editor.project", status, says)
    BY <2>1, <2>2 DEF Checks!DraftCheck, Checks!Check
  <2> QED BY <2>3, ChecksAre
<1>2. Of(Checks!VersionCheck(w, cli), "ext.version")
  BY ChecksAre DEF Checks!VersionCheck
<1>3. /\ Of(Checks!NativeCheck(native), "ext.native")
      /\ Of(Checks!IdCheck(w), "ext.id")
      /\ Of(Checks!Allowed(id, value), id)
      /\ Of(Checks!TabCheck(tab), "ext.tab")
  BY ChecksAre DEF Checks!NativeCheck, Checks!IdCheck, Checks!Allowed, Checks!TabCheck
<1>4. Of(Checks!FileCheck(file), "project") /\ Of(Checks!ActiveCheck(file), "project")
  BY ChecksAre DEF Checks!FileCheck, Checks!ActiveCheck
<1>5. Of(Checks!PacCheck(w), "pac") /\ Of(Checks!AiCheck(w), "ai")
  BY ChecksAre DEF Checks!PacCheck, Checks!AiCheck
<1>6. Of(Checks!MockRootCheck(root), "editor.mockRoot")
  BY ChecksAre DEF Checks!MockRootCheck
<1> QED BY <1>1, <1>2, <1>3, <1>4, <1>5, <1>6

\* The first four checks of a run.
LEMMA FirstFour ==
  ASSUME NEW w, NEW verified
  PROVE  /\ InOrder(Checks!Early(w, verified), Checks!Ids, 4)
         /\ Checks!Early(w, verified)[2] =
              IF asker \in Checks!Extension THEN Checks!ActiveCheck(facts.project)
              ELSE Checks!FileCheck(w.file)
<1> DEFINE b == Checks!NodeCheck(w, asker = "cli")
           c == IF asker \in Checks!Extension THEN Checks!ActiveCheck(facts.project)
                ELSE Checks!FileCheck(w.file)
           d == Checks!HostCheck(verified, Checks!OwnId(w))
           e == Checks!CaCheck(verified)
<1>1. Of(b, "node") /\ Of(c, "project") /\ Of(d, "host") /\ Of(e, "ca")
  <2>1. Of(b, "node") /\ Of(d, "host") /\ Of(e, "ca")
    BY Tables
  <2>2. Of(c, "project")
    BY ShortChecks
  <2> QED BY <2>1, <2>2
<1>2. Checks!Early(w, verified) = <<b, c, d, e>>
  BY DEF Checks!Early
<1> HIDE DEF b, c, d, e
<1>3. InOrder(<<b, c, d, e>>, Checks!Ids, 4)
  BY <1>1 DEF InOrder, Checks!Ids
<1> QED BY <1>2, <1>3 DEF c

\* What the worker makes of its facts: its checks, and the host's report.
WorkerBuilds(w, read, ui, n) ==
  /\ n \in {8, 9} /\ InOrder(ui, Checks!UiIds, n)
  /\ Checks!BuildExtensionDoctor(w, read) =
       Checks!Combined(ui, IF read.native = "ok" THEN read.host ELSE None)
  /\ ui[2] = Checks!NativeCheck(Checks!NativeOf(read))
  /\ ui[5] = Checks!ProxyCheck(read.phase, w.proxy)
  /\ ui[7] = Checks!RulesCheck(read)
  /\ n = 9 => read.tab # None /\ ui[9] = Checks!TabCheck(read.tab)

LEMMA WorkerUi ==
  ASSUME NEW w, NEW read
  PROVE  \E ui, n : WorkerBuilds(w, read, ui, n)
<1> DEFINE a == Checks!Check("ext.worker", "pass", "answered")
           b == Checks!NativeCheck(Checks!NativeOf(read))
           c == Checks!IdCheck(w)
           d == Checks!VersionCheck(w, IF Checks!NativeOf(read) = "ok" THEN read.cli ELSE None)
           e == Checks!ProxyCheck(read.phase, w.proxy)
           f == Checks!Allowed("ext.access", w.access)
           g == Checks!RulesCheck(read)
           h == Checks!Allowed("ext.incognito", w.incognito)
           t == Checks!TabCheck(read.tab)
           heard == IF read.native = "ok" THEN read.host ELSE None
           first == <<a, b, c, d, e, f, g, h>>
<1>1. /\ Of(a, "ext.worker") /\ Of(b, "ext.native") /\ Of(c, "ext.id") /\ Of(d, "ext.version")
      /\ Of(e, "ext.proxy") /\ Of(f, "ext.access") /\ Of(g, "ext.rules") /\ Of(h, "ext.incognito")
      /\ Of(t, "ext.tab")
  <2>1. Of(a, "ext.worker")
    BY ChecksAre
  <2>2. Of(b, "ext.native") /\ Of(c, "ext.id") /\ Of(f, "ext.access") /\ Of(h, "ext.incognito")
        /\ Of(t, "ext.tab")
    BY ShortChecks
  <2>3. Of(d, "ext.version")
    BY ShortChecks
  <2>4. Of(e, "ext.proxy") /\ Of(g, "ext.rules")
    BY Tables
  <2> QED BY <2>1, <2>2, <2>3, <2>4
<1>2. Checks!BuildExtensionDoctor(w, read) =
        Checks!Combined(first \o (IF read.tab = None THEN <<>> ELSE <<t>>), heard)
  BY DEF Checks!BuildExtensionDoctor
<1> HIDE DEF a, b, c, d, e, f, g, h, t, heard
<1>3. InOrder(first, Checks!UiIds, 8)
  BY <1>1 DEF InOrder, Checks!UiIds
<1>4. first[2] = b /\ first[5] = e /\ first[7] = g
  OBVIOUS
<1> HIDE DEF first
<1>5. Checks!UiIds[9] = "ext.tab"
  BY DEF Checks!UiIds
<1>6. /\ \E longer : longer = first \o <<t>> /\ Grows(first, t, longer, Checks!UiIds, 8, 9)
      /\ first \o <<>> = first
  <2>1. Of(t, Checks!UiIds[9])
    BY <1>1, <1>5
  <2>2. 8 \in Nat /\ 9 = 8 + 1
    OBVIOUS
  <2> QED BY <1>3, <2>1, <2>2, OneMore
<1>7. CASE read.tab = None
  <2>1. WorkerBuilds(w, read, first, 8)
    BY <1>2, <1>3, <1>4, <1>6, <1>7 DEF WorkerBuilds, b, e, g, heard
  <2> QED BY <2>1
<1>8. CASE read.tab # None
  <2>8. PICK longer : longer = first \o <<t>> /\ Grows(first, t, longer, Checks!UiIds, 8, 9)
    BY <1>6
  <2>9. Grows(first, t, longer, Checks!UiIds, 8, 9)
    BY <2>8
  <2>1. WorkerBuilds(w, read, longer, 9)
    <3>1. /\ InOrder(longer, Checks!UiIds, 9)
          /\ longer[2] = b /\ longer[5] = e /\ longer[7] = g
          /\ longer[9] = t
      BY <1>4, <2>9 DEF Grows
    <3>2. Checks!BuildExtensionDoctor(w, read) = Checks!Combined(longer, heard)
      BY <1>2, <1>8, <2>8
    <3> QED BY <3>1, <3>2, <1>8 DEF WorkerBuilds, b, e, g, t, heard
  <2> QED BY <2>1
<1> QED BY <1>7, <1>8

EditorIds == <<"editor.server", "editor.session", "editor.project", "editor.ai", "editor.mockRoot">>
EditorBuilds(w, read, ui, n) ==
  /\ n \in {4, 5} /\ InOrder(ui, EditorIds, n)
  /\ Checks!BuildEditorDoctor(w, read) = Checks!Combined(ui, read.host)
  /\ ui[4] = Checks!AssistCheck(w.assist, read.configured)
  /\ n = 5 => ui[5] = Checks!MockRootCheck(w.root)

LEMMA EditorUi ==
  ASSUME NEW w, NEW read
  PROVE  \E ui, n : EditorBuilds(w, read, ui, n)
<1> DEFINE a == Checks!Check("editor.server", "pass", "answered")
           b == Checks!Check("editor.session", "pass", "accepted")
           c == Checks!DraftCheck(read.draft)
           d == Checks!AssistCheck(w.assist, read.configured)
           e == Checks!MockRootCheck(w.root)
           first == <<a, b, c, d>>
<1>1. /\ Of(a, "editor.server") /\ Of(b, "editor.session") /\ Of(c, "editor.project")
      /\ Of(d, "editor.ai") /\ Of(e, "editor.mockRoot")
  <2>1. Of(a, "editor.server") /\ Of(b, "editor.session")
    BY ChecksAre
  <2>2. Of(c, "editor.project") /\ Of(e, "editor.mockRoot")
    BY ShortChecks
  <2>3. Of(d, "editor.ai")
    BY Tables
  <2> QED BY <2>1, <2>2, <2>3
<1>2. Checks!BuildEditorDoctor(w, read) =
        Checks!Combined(first \o (IF read.draft = "mock" THEN <<e>> ELSE <<>>), read.host)
  BY DEF Checks!BuildEditorDoctor
<1> HIDE DEF a, b, c, d, e
<1>3. InOrder(first, EditorIds, 4)
  BY <1>1 DEF InOrder, EditorIds
<1>4. first[4] = d
  OBVIOUS
<1> HIDE DEF first
<1>5. EditorIds[5] = "editor.mockRoot"
  BY DEF EditorIds
<1>6. /\ \E longer : longer = first \o <<e>> /\ Grows(first, e, longer, EditorIds, 4, 5)
      /\ first \o <<>> = first
  <2>1. Of(e, EditorIds[5])
    BY <1>1, <1>5
  <2>2. 4 \in Nat /\ 5 = 4 + 1
    OBVIOUS
  <2> QED BY <1>3, <2>1, <2>2, OneMore
<1>7. CASE read.draft # "mock"
  <2>1. EditorBuilds(w, read, first, 4)
    BY <1>2, <1>3, <1>4, <1>6, <1>7 DEF EditorBuilds, d
  <2> QED BY <2>1
<1>8. CASE read.draft = "mock"
  <2>8. PICK longer : longer = first \o <<e>> /\ Grows(first, e, longer, EditorIds, 4, 5)
    BY <1>6
  <2>9. Grows(first, e, longer, EditorIds, 4, 5)
    BY <2>8
  <2>1. EditorBuilds(w, read, longer, 5)
    <3>1. /\ InOrder(longer, EditorIds, 5)
          /\ longer[4] = d /\ longer[5] = e
      BY <1>4, <2>9 DEF Grows
    <3>2. Checks!BuildEditorDoctor(w, read) = Checks!Combined(longer, read.host)
      BY <1>2, <1>8, <2>8
    <3> QED BY <3>1, <3>2 DEF EditorBuilds, d, e
  <2> QED BY <2>1
<1> QED BY <1>7, <1>8

-------------------------------------------------------------------------------
(* The doctor: what was so at some moment of the run.                      *)

\* There was a moment of the run at which the check had this verdict.
WasSo(check) == \E w \in seen : check \in Checks!Verdicts(w)

WorldsInv ==
  /\ world \in seen
  /\ \A w \in seen : w = [f \in Checks!MachineFacts |-> w[f]] /\ w.assist = world.assist

\* The parts of what was read each come from one moment.
ProjectRead ==
  \E w \in seen : /\ facts.project = w.project /\ facts.rule = w.rule
                  /\ facts.enabled = w.enabled /\ facts.root = w.root
StatusRead ==
  \E w \in seen :
    facts.status = IF facts.project \in Checks!Compiled
                   THEN Checks!RuleStatus(facts.rule, facts.enabled, facts.root, w.installed, w.phase)
                   ELSE None
PhaseRead == \E w \in seen : facts.phase = w.phase
TabRead == facts.tab = None \/ \E w \in seen : facts.tab = Checks!TabOf(w, facts)
ConfigRead == \E w \in seen : facts.configured = (w.ai # "none")

\* A fact that did not change was always as it is.
LEMMA Constant ==
  ASSUME WorldsInv, NEW f \in Checks!MachineFacts, f \notin Checks!Changed
  PROVE  \A w \in seen : w[f] = world[f]
BY DEF WorldsInv, Checks!Changed

\* The verdicts that combine facts of two moments, while at most one of them changes.
LEMMA ProxySo ==
  ASSUME WorldsInv, PhaseRead, Checks!Steady("ext.proxy")
  PROVE  WasSo(Checks!ProxyCheck(facts.phase, world.proxy))
<1>1. PICK w \in seen : facts.phase = w.phase
  BY DEF PhaseRead
<1>3. "phase" \notin Checks!Changed \/ "proxy" \notin Checks!Changed
  BY DEF Checks!Steady, Checks!AtMostOne
<1>4. "phase" \in Checks!MachineFacts /\ "proxy" \in Checks!MachineFacts
  BY DEF Checks!MachineFacts
<1>5. \/ facts.phase = world.phase
      \/ world.proxy = w.proxy
  BY <1>1, <1>3, <1>4, Constant DEF WorldsInv
<1>6. \A v \in seen : Checks!ProxyCheck(v.phase, v.proxy) \in Checks!Verdicts(v)
  BY DEF Checks!Verdicts
<1>7. \E v \in seen : facts.phase = v.phase /\ world.proxy = v.proxy
  BY <1>1, <1>5 DEF WorldsInv
<1> QED BY <1>6, <1>7 DEF WasSo

LEMMA ReadIs ==
  ASSUME NEW v
  PROVE  /\ Checks!Read(v).project = v.project /\ Checks!Read(v).enabled = v.enabled
         /\ Checks!Read(v).phase = v.phase /\ Checks!Read(v).configured = (v.ai # "none")
         /\ Checks!Read(v).status =
              IF v.project \in Checks!Compiled
              THEN Checks!RuleStatus(v.rule, v.enabled, v.root, v.installed, v.phase) ELSE None
BY DEF Checks!Read, Checks!Nothing

\* What was read of the project and its rules is so in v.
AsIn(v) ==
  /\ facts.project = Checks!Read(v).project /\ facts.enabled = Checks!Read(v).enabled
  /\ facts.status = Checks!Read(v).status

\* One of the facts changed at most, and there was a moment that shows all of them.
LEMMA RulesAt ==
  ASSUME WorldsInv, ProjectRead, StatusRead,
         Checks!AtMostOne(Checks!Changed \cap (Checks!RuleFacts \cup {"phase"}))
  PROVE  \E v \in seen : AsIn(v)
<1>1. PICK x \in seen : /\ facts.project = x.project /\ facts.rule = x.rule
                        /\ facts.enabled = x.enabled /\ facts.root = x.root
  BY DEF ProjectRead
<1>2. PICK y \in seen :
        facts.status = IF facts.project \in Checks!Compiled
                       THEN Checks!RuleStatus(facts.rule, facts.enabled, facts.root, y.installed, y.phase)
                       ELSE None
  BY DEF StatusRead
<1>3. Checks!RuleFacts \cup {"phase"} \subseteq Checks!MachineFacts
  BY DEF Checks!RuleFacts, Checks!MachineFacts
<1>4. CASE "installed" \in Checks!Changed \/ "phase" \in Checks!Changed
  <2>1. \A f \in {"project", "rule", "enabled", "root"} : f \notin Checks!Changed
    BY <1>4 DEF Checks!AtMostOne, Checks!RuleFacts
  <2>2. \A f \in {"project", "rule", "enabled", "root"} : x[f] = world[f] /\ y[f] = world[f]
    BY <1>3, <2>1, Constant DEF Checks!RuleFacts
  <2>3. /\ x.project = y.project /\ x.rule = y.rule /\ x.enabled = y.enabled /\ x.root = y.root
    BY <2>2
  <2>4. AsIn(y)
    BY <1>1, <1>2, <2>3, ReadIs DEF AsIn
  <2> QED BY <2>4
<1>5. CASE "installed" \notin Checks!Changed /\ "phase" \notin Checks!Changed
  <2>1. \A f \in {"installed", "phase"} : x[f] = world[f] /\ y[f] = world[f]
    BY <1>3, <1>5, Constant DEF Checks!RuleFacts
  <2>2. x.installed = y.installed /\ x.phase = y.phase
    BY <2>1
  <2>3. AsIn(x)
    BY <1>1, <1>2, <2>2, ReadIs DEF AsIn
  <2> QED BY <2>3
<1> QED BY <1>4, <1>5

LEMMA RulesSo ==
  ASSUME WorldsInv, ProjectRead, StatusRead, PhaseRead, Checks!Steady("ext.rules")
  PROVE  WasSo(Checks!RulesCheck(facts))
<1>1. "phase" \notin Checks!Changed /\ Checks!AtMostOne(Checks!Changed \cap Checks!RuleFacts)
  BY DEF Checks!Steady
<1>2. Checks!AtMostOne(Checks!Changed \cap (Checks!RuleFacts \cup {"phase"}))
  BY <1>1 DEF Checks!AtMostOne
<1>3. PICK v \in seen : AsIn(v)
  BY <1>2, RulesAt
<1>4. "phase" \in Checks!MachineFacts
  BY DEF Checks!MachineFacts
<1>5. facts.phase = v.phase
  <2>1. PICK w \in seen : facts.phase = w.phase
    BY DEF PhaseRead
  <2>2. \A u \in seen : u["phase"] = world["phase"]
    BY <1>1, <1>4, Constant
  <2>3. w["phase"] = world["phase"] /\ v["phase"] = world["phase"]
    BY <1>3, <2>2
  <2> QED BY <2>1, <2>3
<1>6. Checks!RulesCheck(facts) = Checks!RulesCheck(Checks!Read(v))
  <2>1. PICK read : read = Checks!Read(v)
    OBVIOUS
  <2>2. /\ facts.project = read.project /\ facts.enabled = read.enabled
        /\ facts.status = read.status /\ facts.phase = read.phase
    BY <1>3, <1>5, <2>1, ReadIs DEF AsIn
  <2>3. Checks!RulesCheck(facts) = Checks!RulesCheck(read)
    BY <2>2 DEF Checks!RulesCheck
  <2> QED BY <2>1, <2>3
<1>7. Checks!RulesCheck(Checks!Read(v)) \in Checks!Verdicts(v)
  BY DEF Checks!Verdicts
<1> QED BY <1>6, <1>7 DEF WasSo

LEMMA TabSo ==
  ASSUME WorldsInv, ProjectRead, StatusRead, TabRead, facts.tab # None, Checks!Steady("ext.tab")
  PROVE  WasSo(Checks!TabCheck(facts.tab))
<1>1. PICK z \in seen : facts.tab = Checks!TabOf(z, facts)
  BY DEF TabRead
<1>2. Checks!AtMostOne(Checks!Changed \cap (Checks!RuleFacts \cup {"phase", "tab"}))
  BY DEF Checks!Steady
<1>3. "tab" \in Checks!MachineFacts /\ "tab" \notin Checks!RuleFacts \cup {"phase"}
      /\ Checks!RuleFacts \cup {"phase"} \subseteq Checks!MachineFacts
  BY DEF Checks!MachineFacts, Checks!RuleFacts
<1>4. \E v \in seen : AsIn(v) /\ v.tab = z.tab
  <2>1. CASE "tab" \in Checks!Changed
    <3>1. \A f \in Checks!RuleFacts \cup {"phase"} : f \notin Checks!Changed
      BY <1>2, <1>3, <2>1 DEF Checks!AtMostOne
    <3>2. PICK v \in seen : AsIn(v)
      BY <3>1, RulesAt DEF Checks!AtMostOne
    <3>3. \A f \in Checks!RuleFacts \cup {"phase"} : v[f] = z[f]
      BY <1>3, <3>1, Constant
    <3>4. /\ v.project = z.project /\ v.rule = z.rule /\ v.enabled = z.enabled
          /\ v.root = z.root /\ v.installed = z.installed /\ v.phase = z.phase
      BY <3>3 DEF Checks!RuleFacts
    <3>5. AsIn(z)
      BY <3>2, <3>4, ReadIs DEF AsIn
    <3> QED BY <3>5
  <2>2. CASE "tab" \notin Checks!Changed
    <3>1. Checks!AtMostOne(Checks!Changed \cap (Checks!RuleFacts \cup {"phase"}))
      BY <1>2 DEF Checks!AtMostOne
    <3>2. PICK v \in seen : AsIn(v)
      BY <3>1, RulesAt
    <3>3. v.tab = z.tab
      BY <1>3, <2>2, Constant
    <3> QED BY <3>2, <3>3
  <2> QED BY <2>1, <2>2
<1>5. PICK v \in seen : AsIn(v) /\ v.tab = z.tab
  BY <1>4
<1>6. Checks!TabOf(z, facts) = Checks!TabOf(v, Checks!Read(v))
  BY <1>5 DEF AsIn, Checks!TabOf
<1>7. Checks!TabCheck(Checks!TabOf(v, Checks!Read(v))) \in Checks!Verdicts(v)
  BY DEF Checks!Verdicts
<1> QED BY <1>1, <1>6, <1>7 DEF WasSo

LEMMA EditorSo ==
  ASSUME WorldsInv, ConfigRead
  PROVE  WasSo(Checks!AssistCheck(world.assist, facts.configured))
         /\ WasSo(Checks!MockRootCheck(world.root))
<1>1. PICK w \in seen : facts.configured = (w.ai # "none")
  BY DEF ConfigRead
<1>2. w.assist = world.assist
  BY DEF WorldsInv
<1>3. facts.configured = Checks!Read(w).configured
  BY <1>1, ReadIs
<1>4. Checks!AssistCheck(w.assist, Checks!Read(w).configured) \in Checks!Verdicts(w)
  BY DEF Checks!Verdicts
<1>5. Checks!MockRootCheck(world.root) \in Checks!Verdicts(world)
  BY DEF Checks!Verdicts
<1> QED BY <1>2, <1>3, <1>4, <1>5 DEF WasSo, WorldsInv

-------------------------------------------------------------------------------
(* The doctor: the reports.                                                *)

Timely == {"project", "pac", "ai"}

\* The host's first n checks were made, in their order, and each was so.
HostChecked(n) ==
  /\ InOrder(facts.checks, Checks!Ids, n)
  /\ \A i \in 1 .. n : Checks!Ids[i] \in Timely => WasSo(facts.checks[i])

\* What the extension has heard of the host: nothing, its report, or that it was cut off.
HostHeard ==
  \/ facts.host = None
  \/ HostChecked(6) /\ facts.host \in {Checks!Report(facts.checks), Checks!Interrupted}

Tells(r) == r.ok = ~ \E i \in DOMAIN Checks!All(r) : Bad(Checks!All(r)[i])
DatedSo(check) ==
  check.id \in Checks!Dated /\ check.says # "not finished" /\ Checks!Steady(check.id) => WasSo(check)

\* A report as NoFailureHidden and VerdictsWereSo want it.
FineReport(r) ==
  /\ Tells(r)
  /\ r.ok /\ asker \in Checks!Extension => Len(facts.checks) = 6 /\ ~ Checks!Fails(facts.checks)
  /\ \A i \in DOMAIN Checks!All(r) : DatedSo(Checks!All(r)[i])

LEMMA HostSo ==
  ASSUME HostChecked(6)
  PROVE  /\ Judged(facts.checks) /\ DOMAIN facts.checks = 1 .. 6 /\ Len(facts.checks) = 6
         /\ \A j \in DOMAIN facts.checks : DatedSo(facts.checks[j])
<1>1. InOrder(facts.checks, Checks!Ids, 6) /\ 6 \in Nat
  BY DEF HostChecked
<1>2. Judged(facts.checks) /\ \A j \in 1 .. 6 : facts.checks[j].id = Checks!Ids[j]
  BY <1>1, InOrderJudged
<1>3. DOMAIN facts.checks = 1 .. 6 /\ Len(facts.checks) = 6
  BY <1>1, InOrderLen
<1>4. \A j \in 1 .. 6 : Checks!Ids[j] \in Checks!Dated => Checks!Ids[j] \in Timely
  BY DEF Checks!Ids, Checks!Dated, Timely
<1> QED BY <1>2, <1>3, <1>4 DEF HostChecked, DatedSo

LEMMA InterruptedSo ==
  /\ \E checks : Judged(checks) /\ Checks!Interrupted = Checks!Report(checks)
  /\ \A j \in DOMAIN Checks!Interrupted.checks : DatedSo(Checks!Interrupted.checks[j])
  /\ Checks!Interrupted.ok = FALSE
<1>1. PICK checks : /\ InOrder(checks, Checks!Ids, 6) /\ Checks!Interrupted = Checks!Report(checks)
                    /\ \A i \in 1 .. 6 : checks[i].says = "not finished"
                    /\ checks[1].status = "fail"
  BY InterruptedInOrder
<1>2. 6 \in Nat
  OBVIOUS
<1>3. Judged(checks) /\ \A j \in 1 .. 6 : checks[j].id = Checks!Ids[j]
  BY <1>1, <1>2, InOrderJudged
<1>4. DOMAIN checks = 1 .. 6
  BY <1>1, <1>2, InOrderLen
<1>5. Checks!Interrupted.checks = checks /\ Checks!Interrupted.ok = ~ Checks!Fails(checks)
  BY <1>1 DEF Checks!Report
<1>6. Bad(checks[1])
  <2>1. Checks!Ids[1] = "node" /\ "node" \in Checks!Required
    BY DEF Checks!Ids, Checks!Required
  <2>2. checks[1].id = "node"
    BY <1>3, <2>1
  <2> QED BY <1>1, <2>1, <2>2 DEF Bad
<1>7. Checks!Fails(checks)
  BY <1>3, <1>4, <1>6, FailsAre
<1> QED BY <1>1, <1>3, <1>4, <1>5, <1>7 DEF DatedSo

\* What the worker builds of what it read and heard.
LEMMA BrowserShows ==
  ASSUME NoneIsNoReport, WorldsInv, ProjectRead, StatusRead, PhaseRead, TabRead, HostHeard
  PROVE  LET r == Checks!BuildExtensionDoctor(world, facts)
         IN  Checks!ParseExtensionDoctor(r) = r /\ FineReport(r)
<1> DEFINE r == Checks!BuildExtensionDoctor(world, facts)
           heard == IF facts.native = "ok" THEN facts.host ELSE None
           all == Checks!All(r)
<1>1. PICK ui, n : WorkerBuilds(world, facts, ui, n)
  BY WorkerUi
<1>2. n \in 1 .. 9 /\ n \in Nat /\ InOrder(ui, Checks!UiIds, n) /\ r = Checks!Combined(ui, heard)
  BY <1>1 DEF WorkerBuilds
<1>3. /\ heard = None \/ \E checks : Judged(checks) /\ heard = Checks!Report(checks)
      /\ heard # None => \A j \in DOMAIN heard.checks : DatedSo(heard.checks[j])
      /\ heard # None /\ heard.ok => Len(facts.checks) = 6 /\ ~ Checks!Fails(facts.checks)
      /\ Checks!ParseDoctorReport(heard) = heard
  <2>1. CASE heard = None
    BY <2>1 DEF Checks!ParseDoctorReport
  <2>2. CASE heard # None /\ HostChecked(6) /\ heard = Checks!Report(facts.checks)
    <3>1. heard.checks = facts.checks /\ heard.ok = ~ Checks!Fails(facts.checks)
      BY <2>2 DEF Checks!Report
    <3>2. Checks!ParseDoctorReport(heard) = heard
      BY <2>2, ReportRead DEF HostChecked
    <3> QED BY <2>2, <3>1, <3>2, HostSo
  <2>3. CASE heard # None /\ heard = Checks!Interrupted
    <3>1. Checks!ParseDoctorReport(heard) = heard
      BY <2>3, InterruptedInOrder, ReportRead
    <3> QED BY <2>3, <3>1, InterruptedSo
  <2> QED BY <2>1, <2>2, <2>3 DEF HostHeard
<1> HIDE DEF heard
<1>4. Checks!ParseExtensionDoctor(r) = r
  BY <1>2, <1>3, UiRead
<1>5. Judged(ui) /\ DOMAIN ui = 1 .. n /\ \A j \in 1 .. n : ui[j].id = Checks!UiIds[j]
  <2>1. Judged(ui) /\ \A j \in 1 .. n : ui[j].id = Checks!UiIds[j]
    BY <1>2, InOrderJudged
  <2>2. DOMAIN ui = 1 .. n
    BY <1>2, InOrderLen
  <2> QED BY <2>1, <2>2
<1>6. /\ Tells(r)
      /\ \A i \in DOMAIN all :
           \/ \E j \in DOMAIN ui : all[i] = ui[j]
           \/ heard # None /\ \E j \in DOMAIN heard.checks : all[i] = heard.checks[j]
  BY <1>2, <1>3, <1>5, CombinedTells DEF Tells
<1>7. \A j \in 1 .. n : DatedSo(ui[j])
  <2>1. /\ \A j \in 1 .. 9 : Checks!UiIds[j] \in Checks!Dated => j \in {5, 7, 9}
        /\ Checks!UiIds[5] = "ext.proxy" /\ Checks!UiIds[7] = "ext.rules"
        /\ Checks!UiIds[9] = "ext.tab"
    BY DEF Checks!UiIds, Checks!Dated
  <2>6. n \in {8, 9}
    BY <1>1 DEF WorkerBuilds
  <2>2. DatedSo(ui[5])
    <3>1. ui[5] = Checks!ProxyCheck(facts.phase, world.proxy)
      BY <1>1 DEF WorkerBuilds
    <3>2. ui[5].id = "ext.proxy"
      BY <1>5, <2>1, <2>6
    <3> QED BY <3>1, <3>2, ProxySo DEF DatedSo
  <2>3. DatedSo(ui[7])
    <3>1. ui[7] = Checks!RulesCheck(facts)
      BY <1>1 DEF WorkerBuilds
    <3>2. ui[7].id = "ext.rules"
      BY <1>5, <2>1, <2>6
    <3> QED BY <3>1, <3>2, RulesSo DEF DatedSo
  <2>4. n = 9 => DatedSo(ui[9])
    <3> SUFFICES ASSUME n = 9 PROVE DatedSo(ui[9])
      OBVIOUS
    <3>1. facts.tab # None /\ ui[9] = Checks!TabCheck(facts.tab)
      BY <1>1 DEF WorkerBuilds
    <3>2. ui[9].id = "ext.tab"
      BY <1>5, <2>1
    <3> QED BY <3>1, <3>2, TabSo DEF DatedSo
  <2>5. ASSUME NEW j \in 1 .. n, j \notin {5, 7, 9} PROVE DatedSo(ui[j])
    <3>1. j \in 1 .. 9
      BY <1>2
    <3>2. ui[j].id \notin Checks!Dated
      BY <1>5, <2>1, <2>5, <3>1
    <3> QED BY <3>2 DEF DatedSo
  <2> QED BY <1>2, <2>2, <2>3, <2>4, <2>5
<1>8. r.ok => Len(facts.checks) = 6 /\ ~ Checks!Fails(facts.checks)
  <2> SUFFICES ASSUME r.ok PROVE Len(facts.checks) = 6 /\ ~ Checks!Fails(facts.checks)
    OBVIOUS
  <2>0. Checks!Combined(ui, heard).ok = (~ Checks!Fails(ui) /\ (heard = None \/ heard.ok))
    BY DEF Checks!Combined
  <2>1. ~ Checks!Fails(ui) /\ (heard = None \/ heard.ok)
    BY <1>2, <2>0
  <2>5. 2 \in DOMAIN ui
    BY <1>1, <1>5 DEF WorkerBuilds
  <2>2. ~ Bad(ui[2])
    BY <1>5, <2>1, <2>5, FailsAre
  <2>3. Checks!NativeOf(facts) = "ok"
    <3>1. ui[2] = Checks!NativeCheck(Checks!NativeOf(facts))
      BY <1>1 DEF WorkerBuilds
    <3>2. "ext.native" \in Checks!Required
      BY DEF Checks!Required
    <3> QED BY <2>2, <3>1, <3>2 DEF Checks!NativeCheck, Checks!Check, Bad
  <2>4. heard # None
    BY <2>3 DEF Checks!NativeOf, heard
  <2> QED BY <1>3, <2>1, <2>4
<1>9. \A i \in DOMAIN all : DatedSo(all[i])
  BY <1>3, <1>5, <1>6, <1>7
<1> QED BY <1>4, <1>6, <1>8, <1>9 DEF FineReport

\* What the server of `rogatio edit` builds.
LEMMA EditorShows ==
  ASSUME NoneIsNoReport, WorldsInv, ConfigRead, HostChecked(6), asker = "editor",
         facts.host = Checks!Report(facts.checks)
  PROVE  FineReport(Checks!BuildEditorDoctor(world, facts))
<1> DEFINE r == Checks!BuildEditorDoctor(world, facts)
           all == Checks!All(r)
<1>1. PICK ui, n : EditorBuilds(world, facts, ui, n)
  BY EditorUi
<1>2. n \in 1 .. 5 /\ n \in Nat /\ InOrder(ui, EditorIds, n) /\ r = Checks!Combined(ui, facts.host)
  BY <1>1 DEF EditorBuilds
<1>3. Judged(ui) /\ DOMAIN ui = 1 .. n /\ \A j \in 1 .. n : ui[j].id = EditorIds[j]
  <2>1. Judged(ui) /\ \A j \in 1 .. n : ui[j].id = EditorIds[j]
    BY <1>2, InOrderJudged
  <2>2. DOMAIN ui = 1 .. n
    BY <1>2, InOrderLen
  <2> QED BY <2>1, <2>2
<1>4. /\ Judged(facts.checks) /\ facts.host.checks = facts.checks
      /\ \A j \in DOMAIN facts.checks : DatedSo(facts.checks[j])
  BY HostSo DEF Checks!Report
<1>5. /\ Tells(r)
      /\ \A i \in DOMAIN all :
           \/ \E j \in DOMAIN ui : all[i] = ui[j]
           \/ facts.host # None /\ \E j \in DOMAIN facts.host.checks : all[i] = facts.host.checks[j]
  BY <1>2, <1>3, <1>4, CombinedTells DEF Tells
<1>6. \A j \in 1 .. n : DatedSo(ui[j])
  <2>1. \A j \in 1 .. 5 : EditorIds[j] \in Checks!Dated => j \in {4, 5}
    BY DEF EditorIds, Checks!Dated
  <2>2. WasSo(ui[4]) /\ (n = 5 => WasSo(ui[5]))
    BY <1>1, EditorSo DEF EditorBuilds
  <2>3. ASSUME NEW j \in 1 .. n, j \notin {4, 5} PROVE DatedSo(ui[j])
    <3>1. ui[j].id \notin Checks!Dated
      BY <1>2, <1>3, <2>1, <2>3
    <3> QED BY <3>1 DEF DatedSo
  <2>4. ASSUME NEW j \in 1 .. n, j \in {4, 5} PROVE DatedSo(ui[j])
    <3>1. WasSo(ui[j])
      BY <1>2, <2>2, <2>4
    <3> QED BY <3>1 DEF DatedSo
  <2> QED BY <2>3, <2>4
<1>7. asker \notin Checks!Extension
  BY DEF Checks!Extension
<1> QED BY <1>3, <1>4, <1>5, <1>6, <1>7 DEF FineReport

\* What the command prints.
LEMMA CommandShows ==
  ASSUME NoneIsNoReport, HostChecked(6), asker = "cli"
  PROVE  FineReport([ok |-> Checks!Report(facts.checks).ok, ui |-> <<>>,
                     host |-> Checks!Report(facts.checks)])
<1>1. Judged(facts.checks) /\ \A j \in DOMAIN facts.checks : DatedSo(facts.checks[j])
  BY HostSo
<1>2. asker \notin Checks!Extension
  BY DEF Checks!Extension
<1> QED BY <1>1, <1>2, PrintedTells DEF FineReport, Tells

\* The reports of a worker, a server or a session that is gone.
LEMMA FailureShows ==
  ASSUME NoneIsNoReport,
         NEW r \in {Checks!WorkerUnreachable, Checks!ServerStopped, Checks!ServerRejected,
                    Checks!SessionStale}
  PROVE  FineReport(r)
<1> DEFINE Fail(id, says) == Checks!Check(id, "fail", says)
           up == Checks!Check("editor.server", "pass", "answered")
           all == Checks!All(r)
<1>1. ASSUME NEW ui, Judged(ui), r = Checks!Combined(ui, None), Checks!Fails(ui),
             \A j \in DOMAIN ui : ui[j].id \notin Checks!Dated
      PROVE  FineReport(r)
  <2>1. Tells(r) /\ \A i \in DOMAIN all : \E j \in DOMAIN ui : all[i] = ui[j]
    BY <1>1, CombinedTells DEF Tells
  <2>2. ~ r.ok
    BY <1>1 DEF Checks!Combined
  <2> QED BY <1>1, <2>1, <2>2 DEF FineReport, DatedSo
<1>2. ASSUME NEW id \in {"ext.worker", "editor.server"}, NEW says,
             r = Checks!Combined(<<Fail(id, says)>>, None)
      PROVE  FineReport(r)
  <2>1. InOrder(<<Fail(id, says)>>, <<id>>, 1)
    BY DEF InOrder, Of, Checks!Check
  <2>2. Judged(<<Fail(id, says)>>)
    BY <2>1, InOrderJudged
  <2>3. id \in Checks!Required /\ id \notin Checks!Dated
    BY DEF Checks!Required, Checks!Dated
  <2>4. Checks!Fails(<<Fail(id, says)>>)
    <3> DEFINE ui == <<Fail(id, says)>>
    <3>1. 1 \in DOMAIN ui /\ ui[1] = Fail(id, says)
      OBVIOUS
    <3>2. Fail(id, says).status = "fail" /\ Fail(id, says).optional = (id \notin Checks!Required)
      BY DEF Checks!Check
    <3> HIDE DEF ui, Fail
    <3>3. ~ ui[1].optional /\ ui[1].status = "fail"
      BY <2>3, <3>1, <3>2
    <3>4. Checks!Fails(ui)
      BY <3>1, <3>3 DEF Checks!Fails
    <3> QED BY <3>4 DEF ui
  <2>5. \A j \in DOMAIN <<Fail(id, says)>> : <<Fail(id, says)>>[j].id \notin Checks!Dated
    BY <2>3 DEF Checks!Check
  <2> QED BY <1>1, <1>2, <2>2, <2>4, <2>5
<1>3. CASE r = Checks!SessionStale
  <2> DEFINE ui == <<up, Fail("editor.session", "stale")>>
  <2>1. r = Checks!Combined(ui, None)
    BY <1>3 DEF Checks!SessionStale
  <2>2. InOrder(ui, EditorIds, 2)
    BY DEF InOrder, Of, Checks!Check, EditorIds
  <2>3. Judged(ui)
    BY <2>2, InOrderJudged
  <2>4. Checks!Fails(ui)
    <3>1. 2 \in DOMAIN ui /\ ui[2] = Fail("editor.session", "stale")
      OBVIOUS
    <3>2. "editor.session" \in Checks!Required
      BY DEF Checks!Required
    <3>3. ui[2].status = "fail" /\ ui[2].optional = ("editor.session" \notin Checks!Required)
      BY <3>1 DEF Checks!Check
    <3> HIDE DEF ui
    <3>4. ~ ui[2].optional
      BY <3>2, <3>3
    <3> QED BY <3>1, <3>3, <3>4 DEF Checks!Fails
  <2>5. \A j \in DOMAIN ui : ui[j].id \notin Checks!Dated
    BY DEF Checks!Check, Checks!Dated
  <2> HIDE DEF ui
  <2> QED BY <1>1, <2>1, <2>3, <2>4, <2>5
<1>4. CASE r = Checks!WorkerUnreachable
  BY <1>2, <1>4 DEF Checks!WorkerUnreachable
<1>5. CASE r \in {Checks!ServerStopped, Checks!ServerRejected}
  BY <1>2, <1>5 DEF Checks!ServerStopped, Checks!ServerRejected
<1> QED BY <1>3, <1>4, <1>5

-------------------------------------------------------------------------------
(* The doctor: a run.                                                      *)

\* What a run has read so far, of which each part was so at one moment.
ReadInv ==
  /\ step = "project" => facts.status = None
  /\ step = "installed" => facts.project \in Checks!Compiled
  /\ asker \in Checks!Extension /\ step \notin {"idle", "project"} => ProjectRead
  /\ asker \in Checks!Extension /\ step \notin {"idle", "project", "installed"} => StatusRead
  /\ step \in {"tab", "browser"} => PhaseRead
  /\ step = "browser" => TabRead
  /\ step = "root" => ConfigRead

\* What the host has checked so far, and what was heard of it.
HostInv ==
  /\ step = "pac" => HostChecked(4)
  /\ step = "ai" => HostChecked(5)
  /\ step \in {"answer", "config", "root"} => HostChecked(6)
  /\ step \in {"idle", "project", "installed", "send", "verify", "file", "pac", "ai", "answer"} =>
       facts.host = None
  /\ step \in {"config", "root"} => facts.host = Checks!Report(facts.checks)
  /\ step \in {"tab", "browser"} => HostHeard

RunInv ==
  /\ facts = [f \in DOMAIN Checks!Nothing |-> facts[f]]
  /\ step \in {"project", "installed", "send", "tab", "browser"} => asker \in Checks!Extension
  /\ step \in {"config", "root"} => asker = "editor"
  /\ ReadInv /\ HostInv

DoctorInv ==
  /\ WorldsInv
  /\ IF step = "shown" THEN FineReport(shown) ELSE RunInv /\ shown = None

\* What was so at some moment of the run stays so, and what was read stays read.
LEMMA SoStays ==
  ASSUME asker' = asker, seen \subseteq seen'
  PROVE  /\ \A c : WasSo(c) => WasSo(c)'
         /\ facts' = facts /\ PhaseRead => PhaseRead'
         /\ facts' = facts /\ TabRead => TabRead'
         /\ facts' = facts /\ ConfigRead => ConfigRead'
<1>1. \A c : WasSo(c) => WasSo(c)'
  BY DEF WasSo, Checks!Verdicts
<1>2. facts' = facts /\ PhaseRead => PhaseRead'
  BY DEF PhaseRead
<1>3. facts' = facts /\ TabRead => TabRead'
  BY DEF TabRead
<1>4. facts' = facts /\ ConfigRead => ConfigRead'
  BY DEF ConfigRead
<1> QED BY <1>1, <1>2, <1>3, <1>4

LEMMA ReadStays ==
  ASSUME seen \subseteq seen', facts'.project = facts.project, facts'.rule = facts.rule,
         facts'.enabled = facts.enabled, facts'.root = facts.root
  PROVE  /\ ProjectRead => ProjectRead'
         /\ facts'.status = facts.status /\ StatusRead => StatusRead'
<1>1. ProjectRead => ProjectRead'
  BY DEF ProjectRead
<1>2. facts'.status = facts.status /\ StatusRead => StatusRead'
  BY DEF StatusRead
<1> QED BY <1>1, <1>2

LEMMA CheckedStays ==
  ASSUME asker' = asker, seen \subseteq seen', facts'.checks = facts.checks
  PROVE  /\ \A n : HostChecked(n) => HostChecked(n)'
         /\ facts'.host = facts.host /\ HostHeard => HostHeard'
<1>1. \A n : HostChecked(n) => HostChecked(n)'
  BY SoStays DEF HostChecked
<1>2. facts'.host = facts.host /\ HostHeard => HostHeard'
  BY <1>1 DEF HostHeard
<1> QED BY <1>1, <1>2

\* A fine report is still fine when it is shown.
LEMMA ShownFine ==
  ASSUME WorldsInv, NEW r, FineReport(r), step' = "shown", shown' = r,
         UNCHANGED <<world, seen, asker, facts>>
  PROVE  DoctorInv'
<1>1. WorldsInv'
  BY DEF WorldsInv
<1>2. \A c : WasSo(c) => WasSo(c)'
  BY SoStays
<1>3. Checks!Changed' = Checks!Changed
  BY DEF Checks!Changed
<1>4. \A c : Checks!Steady(c.id)' = Checks!Steady(c.id)
  BY <1>3 DEF Checks!Steady
<1>5. \A c : DatedSo(c) => DatedSo(c)'
  BY <1>2, <1>4 DEF DatedSo
<1>6. FineReport(r)'
  BY <1>5 DEF FineReport, Tells
<1>7. FineReport(shown)'
  BY <1>6 DEF FineReport, Tells, DatedSo, WasSo
<1> QED BY <1>1, <1>7 DEF DoctorInv

\* A run that goes on.
Goes == step # "shown" /\ step' # "shown" /\ UNCHANGED <<world, seen, shown>>

LEMMA GoesOn ==
  ASSUME DoctorInv, Goes, RunInv'
  PROVE  DoctorInv'
<1>1. WorldsInv'
  BY DEF DoctorInv, WorldsInv, Goes
<1> QED BY <1>1 DEF DoctorInv, Goes

LEMMA Fields ==
  ASSUME facts = [f \in DOMAIN Checks!Nothing |-> facts[f]]
  PROVE  DOMAIN facts = {"project", "enabled", "root", "rule", "status", "verified", "checks",
                         "native", "cli", "host", "phase", "draft", "configured", "tab"}
BY DEF Checks!Nothing

LEMMA AskNext ==
  ASSUME DoctorInv, Checks!Ask
  PROVE  DoctorInv'
<1>1. Goes
  BY DEF Checks!Ask, Goes
<1>2. /\ facts' = [f \in DOMAIN Checks!Nothing |-> facts'[f]]
      /\ facts'.status = None /\ facts'.host = None
  BY DEF Checks!Ask, Checks!Nothing
<1>3. \/ step' = "project" /\ asker' \in Checks!Extension
      \/ step' = "verify" /\ asker' \notin Checks!Extension
  BY DEF Checks!Ask
<1>4. ReadInv' /\ HostInv'
  BY <1>2, <1>3 DEF ReadInv, HostInv
<1>5. RunInv'
  BY <1>2, <1>3, <1>4 DEF RunInv
<1> QED BY <1>1, <1>5, GoesOn

LEMMA ReadProjectNext ==
  ASSUME DoctorInv, Checks!ReadProject
  PROVE  DoctorInv'
<1>1. Goes /\ step = "project" /\ asker' = asker /\ asker \in Checks!Extension
  BY DEF Checks!ReadProject, Checks!Go, Goes, DoctorInv, RunInv
<1>2. /\ facts' = [f \in DOMAIN Checks!Nothing |-> facts'[f]]
      /\ facts'.status = None /\ facts'.host = None
      /\ facts'.project = world.project /\ facts'.rule = world.rule
      /\ facts'.enabled = world.enabled /\ facts'.root = world.root
  BY <1>1, Fields DEF Checks!ReadProject, DoctorInv, RunInv, ReadInv, HostInv
<1>3. ProjectRead'
  BY <1>1, <1>2 DEF Goes, DoctorInv, WorldsInv, ProjectRead
<1>4. \/ step' = "installed" /\ facts'.project \in Checks!Compiled
      \/ step' = "send" /\ facts'.project \notin Checks!Compiled
  BY <1>2 DEF Checks!ReadProject, Checks!Go
<1>5. step' = "send" => StatusRead'
  BY <1>1, <1>2, <1>4 DEF Goes, DoctorInv, WorldsInv, StatusRead
<1>6. ReadInv' /\ HostInv'
  BY <1>2, <1>3, <1>4, <1>5 DEF ReadInv, HostInv
<1>7. RunInv'
  BY <1>1, <1>2, <1>4, <1>6 DEF RunInv
<1> QED BY <1>1, <1>7, GoesOn

LEMMA ReadInstalledNext ==
  ASSUME DoctorInv, Checks!ReadInstalled
  PROVE  DoctorInv'
<1>1. /\ Goes /\ step = "installed" /\ step' = "send" /\ asker' = asker
      /\ asker \in Checks!Extension /\ facts.project \in Checks!Compiled /\ ProjectRead
  BY DEF Checks!ReadInstalled, Checks!Go, Goes, DoctorInv, RunInv, ReadInv
<1>2. /\ facts' = [f \in DOMAIN Checks!Nothing |-> facts'[f]]
      /\ facts'.host = None
      /\ facts'.project = facts.project /\ facts'.rule = facts.rule
      /\ facts'.enabled = facts.enabled /\ facts'.root = facts.root
      /\ facts'.status =
           Checks!RuleStatus(facts.rule, facts.enabled, facts.root, world.installed, world.phase)
  BY <1>1, Fields DEF Checks!ReadInstalled, DoctorInv, RunInv, HostInv
<1>3. ProjectRead'
  BY <1>1, <1>2, ReadStays DEF Goes
<1>4. StatusRead'
  BY <1>1, <1>2 DEF Goes, DoctorInv, WorldsInv, StatusRead
<1>5. ReadInv' /\ HostInv'
  BY <1>1, <1>2, <1>3, <1>4 DEF ReadInv, HostInv
<1>6. RunInv'
  BY <1>1, <1>2, <1>5 DEF RunInv
<1> QED BY <1>1, <1>6, GoesOn

\* The extension has no more of the host, and reads the phase: HearFailure, and a Send
\* that finds no host.
LEMMA NotHeard ==
  ASSUME DoctorInv, asker \in Checks!Extension,
         step \in {"send", "verify", "file", "pac", "ai", "answer"}, Checks!Go("tab"),
         NEW native, facts' = [facts EXCEPT !.native = native, !.phase = world.phase]
  PROVE  DoctorInv'
<1>1. /\ Goes /\ step' = "tab" /\ asker' = asker /\ ProjectRead /\ StatusRead
  BY DEF Checks!Go, Goes, DoctorInv, RunInv, ReadInv
<1>2. /\ facts' = [f \in DOMAIN Checks!Nothing |-> facts'[f]]
      /\ facts'.host = None /\ facts'.phase = world.phase
      /\ facts'.project = facts.project /\ facts'.rule = facts.rule
      /\ facts'.enabled = facts.enabled /\ facts'.root = facts.root
      /\ facts'.status = facts.status
  BY <1>1, Fields DEF Goes, DoctorInv, RunInv, HostInv
<1>3. ProjectRead' /\ StatusRead'
  BY <1>1, <1>2, ReadStays DEF Goes
<1>4. PhaseRead'
  BY <1>1, <1>2 DEF Goes, DoctorInv, WorldsInv, PhaseRead
<1>5. ReadInv' /\ HostInv'
  BY <1>1, <1>2, <1>3, <1>4 DEF ReadInv, HostInv, HostHeard
<1>6. RunInv'
  BY <1>1, <1>2, <1>5 DEF RunInv
<1> QED BY <1>1, <1>6, GoesOn

\* A step of the host's: what the extension read stays as it is.
LEMMA HostGoes ==
  ASSUME DoctorInv, Goes, asker' = asker,
         step \in {"send", "verify", "file", "pac", "ai"},
         step' \in {"verify", "file", "pac", "ai", "answer"},
         facts' = [f \in DOMAIN Checks!Nothing |-> facts'[f]],
         facts'.host = facts.host, facts'.status = facts.status,
         facts'.project = facts.project, facts'.rule = facts.rule,
         facts'.enabled = facts.enabled, facts'.root = facts.root,
         step' = "pac" => HostChecked(4)', step' = "ai" => HostChecked(5)',
         step' = "answer" => HostChecked(6)'
  PROVE  DoctorInv'
<1>1. asker \in Checks!Extension => ProjectRead /\ StatusRead
  BY DEF Goes, DoctorInv, RunInv, ReadInv
<1>2. asker' \in Checks!Extension => ProjectRead' /\ StatusRead'
  BY <1>1, ReadStays DEF Goes
<1>3. facts'.host = None
  BY DEF Goes, DoctorInv, RunInv, HostInv
<1>4. ReadInv' /\ HostInv'
  BY <1>2, <1>3 DEF ReadInv, HostInv
<1>5. RunInv'
  BY <1>4 DEF RunInv
<1> QED BY <1>5, GoesOn

LEMMA SendNext ==
  ASSUME DoctorInv, Checks!Send
  PROVE  DoctorInv'
<1>0. /\ step = "send" /\ asker \in Checks!Extension
      /\ facts = [f \in DOMAIN Checks!Nothing |-> facts[f]]
  BY DEF Checks!Send, DoctorInv, RunInv
<1>1. CASE world.connects = "ok"
  <2>1. Goes /\ asker' = asker /\ step' = "verify" /\ facts' = facts
    BY <1>0, <1>1 DEF Checks!Send, Checks!Go, Goes
  <2>2. facts' = [f \in DOMAIN Checks!Nothing |-> facts'[f]]
    BY <1>0, <2>1
  <2> QED BY <1>0, <2>1, <2>2, HostGoes
<1>2. CASE world.connects # "ok"
  BY <1>0, <1>2, NotHeard DEF Checks!Send
<1> QED BY <1>1, <1>2

LEMMA HearFailureNext ==
  ASSUME DoctorInv, Checks!HearFailure
  PROVE  DoctorInv'
BY NotHeard DEF Checks!HearFailure

LEMMA VerifyNext ==
  ASSUME DoctorInv, Checks!Verify
  PROVE  DoctorInv'
<1>1. Goes /\ step = "verify" /\ step' = "file" /\ asker' = asker
  BY DEF Checks!Verify, Checks!Go, Goes
<1>2. /\ facts' = [f \in DOMAIN Checks!Nothing |-> facts'[f]]
      /\ facts'.host = facts.host /\ facts'.status = facts.status
      /\ facts'.project = facts.project /\ facts'.rule = facts.rule
      /\ facts'.enabled = facts.enabled /\ facts'.root = facts.root
  BY <1>1, Fields DEF Checks!Verify, Goes, DoctorInv, RunInv
<1> QED BY <1>1, <1>2, HostGoes

LEMMA CheckFileNext ==
  ASSUME DoctorInv, Checks!CheckFile
  PROVE  DoctorInv'
<1>1. Goes /\ step = "file" /\ step' = "pac" /\ asker' = asker
  BY DEF Checks!CheckFile, Checks!Go, Goes
<1>2. /\ facts' = [f \in DOMAIN Checks!Nothing |-> facts'[f]]
      /\ facts'.host = facts.host /\ facts'.status = facts.status
      /\ facts'.project = facts.project /\ facts'.rule = facts.rule
      /\ facts'.enabled = facts.enabled /\ facts'.root = facts.root
      /\ facts'.checks = Checks!Early(world, facts.verified)
  BY <1>1, Fields DEF Checks!CheckFile, Goes, DoctorInv, RunInv
<1> DEFINE first == Checks!Early(world, facts.verified)
           file == IF asker \in Checks!Extension THEN Checks!ActiveCheck(facts.project)
                   ELSE Checks!FileCheck(world.file)
<1>3. InOrder(first, Checks!Ids, 4) /\ first[2] = file
  BY FirstFour
<1>4. WasSo(file)
  <2>1. \A w : (IF asker \in Checks!Extension THEN Checks!ActiveCheck(w.project)
                ELSE Checks!FileCheck(w.file)) \in Checks!Verdicts(w)
    BY DEF Checks!Verdicts
  <2>2. CASE asker \in Checks!Extension
    <3>1. PICK w \in seen : facts.project = w.project
      BY <1>1, <2>2 DEF Goes, DoctorInv, RunInv, ReadInv, ProjectRead
    <3> QED BY <2>1, <2>2, <3>1 DEF WasSo
  <2>3. CASE asker \notin Checks!Extension
    BY <2>1, <2>3 DEF DoctorInv, WorldsInv, WasSo
  <2> QED BY <2>2, <2>3
<1>5. \A i \in 1 .. 4 : Checks!Ids[i] \in Timely => i = 2
  BY DEF Checks!Ids, Timely
<1>6. PICK c : c = file
  OBVIOUS
<1>7. PICK checks : checks = first
  OBVIOUS
<1> HIDE DEF first, file
<1>8. WasSo(c)'
  <2>1. WasSo(c)
    BY <1>4, <1>6
  <2> QED BY <1>1, <2>1, SoStays DEF Goes
<1>9. facts'.checks = checks /\ InOrder(checks, Checks!Ids, 4) /\ checks[2] = c
  BY <1>2, <1>3, <1>6, <1>7 DEF first
<1>10. HostChecked(4)'
  BY <1>5, <1>8, <1>9 DEF HostChecked
<1> QED BY <1>1, <1>2, <1>10, HostGoes

\* The host's next check, and what it says is so.
LEMMA ProbeNext ==
  ASSUME DoctorInv, Goes, asker' = asker, NEW n \in {4, 5}, HostChecked(n),
         \/ n = 4 /\ step = "pac" /\ step' = "ai"
         \/ n = 5 /\ step = "ai" /\ step' = "answer",
         NEW c, Of(c, Checks!Ids[n + 1]), c \in Checks!Verdicts(world),
         facts' = [facts EXCEPT !.checks = Append(@, c)]
  PROVE  DoctorInv'
<1>1. /\ facts' = [f \in DOMAIN Checks!Nothing |-> facts'[f]]
      /\ facts'.host = facts.host /\ facts'.status = facts.status
      /\ facts'.project = facts.project /\ facts'.rule = facts.rule
      /\ facts'.enabled = facts.enabled /\ facts'.root = facts.root
      /\ facts'.checks = Append(facts.checks, c)
  BY Fields DEF Goes, DoctorInv, RunInv
<1>2. PICK old : old = facts.checks
  OBVIOUS
<1>3. PICK longer : longer = Append(old, c)
  OBVIOUS
<1>4. Grows(old, c, longer, Checks!Ids, n, n + 1)
  <2>1. n \in Nat
    OBVIOUS
  <2>2. InOrder(old, Checks!Ids, n)
    BY <1>2 DEF HostChecked
  <2> QED BY <1>3, <2>1, <2>2, OneMore
<1>5. \A i \in 1 .. n : Checks!Ids[i] \in Timely => WasSo(old[i])'
  BY <1>2, SoStays DEF Goes, HostChecked
<1>6. WasSo(c)'
  <2>1. WasSo(c)
    BY DEF DoctorInv, WorldsInv, WasSo
  <2> QED BY <2>1, SoStays DEF Goes
<1>7. \A i \in 1 .. n + 1 : Checks!Ids[i] \in Timely => WasSo(longer[i])'
  <2> SUFFICES ASSUME NEW i \in 1 .. n + 1, Checks!Ids[i] \in Timely PROVE WasSo(longer[i])'
    OBVIOUS
  <2>1. CASE i = n + 1
    <3>1. longer[i] = c
      BY <1>4, <2>1 DEF Grows
    <3> QED BY <1>6, <3>1
  <2>2. CASE i # n + 1
    <3>1. i \in 1 .. n
      BY <2>2
    <3>2. longer[i] = old[i]
      BY <1>4, <3>1 DEF Grows
    <3> QED BY <1>5, <3>1, <3>2
  <2> QED BY <2>1, <2>2
<1>8. facts'.checks = longer
  BY <1>1, <1>2, <1>3
<1>9. HostChecked(n + 1)'
  BY <1>4, <1>7, <1>8 DEF HostChecked, Grows
<1>10. (step' = "pac" => HostChecked(4)') /\ (step' = "ai" => HostChecked(5)')
       /\ (step' = "answer" => HostChecked(6)')
  BY <1>9
<1> QED BY <1>1, <1>10, HostGoes

LEMMA ProbePacNext ==
  ASSUME DoctorInv, Checks!ProbePac
  PROVE  DoctorInv'
<1>1. /\ Goes /\ asker' = asker /\ HostChecked(4) /\ step = "pac" /\ step' = "ai"
      /\ facts' = [facts EXCEPT !.checks = Append(@, Checks!PacCheck(world))]
  BY DEF Checks!ProbePac, Checks!Go, Goes, DoctorInv, RunInv, HostInv
<1>2. Checks!PacCheck(world) \in Checks!Verdicts(world)
  BY DEF Checks!Verdicts
<1>3. Of(Checks!PacCheck(world), Checks!Ids[4 + 1])
  <2>1. Checks!Ids[4 + 1] = "pac"
    BY DEF Checks!Ids
  <2> QED BY <2>1, ShortChecks
<1>4. PICK c : c = Checks!PacCheck(world)
  OBVIOUS
<1> QED BY <1>1, <1>2, <1>3, <1>4, ProbeNext

LEMMA ProbeAiNext ==
  ASSUME DoctorInv, Checks!ProbeAi
  PROVE  DoctorInv'
<1>1. /\ Goes /\ asker' = asker /\ HostChecked(5) /\ step = "ai" /\ step' = "answer"
      /\ facts' = [facts EXCEPT !.checks = Append(@, Checks!AiCheck(world))]
  BY DEF Checks!ProbeAi, Checks!Go, Goes, DoctorInv, RunInv, HostInv
<1>2. Checks!AiCheck(world) \in Checks!Verdicts(world)
  BY DEF Checks!Verdicts
<1>3. Of(Checks!AiCheck(world), Checks!Ids[5 + 1])
  <2>1. Checks!Ids[5 + 1] = "ai"
    BY DEF Checks!Ids
  <2> QED BY <2>1, ShortChecks
<1>4. PICK c : c = Checks!AiCheck(world)
  OBVIOUS
<1> QED BY <1>1, <1>2, <1>3, <1>4, ProbeNext

LEMMA HearHostNext ==
  ASSUME NoneIsNoReport, DoctorInv, Checks!HearHost
  PROVE  DoctorInv'
<1>1. /\ Goes /\ step = "answer" /\ step' = "tab" /\ asker' = asker /\ asker \in Checks!Extension
      /\ HostChecked(6) /\ ProjectRead /\ StatusRead
  BY DEF Checks!HearHost, Checks!Go, Goes, DoctorInv, RunInv, ReadInv, HostInv
<1>2. PICK reply \in Checks!Replies(Checks!Report(facts.checks)) :
        facts' = [facts EXCEPT
          !.host = Checks!ParseDoctorReport(reply),
          !.native = IF Checks!ParseDoctorReport(reply) = None THEN "unreadable" ELSE "ok",
          !.cli = IF reply = None THEN None ELSE world.cli, !.phase = world.phase]
  BY DEF Checks!HearHost
<1>3. PICK heard : heard = Checks!ParseDoctorReport(reply)
  OBVIOUS
<1>4. heard \in {Checks!Report(facts.checks), Checks!Interrupted, None}
  <2>1. InOrder(facts.checks, Checks!Ids, 6)
    BY <1>1 DEF HostChecked
  <2> QED BY <1>3, <2>1, RepliesRead
<1>5. /\ facts' = [f \in DOMAIN Checks!Nothing |-> facts'[f]]
      /\ facts'.host = heard /\ facts'.phase = world.phase
      /\ facts'.project = facts.project /\ facts'.rule = facts.rule
      /\ facts'.enabled = facts.enabled /\ facts'.root = facts.root
      /\ facts'.status = facts.status /\ facts'.checks = facts.checks
  BY <1>1, <1>2, <1>3, Fields DEF Goes, DoctorInv, RunInv
<1>6. ProjectRead' /\ StatusRead'
  BY <1>1, <1>5, ReadStays DEF Goes
<1>7. PhaseRead'
  BY <1>1, <1>5 DEF Goes, DoctorInv, WorldsInv, PhaseRead
<1>8. HostChecked(6)'
  BY <1>1, <1>5, CheckedStays DEF Goes
<1>9. HostHeard'
  BY <1>4, <1>5, <1>8 DEF HostHeard
<1>10. ReadInv' /\ HostInv'
  BY <1>1, <1>6, <1>7, <1>9 DEF ReadInv, HostInv
<1>11. RunInv'
  BY <1>1, <1>5, <1>10 DEF RunInv
<1> QED BY <1>1, <1>11, GoesOn

LEMMA ReadTabNext ==
  ASSUME DoctorInv, Checks!ReadTab
  PROVE  DoctorInv'
<1>1. /\ Goes /\ step = "tab" /\ step' = "browser" /\ asker' = asker /\ asker \in Checks!Extension
      /\ ProjectRead /\ StatusRead /\ PhaseRead /\ HostHeard
  BY DEF Checks!ReadTab, Checks!Go, Goes, DoctorInv, RunInv, ReadInv, HostInv
<1>2. /\ facts' = [f \in DOMAIN Checks!Nothing |-> facts'[f]]
      /\ facts'.host = facts.host /\ facts'.phase = facts.phase
      /\ facts'.project = facts.project /\ facts'.rule = facts.rule
      /\ facts'.enabled = facts.enabled /\ facts'.root = facts.root
      /\ facts'.status = facts.status /\ facts'.checks = facts.checks
      /\ facts'.tab = IF asker = "popup" THEN Checks!TabOf(world, facts) ELSE None
  BY <1>1, Fields DEF Checks!ReadTab, Goes, DoctorInv, RunInv
<1>3. ProjectRead' /\ StatusRead'
  BY <1>1, <1>2, ReadStays DEF Goes
<1>4. PhaseRead'
  BY <1>1, <1>2 DEF Goes, PhaseRead
<1>5. HostHeard'
  BY <1>1, <1>2, CheckedStays DEF Goes
<1>6. TabRead'
  <2>1. Checks!TabOf(world, facts) = Checks!TabOf(world, facts')
    BY <1>2 DEF Checks!TabOf
  <2> QED BY <1>1, <1>2, <2>1 DEF Goes, DoctorInv, WorldsInv, TabRead
<1>7. ReadInv' /\ HostInv'
  BY <1>1, <1>3, <1>4, <1>5, <1>6 DEF ReadInv, HostInv
<1>8. RunInv'
  BY <1>1, <1>2, <1>7 DEF RunInv
<1> QED BY <1>1, <1>8, GoesOn

\* What the page is about to show.
LEMMA AtBrowser ==
  ASSUME NoneIsNoReport, DoctorInv, step = "browser"
  PROVE  LET r == Checks!BuildExtensionDoctor(world, facts)
         IN  Checks!ParseExtensionDoctor(r) = r /\ FineReport(r)
<1>1. WorldsInv /\ ProjectRead /\ StatusRead /\ PhaseRead /\ TabRead /\ HostHeard
  BY DEF DoctorInv, RunInv, ReadInv, HostInv
<1> QED BY <1>1, BrowserShows

LEMMA ShowsNext ==
  ASSUME NoneIsNoReport, DoctorInv,
         Checks!PrintReport \/ Checks!ReadBrowser \/ Checks!WorkerLost \/ Checks!ReadRoot
           \/ Checks!EditorFails
  PROVE  DoctorInv'
<1>0. WorldsInv
  BY DEF DoctorInv
<1>1. ASSUME NEW r, FineReport(r), Checks!Show(r)
      PROVE  DoctorInv'
  BY <1>0, <1>1, ShownFine DEF Checks!Show
<1>2. CASE Checks!PrintReport
  <2>1. /\ HostChecked(6) /\ asker = "cli"
        /\ Checks!Show([ok |-> Checks!Report(facts.checks).ok, ui |-> <<>>,
                        host |-> Checks!Report(facts.checks)])
    BY <1>2 DEF Checks!PrintReport, DoctorInv, RunInv, HostInv
  <2> QED BY <1>1, <2>1, CommandShows
<1>3. CASE Checks!ReadBrowser
  <2>1. PICK r : r = Checks!BuildExtensionDoctor(world, facts)
    OBVIOUS
  <2>2. step = "browser" /\ Checks!Show(Checks!ParseExtensionDoctor(r))
    BY <1>3, <2>1 DEF Checks!ReadBrowser
  <2>3. Checks!ParseExtensionDoctor(r) = r /\ FineReport(r)
    BY <2>1, <2>2, AtBrowser
  <2>4. Checks!Show(r)
    BY <2>2, <2>3
  <2> QED BY <1>1, <2>3, <2>4
<1>4. CASE Checks!WorkerLost
  BY <1>1, <1>4, FailureShows DEF Checks!WorkerLost
<1>5. CASE Checks!ReadRoot
  <2>1. /\ ConfigRead /\ HostChecked(6) /\ asker = "editor"
        /\ facts.host = Checks!Report(facts.checks)
        /\ Checks!Show(Checks!BuildEditorDoctor(world, facts))
    BY <1>5 DEF Checks!ReadRoot, DoctorInv, RunInv, ReadInv, HostInv
  <2>2. FineReport(Checks!BuildEditorDoctor(world, facts))
    BY <1>0, <2>1, EditorShows
  <2> QED BY <1>1, <2>1, <2>2
<1>6. CASE Checks!EditorFails
  BY <1>1, <1>6, FailureShows DEF Checks!EditorFails
<1> QED BY <1>2, <1>3, <1>4, <1>5, <1>6

LEMMA FileDoctorNext ==
  ASSUME DoctorInv, Checks!FileDoctor
  PROVE  DoctorInv'
<1>1. /\ Goes /\ step = "answer" /\ step' = "config" /\ asker' = asker /\ asker = "editor"
      /\ HostChecked(6)
  BY DEF Checks!FileDoctor, Checks!Go, Goes, DoctorInv, RunInv, HostInv
<1>2. /\ facts' = [f \in DOMAIN Checks!Nothing |-> facts'[f]]
      /\ facts'.host = Checks!Report(facts.checks) /\ facts'.checks = facts.checks
  BY <1>1, Fields DEF Checks!FileDoctor, Goes, DoctorInv, RunInv
<1>3. HostChecked(6)'
  BY <1>1, <1>2, CheckedStays DEF Goes
<1>4. asker' \notin Checks!Extension
  BY <1>1 DEF Checks!Extension
<1>5. facts'.host = Checks!Report(facts'.checks)
  BY <1>2
<1>6. ReadInv' /\ HostInv'
  BY <1>1, <1>3, <1>4, <1>5 DEF ReadInv, HostInv
<1>7. RunInv'
  BY <1>1, <1>2, <1>6 DEF RunInv
<1> QED BY <1>1, <1>7, GoesOn

LEMMA ReadConfigNext ==
  ASSUME DoctorInv, Checks!ReadConfig
  PROVE  DoctorInv'
<1>1. /\ Goes /\ step = "config" /\ step' = "root" /\ asker' = asker /\ asker = "editor"
      /\ HostChecked(6) /\ facts.host = Checks!Report(facts.checks)
  BY DEF Checks!ReadConfig, Checks!Go, Goes, DoctorInv, RunInv, HostInv
<1>2. /\ facts' = [f \in DOMAIN Checks!Nothing |-> facts'[f]]
      /\ facts'.host = facts.host /\ facts'.checks = facts.checks
      /\ facts'.configured = (world.ai # "none")
  BY <1>1, Fields DEF Checks!ReadConfig, Goes, DoctorInv, RunInv
<1>3. HostChecked(6)'
  BY <1>1, <1>2, CheckedStays DEF Goes
<1>4. asker' \notin Checks!Extension
  BY <1>1 DEF Checks!Extension
<1>5. facts'.host = Checks!Report(facts'.checks)
  BY <1>1, <1>2
<1>6. ConfigRead'
  BY <1>1, <1>2 DEF Goes, DoctorInv, WorldsInv, ConfigRead
<1>7. ReadInv' /\ HostInv'
  BY <1>1, <1>3, <1>4, <1>5, <1>6 DEF ReadInv, HostInv
<1>8. RunInv'
  BY <1>1, <1>2, <1>7 DEF RunInv
<1> QED BY <1>1, <1>8, GoesOn

\* The machine changes during the run: what was so at some moment stays so.
LEMMA ChangeNext ==
  ASSUME DoctorInv, Checks!Change
  PROVE  DoctorInv'
<1>1. /\ step # "shown" /\ step' = step /\ asker' = asker /\ facts' = facts /\ shown' = shown
      /\ seen' = seen \cup {world'} /\ RunInv /\ WorldsInv /\ shown = None
  BY DEF Checks!Change, DoctorInv
<1>2. PICK fact, value : fact \in DOMAIN Live /\ world' = [world EXCEPT ![fact] = value]
  BY DEF Checks!Change
<1>3. fact \in Checks!MachineFacts \ {"assist"}
  BY <1>2, DocumentsAssumption DEF Checks!DoctorAssumption
<1>4. world = [f \in Checks!MachineFacts |-> world[f]]
  BY <1>1 DEF WorldsInv
<1>5. world' = [f \in Checks!MachineFacts |-> world'[f]] /\ world'.assist = world.assist
  <2>1. "assist" \in Checks!MachineFacts
    BY DEF Checks!MachineFacts
  <2> QED BY <1>2, <1>3, <1>4, <2>1
<1>6. WorldsInv'
  BY <1>1, <1>5 DEF WorldsInv
<1>7. seen \subseteq seen'
  BY <1>1
<1>8. /\ ProjectRead => ProjectRead'
      /\ StatusRead => StatusRead'
  BY <1>1, <1>7, ReadStays
<1>9. /\ PhaseRead => PhaseRead'
      /\ TabRead => TabRead'
      /\ ConfigRead => ConfigRead'
  BY <1>1, <1>7, SoStays
<1>10. /\ \A n : HostChecked(n) => HostChecked(n)'
       /\ HostHeard => HostHeard'
  BY <1>1, <1>7, CheckedStays
<1>11. ReadInv'
  BY <1>1, <1>8, <1>9 DEF RunInv, ReadInv
<1>12. HostInv'
  BY <1>1, <1>10 DEF RunInv, HostInv
<1>13. RunInv'
  BY <1>1, <1>11, <1>12 DEF RunInv
<1> QED BY <1>1, <1>6, <1>13 DEF DoctorInv

LEMMA DoctorStill ==
  ASSUME DoctorInv, UNCHANGED doctorVars
  PROVE  DoctorInv'
<1>1. /\ step' = step /\ asker' = asker /\ facts' = facts /\ shown' = shown
      /\ seen' = seen /\ world' = world
  BY DEF doctorVars
<1>2. WorldsInv'
  BY <1>1 DEF DoctorInv, WorldsInv
<1>3. CASE step = "shown"
  BY <1>1, <1>3, ShownFine DEF DoctorInv
<1>4. CASE step # "shown"
  <2>1. /\ ProjectRead => ProjectRead'
        /\ StatusRead => StatusRead'
    BY <1>1, ReadStays
  <2>2. /\ PhaseRead => PhaseRead'
        /\ TabRead => TabRead'
        /\ ConfigRead => ConfigRead'
    BY <1>1, SoStays
  <2>3. /\ \A n : HostChecked(n) => HostChecked(n)'
        /\ HostHeard => HostHeard'
    BY <1>1, CheckedStays
  <2>4. ReadInv'
    BY <1>1, <1>4, <2>1, <2>2 DEF DoctorInv, RunInv, ReadInv
  <2>5. HostInv'
    BY <1>1, <1>4, <2>3 DEF DoctorInv, RunInv, HostInv
  <2>6. RunInv'
    BY <1>1, <1>4, <2>4, <2>5 DEF DoctorInv, RunInv
  <2> QED BY <1>1, <1>2, <1>4, <2>6 DEF DoctorInv
<1> QED BY <1>3, <1>4

LEMMA DoctorNext ==
  ASSUME NoneIsNoReport, DoctorInv, [Checks!Next]_doctorVars
  PROVE  DoctorInv'
<1>1. CASE Checks!Ask \/ Checks!ReadProject \/ Checks!ReadInstalled \/ Checks!Send
  BY <1>1, AskNext, ReadProjectNext, ReadInstalledNext, SendNext
<1>2. CASE Checks!Verify \/ Checks!CheckFile \/ Checks!ProbePac \/ Checks!ProbeAi
  BY <1>2, VerifyNext, CheckFileNext, ProbePacNext, ProbeAiNext
<1>3. CASE Checks!HearHost \/ Checks!HearFailure \/ Checks!ReadTab
  BY <1>3, HearHostNext, HearFailureNext, ReadTabNext
<1>4. CASE Checks!PrintReport \/ Checks!ReadBrowser \/ Checks!WorkerLost \/ Checks!ReadRoot
             \/ Checks!EditorFails
  BY <1>4, ShowsNext
<1>5. CASE Checks!FileDoctor \/ Checks!ReadConfig
  BY <1>5, FileDoctorNext, ReadConfigNext
<1>6. CASE Checks!Change
  BY <1>6, ChangeNext
<1>7. CASE UNCHANGED doctorVars
  BY <1>7, DoctorStill
<1> QED BY <1>1, <1>2, <1>3, <1>4, <1>5, <1>6, <1>7 DEF Checks!Next

LEMMA DoctorStart ==
  ASSUME Checks!Init
  PROVE  DoctorInv
<1>1. world = [f \in Checks!MachineFacts |-> world[f]] /\ seen = {world}
  BY DocumentsAssumption DEF Checks!Init, Checks!DoctorAssumption
<1>2. WorldsInv
  BY <1>1 DEF WorldsInv
<1>3. step = "idle" /\ shown = None /\ asker = None /\ facts = Checks!Nothing
  BY DEF Checks!Init
<1>4. facts = [f \in DOMAIN Checks!Nothing |-> facts[f]] /\ facts.host = None
  BY <1>3 DEF Checks!Nothing
<1>5. ReadInv /\ HostInv
  BY <1>3, <1>4 DEF ReadInv, HostInv
<1> QED BY <1>2, <1>3, <1>4, <1>5 DEF DoctorInv, RunInv

-------------------------------------------------------------------------------
(* The composition.                                                        *)

\* The servers keep their invariant in every part: elsewhere they stay initial.
DocumentsInv ==
  /\ ServerInv
  /\ part = "draft" => DraftInv

LEMMA DocumentsStart ==
  ASSUME DocumentsInit
  PROVE  DocumentsInv
<1>1. Init
  BY DEF DocumentsInit, NoServer
<1> QED BY <1>1, ServerInit, DraftStarts, DocumentsAssumption DEF DocumentsInit, DocumentsInv

LEMMA DocumentsKept ==
  ASSUME NoneIsNoSave, DocumentsInv, [DocumentsNext]_documentVars
  PROVE  DocumentsInv'
<1>1. part' = part
  BY DEF DocumentsNext, documentVars
<1>2. [Next]_vars
  BY DEF DocumentsNext, documentVars
<1>3. ServerInv'
  BY <1>2, ServerNext, DocumentsAssumption DEF DocumentsInv
<1>4. CASE part = "draft"
  <2>1. [Draft!Next]_(Draft!vars)
    BY <1>4 DEF DocumentsNext, documentVars, draftVars, Draft!vars, Draft!ai
  <2> QED BY <1>1, <1>3, <1>4, <2>1, DraftNext DEF DocumentsInv
<1> QED BY <1>1, <1>3, <1>4 DEF DocumentsInv

\* routes.ts, project-storage.ts and mock-root-config.ts: whatever saves, creations,
\* deletions and exits cross, a project file holds a document the compiler accepts
\* that its owner was told of or is about to be told of, unless a process ended in
\* between, or still the one it held at first, named perhaps; and a root saved for one project survives the saves for the others as
\* long as no two of them overlap.
THEOREM FilesAndRootsKept ==
  ASSUME ServerAssumption
  PROVE  Spec => []AcknowledgedIsKept
<1>1. Init => ServerInv
  BY ServerInit
<1>2. ServerInv /\ [Next]_vars => ServerInv'
  BY ServerNext
<1>3. ServerInv => AcknowledgedIsKept
  BY ServerInvMeans DEF AcknowledgedIsKept
<1> QED BY <1>1, <1>2, <1>3, PTL DEF Spec

\* editor.ts: "All changes saved" stands only over the project that the host holds,
\* whatever was edited, dropped, discarded or proposed while a save was in flight.
THEOREM SavedMeansHeld ==
  ASSUME NoneIsNoSave
  PROVE  DocumentsSpec => []CleanMeansSaved
<1>1. DocumentsInit => DocumentsInv
  BY DocumentsStart
<1>2. DocumentsInv /\ [DocumentsNext]_documentVars => DocumentsInv'
  BY DocumentsKept
<1>3. DocumentsInv => CleanMeansSaved
  BY DEF DocumentsInv, CleanMeansSaved, DraftInv, Committed, Draft!CleanMeansSaved, Draft!Idle,
         Draft!Dirty
<1> QED BY <1>1, <1>2, <1>3, PTL DEF DocumentsSpec

\* editor.ts: the verdict that appears in the test console is the one of the run
\* started last, and of one that the user has not left behind; and the host knows
\* where the console is.
THEOREM AbandonedRunsStayUnseen ==
  DocumentsSpec => LateVerdictDropped
<1> DEFINE Inv == part = "console" => ConsoleInv
<1>1. DocumentsInit => Inv
  <2>1. Console!Init => open = hostOpen
    BY Zenon DEF Console!Init
  <2> QED BY <2>1 DEF DocumentsInit, Console!Init, ConsoleInv, Console!HostFollows
<1>2. ASSUME Inv, [DocumentsNext]_documentVars
      PROVE  Inv' /\ (Shows => result' = run /\ abandoned = FALSE)
  <2>1. part' = part
    BY <1>2 DEF DocumentsNext, documentVars
  <2>2. CASE part = "console"
    <3>1. [Console!Next]_(Console!vars)
      BY <1>2, <2>2 DEF DocumentsNext, documentVars, consoleVars, Console!vars
    <3> QED BY <1>2, <2>1, <2>2, <3>1, ConsoleNext
  <2>3. CASE part # "console"
    <3>1. result' = result
      BY <1>2, <2>3 DEF DocumentsNext, documentVars, consoleVars
    <3> QED BY <2>1, <2>3, <3>1 DEF Shows
  <2> QED BY <2>2, <2>3
<1>3. ASSUME Inv, [DocumentsNext]_documentVars
      PROVE  [(result' # result /\ result' # None) => result' = run /\ ~abandoned]_(Console!vars)
  BY <1>2, <1>3 DEF Shows
<1>4. Inv => (part = "console" => Console!HostFollows)
  BY DEF ConsoleInv
<1> QED BY <1>1, <1>2, <1>3, <1>4, PTL DEF DocumentsSpec, LateVerdictDropped, Console!LateVerdictDropped

\* doctor.ts, native-host doctor-report.ts, service-worker.ts and editor doctor.ts: on
\* each of its four surfaces, whatever changes while it runs and whatever the host
\* sends, a report is fine only if none of its required checks failed and, in the
\* extension, the host has answered all six; the page shows what the worker built;
\* and each verdict was so at some moment of the run, unless it combines facts that
\* changed meanwhile.
THEOREM DoctorIsTruthful ==
  ASSUME NoneIsNoReport
  PROVE  DocumentsSpec => []DoctorTellsTrue
<1> DEFINE Inv == part = "doctor" => DoctorInv
<1>1. DocumentsInit => Inv
  BY DoctorStart DEF DocumentsInit
<1>2. Inv /\ [DocumentsNext]_documentVars => Inv'
  <2> SUFFICES ASSUME Inv, [DocumentsNext]_documentVars, part = "doctor" PROVE part' = part /\ DoctorInv'
    BY DEF DocumentsNext, documentVars
  <2>1. part' = part
    BY DEF DocumentsNext, documentVars
  <2>2. [Checks!Next]_doctorVars
    BY DEF DocumentsNext, documentVars
  <2> QED BY <2>1, <2>2, DoctorNext
<1>3. Inv => DoctorTellsTrue
  <2> SUFFICES ASSUME DoctorInv
               PROVE  Checks!NoFailureHidden /\ Checks!PageKeepsReport /\ Checks!VerdictsWereSo
    BY DEF DoctorTellsTrue
  <2>1. shown # None => FineReport(shown)
    BY DEF DoctorInv
  <2>2. Checks!NoFailureHidden
    BY <2>1 DEF FineReport, Tells, Bad, Checks!NoFailureHidden
  <2>3. Checks!PageKeepsReport
    BY AtBrowser DEF Checks!PageKeepsReport
  <2>4. Checks!VerdictsWereSo
    BY <2>1 DEF FineReport, DatedSo, WasSo, Checks!VerdictsWereSo
  <2> QED BY <2>2, <2>3, <2>4
<1> QED BY <1>1, <1>2, <1>3, PTL DEF DocumentsSpec
===============================================================================
