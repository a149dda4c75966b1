----------------------------- MODULE ProjectStore -----------------------------
(***************************************************************************)
(* What the repository promises its callers: every command takes effect at *)
(* one instant between its submission and its reply, on the envelope as it *)
(* is at that instant, or is answered without an effect.                   *)
(***************************************************************************)
EXTENDS ProjectEnvelope

CONSTANTS
  Handlers,     \* concurrent command handlers of the service worker
  NoCommand     \* a handler that is not serving a command

VARIABLES
  store,        \* the committed envelope
  request,      \* request[h]: the command handler h serves, or NoCommand
  reply         \* reply[h]: "none" until the command is decided

vars == <<store, request, reply>>

StorageCodes == {"core.storage-corrupt", "core.storage-conflict"}
Replies == {"none", "commit", "conflict"} \cup FailureCodes \cup StorageCodes

Init ==
  /\ store = EmptyEnvelope
  /\ request = [h \in Handlers |-> NoCommand]
  /\ reply = [h \in Handlers |-> "none"]

Submit(h) ==
  /\ request[h] = NoCommand
  /\ request'[h] \in Command
  /\ request' = [request EXCEPT ![h] = request'[h]]
  /\ UNCHANGED <<store, reply>>

Undecided(h) == request[h] # NoCommand /\ reply[h] = "none"

\* The command takes its effect, and its answer is about this very envelope.
Perform(h) ==
  /\ Undecided(h)
  /\ \E stamp \in Stamps :
       LET mutation == Build(request[h], store, stamp)
       IN  /\ store' = mutation.next
           /\ reply' = [reply EXCEPT ![h] = mutation.kind]
  /\ UNCHANGED request

\* The storage could not be used: nothing happens to the envelope.
GiveUp(h) ==
  /\ Undecided(h)
  /\ \E code \in StorageCodes : reply' = [reply EXCEPT ![h] = code]
  /\ UNCHANGED <<store, request>>

\* A save that lost its swap is answered with the committed project, whatever
\* its revision is.
Contend(h) ==
  /\ Undecided(h)
  /\ request[h].op = "save"
  /\ Has(store, request[h].id)
  /\ reply' = [reply EXCEPT ![h] = "conflict"]
  /\ UNCHANGED <<store, request>>

Deliver(h) ==
  /\ reply[h] # "none"
  /\ request' = [request EXCEPT ![h] = NoCommand]
  /\ reply' = [reply EXCEPT ![h] = "none"]
  /\ UNCHANGED store

Next ==
  \E h \in Handlers :
    \/ Submit(h)
    \/ Perform(h)
    \/ GiveUp(h)
    \/ Contend(h)
    \/ Deliver(h)

Spec == Init /\ [][Next]_vars
=============================================================================
