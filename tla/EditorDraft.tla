----------------------------- MODULE EditorDraft -----------------------------
(***************************************************************************)
(* The shared project editor (packages/editor): a draft, the snapshot last *)
(* committed, a rename buffer, a confirmation, one save in flight, and AI   *)
(* proposals that wait in their panel.  The host's copy of the project is   *)
(* kept next to them.                                                       *)
(*                                                                          *)
(* Names and ids are the sequences of tokens of Identity.                   *)
(***************************************************************************)
EXTENDS Identity

CONSTANTS
  None,
  InitialDrafts,  \* drafts a host may open; their groups carry a uid > MaxRevision
  Typed,          \* names a user types
  Proposals,      \* AI proposals: sequences of [gid, name, kind]
  Kinds,          \* rule types with a payload of their own
  MaxRevision, MaxGroups, MaxRules, MaxTokens, MaxOffers  \* bounds on edits and sizes

VARIABLES
  draft,      \* groups [uid, id, name, saved, rules]; saved: id bound for Enable
  committed,  \* the snapshot of the last save that counted
  host,       \* the project the host holds
  stale,      \* a save was accepted by the host and dropped by the editor
  revision,
  save,       \* None, or the save in flight
  route,      \* None for the project page, or the id of the open group
  rename,     \* None, or [gid, rid, value, place]; rid = None renames the group
  confirm,    \* None, or [kind, gid, rid]
  asking,     \* an AI request is in flight
  targets,    \* rules the next applied proposal repairs in place
  offers      \* proposals with an Apply button in the panel

vars == <<draft, committed, host, stale, revision, save, route, rename, confirm,
          asking, targets, offers>>
ai == <<asking, targets, offers>>

-----------------------------------------------------------------------------
(* Names, ids and positions.                                               *)

Rules(d) == UNION {ToSet(d[i].rules) : i \in DOMAIN d}
Ids(d) == {d[i].id : i \in DOMAIN d} \cup {r.id : r \in Rules(d)}
NameKeys(d) == {d[i].name : i \in DOMAIN d} \cup {r.name : r \in Rules(d)}

GroupAt(d, gid) == SelectInSeq(d, LAMBDA g : g.id = gid)
RuleAt(d, gid, rid) == SelectInSeq(d[GroupAt(d, gid)].rules, LAMBDA r : r.id = rid)
HasRule(d, gid, rid) == GroupAt(d, gid) # 0 /\ RuleAt(d, gid, rid) # 0
NameOf(d, gid, rid) == IF rid = None THEN d[GroupAt(d, gid)].name
                       ELSE d[GroupAt(d, gid)].rules[RuleAt(d, gid, rid)].name

\* Every name but that of the entity being named.
ReservedNames(d, gid, rid) ==
  {d[i].name : i \in {j \in DOMAIN d : d[j].id # gid}} \cup
  {r.name : r \in UNION {{q \in ToSet(d[i].rules) : ~(d[i].id = gid /\ q.id = rid)}
                          : i \in DOMAIN d}}

WithRules(d, gid, rules) == [d EXCEPT ![GroupAt(d, gid)].rules = rules]
Content(d) == [i \in DOMAIN d |-> [id |-> d[i].id, name |-> d[i].name, rules |-> d[i].rules]]
Dirty == Content(draft) # Content(committed)

\* A rule's payload fields; each type has one of its own.
NewRule(id, name) == [id |-> id, name |-> name, kind |-> None, pay |-> {}, bad |-> TRUE]

\* Groups (j = 0) and rules by position.
Positions(d) == UNION {{i} \X (0 .. Len(d[i].rules)) : i \in DOMAIN d}
At(d, p) == IF p[2] = 0 THEN d[p[1]] ELSE d[p[1]].rules[p[2]]
GroupAndItsRule(p, q) == p[1] = q[1] /\ 0 \in {p[2], q[2]}

\* What the host's validator reports: shared ids and names, payloads of another
\* type, and unfinished rules.
IdsUnique(d) == \A p, q \in Positions(d) : p # q => At(d, p).id # At(d, q).id
NamesUnique(d) == \A p, q \in Positions(d) : p # q => At(d, p).name # At(d, q).name
OnePayload(d) == \A r \in Rules(d) : r.pay = IF r.kind = None THEN {} ELSE {r.kind}
Valid(d) == IdsUnique(d) /\ NamesUnique(d) /\ OnePayload(d) /\ \A r \in Rules(d) : ~r.bad

\* The groups get the ids that the committed project has at their index.
Bind(d, c) == [i \in DOMAIN d |-> [d[i] EXCEPT !.saved = IF i \in DOMAIN c THEN c[i].id ELSE @]]

Fits(d) == /\ Len(d) <= MaxGroups /\ Cardinality(Rules(d)) <= MaxRules
           /\ \A name \in NameKeys(d) : Len(name) <= MaxTokens

\* markChanged(): with the draft, what every edit moves.
Changed(d, steps) == /\ Fits(d) /\ revision + steps <= MaxRevision
                     /\ draft' = d /\ revision' = revision + steps
Keep == UNCHANGED <<committed, host, stale, save>>

\* render() leaves a group that is gone.
Shown(r, d) == IF r # None /\ GroupAt(d, r) = 0 THEN None ELSE r

Swapped(s, i, j) == [s EXCEPT ![i] = s[j], ![j] = s[i]]

\* Where an entity's heading is, group and rule; a rename keeps the place at which
\* its heading was drawn last (namePath), and drawing a page brings it up to date.
Exists(d, gid, rid) == IF rid = None THEN GroupAt(d, gid) # 0 ELSE HasRule(d, gid, rid)
PlaceOf(d, gid, rid) == <<GroupAt(d, gid), IF rid = None THEN 0 ELSE RuleAt(d, gid, rid)>>
Naming(d, gid, rid) == [gid |-> gid, rid |-> rid, value |-> NameOf(d, gid, rid),
                        place |-> PlaceOf(d, gid, rid)]
Drawn(r, page, d) ==
  IF r # None /\ r.gid = page /\ Exists(d, r.gid, r.rid)
  THEN [r EXCEPT !.place = PlaceOf(d, r.gid, r.rid)] ELSE r

-----------------------------------------------------------------------------
Init ==
  /\ draft \in {Bind(d, d) : d \in InitialDrafts}
  /\ committed = draft /\ host = draft /\ stale = FALSE
  /\ revision = 0 /\ save = None /\ route = None /\ rename = None /\ confirm = None
  /\ asking = FALSE /\ targets = <<>> /\ offers = {}

Idle == save = None
\* The removal and discard dialogs are modal: behind one the user does nothing.
Ready == confirm = None

\* openRename() after an edit: the new entity's group and name box are shown.
Present(d, gid, rid) ==
  /\ route' = gid
  /\ rename' = Naming(d, gid, rid)
  /\ UNCHANGED <<confirm, ai>> /\ Keep

AddGroup ==
  /\ Ready /\ Idle
  /\ LET name == Free(<<"group">>, NameKeys(draft))
         id == DeriveId(name, "group", Ids(draft))
         d == Append(draft, [uid |-> revision + 1, id |-> id, name |-> name,
                             saved |-> None, rules |-> <<>>])
     IN  Changed(d, 1) /\ Present(d, id, None)

AddRule(gid) ==
  /\ Ready /\ Idle /\ GroupAt(draft, gid) # 0
  /\ LET name == Free(<<"rule">>, NameKeys(draft))
         id == DeriveId(name, "rule", Ids(draft))
         d == [draft EXCEPT ![GroupAt(draft, gid)].rules = Append(@, NewRule(id, name))]
     IN  Changed(d, 1) /\ Present(d, gid, id)

CopyRule(gid, rid) ==
  /\ Ready /\ Idle /\ HasRule(draft, gid, rid)
  /\ LET at == RuleAt(draft, gid, rid)
         rules == draft[GroupAt(draft, gid)].rules
         name == Free(Append(rules[at].name, "copy"), NameKeys(draft))
         id == DeriveId(name, "rule", Ids(draft))
         d == WithRules(draft, gid, InsertAt(rules, at + 1,
                [rules[at] EXCEPT !.name = name, !.id = id]))
     IN  Changed(d, 1) /\ Present(d, gid, id)

\* The rules of a copied group, named and numbered one after the other against
\* the names and ids taken so far.
CopiedRules(rules, names, ids) ==
  FoldLeft(LAMBDA acc, r :
             LET name == Free(r.name, acc.names)
                 id == DeriveId(name, "rule", acc.ids)
             IN  [names |-> acc.names \cup {name}, ids |-> acc.ids \cup {id},
                  rules |-> Append(acc.rules, [r EXCEPT !.name = name, !.id = id])],
           [names |-> names, ids |-> ids, rules |-> <<>>], rules).rules

\* A copy is a group of its own; it has no saved id until the next save.
CopiedGroup(g, id, name, rules) ==
  [uid |-> revision + 1, id |-> id, name |-> name, saved |-> None, rules |-> rules]

CopyGroup(gid) ==
  /\ Ready /\ Idle /\ GroupAt(draft, gid) # 0
  /\ LET at == GroupAt(draft, gid)
         name == Free(Append(draft[at].name, "copy"), NameKeys(draft))
         id == DeriveId(name, "group", Ids(draft))
         d == InsertAt(draft, at + 1,
                CopiedGroup(draft[at], id, name,
                  CopiedRules(draft[at].rules, NameKeys(draft) \cup {name},
                              Ids(draft) \cup {id})))
     IN  Changed(d, 1) /\ Present(d, id, None)

Staying == UNCHANGED <<route, rename, confirm, ai>> /\ Keep

\* A field of the rule is written; the rule becomes valid or invalid.
EditRule(gid, rid, bad) ==
  /\ Ready /\ Idle /\ HasRule(draft, gid, rid)
  /\ LET rules == draft[GroupAt(draft, gid)].rules
         at == RuleAt(draft, gid, rid)
     IN  /\ rules[at].bad # bad
         /\ Changed(WithRules(draft, gid, [rules EXCEPT ![at].bad = bad]), 1)
  /\ Staying

\* setRuleType(): the new type's payload is the only one left.
Retyped(rule, kind) ==
  [rule EXCEPT !.kind = kind, !.pay = IF kind = None THEN {} ELSE {kind}]

SetRuleType(gid, rid, kind) ==
  /\ Ready /\ Idle /\ HasRule(draft, gid, rid)
  /\ LET rules == draft[GroupAt(draft, gid)].rules
         at == RuleAt(draft, gid, rid)
     IN  /\ Retyped(rules[at], kind) # rules[at]
         /\ Changed(WithRules(draft, gid, [rules EXCEPT ![at] = Retyped(@, kind)]), 1)
  /\ Staying

-----------------------------------------------------------------------------
(* Removal, discard and save.                                              *)

Ask(kind, gid, rid) ==
  /\ Ready /\ Idle
  /\ confirm' = [kind |-> kind, gid |-> gid, rid |-> rid]
  /\ UNCHANGED <<draft, revision, route, rename, ai>> /\ Keep

RequestRemove(gid, rid) ==
  /\ Exists(draft, gid, rid)
  /\ Ask("remove", gid, rid)

RequestCancel == Dirty /\ Ask("cancel", None, None)

DropConfirmation ==
  /\ confirm # None
  /\ confirm' = None
  /\ UNCHANGED <<draft, revision, route, rename, ai>> /\ Keep

\* The rename of the removed entity goes with it; the rename of one of its
\* rules does not.
ConfirmRemoval ==
  /\ confirm # None /\ confirm.kind = "remove"
  /\ LET gid == confirm.gid
         rid == confirm.rid
         d == IF rid = None THEN RemoveAt(draft, GroupAt(draft, gid))
              ELSE WithRules(draft, gid, RemoveAt(draft[GroupAt(draft, gid)].rules,
                                                  RuleAt(draft, gid, rid)))
     IN  /\ Exists(draft, gid, rid)
         /\ Changed(d, 1)
         /\ route' = Shown(route, d)
         /\ rename' = IF rename # None /\ rename.gid = gid /\ rename.rid = rid THEN None
                      ELSE Drawn(rename, Shown(route, d), d)
  /\ confirm' = None
  /\ UNCHANGED ai /\ Keep

Discard ==
  /\ Idle /\ confirm # None /\ confirm.kind = "cancel"
  /\ revision < MaxRevision
  /\ draft' = Bind(committed, committed) /\ revision' = revision + 1
  /\ confirm' = None /\ rename' = None
  /\ route' = Shown(route, committed)
  /\ UNCHANGED ai /\ Keep

\* saveDraft() up to its await: the host gets a snapshot.
Save ==
  /\ Ready /\ Idle /\ Dirty /\ Valid(draft)
  /\ save' = [snapshot |-> draft, revision |-> revision, stage |-> "sent"]
  /\ UNCHANGED <<draft, committed, host, stale, revision, route, rename, confirm, ai>>

HostSaves ==
  /\ ~Idle /\ save.stage = "sent"
  /\ \/ host' = save.snapshot /\ save' = [save EXCEPT !.stage = "ok"]
     \/ save' = [save EXCEPT !.stage = "failed"] /\ UNCHANGED host
  /\ UNCHANGED <<draft, committed, stale, revision, route, rename, confirm, ai>>

\* Mutant of Counts: the answer of the host is not looked at.
CountsUnread(s) == s.revision = revision

\* The answer of a save counts only if nothing was edited since it was sent.
Counts(s) == s.stage = "ok" /\ s.revision = revision

SaveReturns ==
  /\ ~Idle /\ save.stage # "sent"
  /\ save' = None
  /\ IF Counts(save)
     THEN committed' = save.snapshot /\ draft' = Bind(draft, save.snapshot) /\ stale' = FALSE
     ELSE /\ UNCHANGED <<committed, draft>>
          /\ stale' = (stale \/ save.stage = "ok")
  /\ UNCHANGED <<host, revision, route, rename, confirm, ai>>

-----------------------------------------------------------------------------
(* Renaming in place, navigation, and ids repaired by the program.         *)

OpenRename(gid, rid) ==
  /\ Ready /\ Idle
  /\ Exists(draft, gid, rid)
  /\ route' = gid
  /\ rename' = Naming(draft, gid, rid)
  /\ UNCHANGED <<draft, revision, confirm, ai>> /\ Keep

TypeName(value) ==
  /\ Ready /\ Idle /\ rename # None /\ route = rename.gid
  /\ rename' = [rename EXCEPT !.value = value]
  /\ UNCHANGED <<draft, revision, route, confirm, ai>> /\ Keep

\* writeEntityName(): the entity is found again by its ids.
Named(d, gid, rid, name) ==
  CASE rid = None /\ GroupAt(d, gid) # 0 -> [d EXCEPT ![GroupAt(d, gid)].name = name]
    [] rid # None /\ GroupAt(d, gid) # 0 /\ RuleAt(d, gid, rid) # 0 ->
         WithRules(d, gid, [d[GroupAt(d, gid)].rules EXCEPT ![RuleAt(d, gid, rid)].name = name])
    [] OTHER -> d

\* Mutant of Refused: a name is compared with the names of the other groups only.
RefusedLoosely(gid, rid, name) ==
  name = <<>> \/ name \in {draft[i].name : i \in {j \in DOMAIN draft : draft[j].id # gid}}

\* A commit is refused for an empty name and for one that another entity holds.
Refused(gid, rid, name) == name = <<>> \/ name \in ReservedNames(draft, gid, rid)

CommitRename ==
  /\ Ready /\ Idle /\ rename # None
  /\ ~Refused(rename.gid, rename.rid, rename.value)
  /\ LET d == Named(draft, rename.gid, rename.rid, rename.value)
     IN  IF d = draft THEN UNCHANGED <<draft, revision>> ELSE Changed(d, 1)
  /\ rename' = None
  /\ UNCHANGED <<route, confirm, ai>> /\ Keep

CancelRename ==
  /\ Ready
  /\ rename # None
  /\ rename' = None
  /\ UNCHANGED <<draft, revision, route, confirm, ai>> /\ Keep

Renaming(gid, rid) == rename # None /\ rename.gid = gid /\ rename.rid = rid

\* A refused name asks for the focus at the place of its box.  Unless the heading
\* of the box was drawn before the one that is to open, the place may be out of
\* date, and what is there by now opens instead.
AfterRefusal(d, gid, rid) ==
  LET drawn == Drawn(rename, gid, d)
      first == rename.gid = gid /\ drawn.place[2] < PlaceOf(d, gid, rid)[2]
      place == IF first THEN drawn.place ELSE rename.place
      there == IF place[2] = 0 THEN None ELSE At(d, place).id
  IN  IF place[1] = GroupAt(d, gid) /\ place \in Positions(d) /\ ~Renaming(gid, there)
      THEN Naming(d, gid, there) ELSE drawn

\* The page of the group is drawn with the focus on an entity's heading, which
\* opens its box.  An open box of another entity is committed first; if that is
\* refused, or a save is pending, it stays.
ShowHeading(d, steps, gid, rid) ==
  /\ route' = gid
  /\ \/ /\ rename = None
        /\ rename' = Naming(d, gid, rid)
        /\ Changed(d, steps)
     \/ /\ rename # None /\ (Renaming(gid, rid) \/ ~Idle)
        /\ rename' = Drawn(rename, gid, d)
        /\ Changed(d, steps)
     \/ /\ rename # None /\ ~Renaming(gid, rid) /\ Idle
        /\ ~Refused(rename.gid, rename.rid, rename.value)
        /\ LET e == Named(d, rename.gid, rename.rid, rename.value)
           IN  /\ Changed(e, IF e = d THEN steps ELSE steps + 1)
               /\ rename' = Naming(e, gid, rid)
     \/ /\ rename # None /\ ~Renaming(gid, rid) /\ Idle
        /\ Refused(rename.gid, rename.rid, rename.value)
        /\ rename' = AfterRefusal(d, gid, rid)
        /\ Changed(d, steps)

\* The diagnostic of a shared name leads to the name's heading.
OpenForDiagnostic(gid, rid) ==
  /\ Ready /\ Exists(draft, gid, rid)
  /\ \E p, q \in Positions(draft) :
       p # q /\ At(draft, p).name = NameOf(draft, gid, rid) /\ At(draft, q).name = At(draft, p).name
  /\ ShowHeading(draft, 0, gid, rid)
  /\ UNCHANGED <<confirm, ai>> /\ Keep

\* The controls of a rule are on the page of its group.
MoveRule(gid, rid, delta) ==
  /\ Ready /\ Idle /\ HasRule(draft, gid, rid) /\ route = gid
  /\ LET rules == draft[GroupAt(draft, gid)].rules
         at == RuleAt(draft, gid, rid)
         next == at + delta
     IN  /\ next \in DOMAIN rules
         /\ ShowHeading(WithRules(draft, gid, Swapped(rules, at, next)), 1, gid, rid)
  /\ UNCHANGED <<confirm, ai>> /\ Keep

\* Leaving a group by the rail closes a rename of that group; leaving it
\* through a link to a group (keeps) does not.
Navigate(gid, keeps) ==
  /\ Ready
  /\ gid = None \/ GroupAt(draft, gid) # 0
  /\ route # gid
  /\ route' = gid
  /\ rename' = IF ~keeps /\ rename # None /\ rename.gid # gid THEN None
               ELSE Drawn(rename, gid, draft)
  /\ UNCHANGED <<draft, revision, confirm, ai>> /\ Keep

\* "Assign a new ID", offered at an id that another entity has too; it may go
\* one edit past the bound.
RepairId(gi, ri) ==
  /\ Ready /\ Idle
  /\ <<gi, ri>> \in Positions(draft)
  /\ LET entity == At(draft, <<gi, ri>>)
         next == DeriveId(entity.name, IF ri = 0 THEN "group" ELSE "rule", Ids(draft))
         d == IF ri = 0 THEN [draft EXCEPT ![gi].id = next]
              ELSE [draft EXCEPT ![gi].rules[ri].id = next]
     IN  /\ \E p \in Positions(draft) \ {<<gi, ri>>} : At(draft, p).id = entity.id
         /\ Fits(d) /\ revision <= MaxRevision
         /\ draft' = d /\ revision' = revision + 1
         /\ route' = IF route # None /\ GroupAt(draft, route) = gi THEN d[gi].id
                     ELSE Shown(route, d)
  /\ UNCHANGED <<rename, confirm, ai>> /\ Keep

-----------------------------------------------------------------------------
(* AI assistance.                                                          *)

\* The rules with a diagnostic, in the order of their paths.
RepairTargets(d) ==
  FoldLeft(LAMBDA acc, g :
             acc \o FoldLeft(LAMBDA more, r : IF r.bad THEN Append(more, [gid |-> g.id, rid |-> r.id])
                                              ELSE more, <<>>, g.rules),
           <<>>, d)

AskAI ==
  /\ Ready
  /\ ~asking /\ Cardinality(offers) < MaxOffers
  /\ asking' = TRUE
  /\ targets' = IF Valid(draft) THEN <<>> ELSE RepairTargets(draft)
  /\ UNCHANGED <<draft, revision, route, rename, confirm, offers>> /\ Keep

AnswerAI ==
  /\ asking
  /\ asking' = FALSE
  /\ \/ \E p \in Proposals : offers' = offers \cup {p}
     \/ UNCHANGED offers
  /\ UNCHANGED <<draft, revision, route, rename, confirm, targets>> /\ Keep

\* One rule of a proposal: it replaces the first target left in its group, or
\* is appended, to a group made for it if need be.
ApplyRule(acc, p) ==
  LET d == IF GroupAt(acc.d, p.gid) # 0 THEN acc.d
           ELSE Append(acc.d, [uid |-> revision + 1 + acc.steps, id |-> p.gid,
                               name |-> Free(<<"ai">>, NameKeys(acc.d)),
                               saved |-> None, rules |-> <<>>])
      at == SelectInSeq(acc.repairs, LAMBDA t : t.gid = p.gid /\ HasRule(d, t.gid, t.rid))
      rid == IF at = 0 THEN None ELSE acc.repairs[at].rid
      name == Free(p.name, IF at = 0 THEN NameKeys(d) ELSE ReservedNames(d, p.gid, rid))
      id == IF at = 0 THEN DeriveId(name, "rule", Ids(d)) ELSE rid
      rule == [id |-> id, name |-> name, kind |-> p.kind, pay |-> {p.kind}, bad |-> FALSE]
      rules == d[GroupAt(d, p.gid)].rules
  IN  [d |-> WithRules(d, p.gid, IF at = 0 THEN Append(rules, rule)
                                 ELSE [rules EXCEPT ![RuleAt(d, p.gid, rid)] = rule]),
       repairs |-> IF at = 0 THEN acc.repairs ELSE RemoveAt(acc.repairs, at),
       steps |-> acc.steps + 1, last |-> [gid |-> p.gid, rid |-> id]]

\* Apply in the panel; it looks at no pending save.
ApplyProposal(p) ==
  /\ Ready
  /\ p \in offers
  /\ LET acc == FoldLeft(ApplyRule, [d |-> draft, repairs |-> targets, steps |-> 0,
                                     last |-> None], p)
     IN  /\ Changed(acc.d, acc.steps)
         /\ IF Idle THEN /\ route' = acc.last.gid
                         /\ rename' = Naming(acc.d, acc.last.gid, acc.last.rid)
            ELSE UNCHANGED <<route, rename>>
  /\ targets' = <<>>
  /\ UNCHANGED <<confirm, asking, offers>> /\ Keep

-----------------------------------------------------------------------------
Groups == {draft[i].id : i \in DOMAIN draft}
RuleIds(gid) == {r.id : r \in ToSet(draft[GroupAt(draft, gid)].rules)}
OnRule(gid, rid) ==
  \/ CopyRule(gid, rid)
  \/ \E delta \in {0 - 1, 1} : MoveRule(gid, rid, delta)
  \/ \E bad \in BOOLEAN : EditRule(gid, rid, bad)
  \/ \E kind \in Kinds \cup {None} : SetRuleType(gid, rid, kind)
OnEntity(gid, rid) ==
  RequestRemove(gid, rid) \/ OpenRename(gid, rid) \/ OpenForDiagnostic(gid, rid)

Next ==
  \/ AddGroup \/ RequestCancel \/ DropConfirmation \/ ConfirmRemoval \/ Discard
  \/ Save \/ HostSaves \/ SaveReturns \/ CommitRename \/ CancelRename
  \/ AskAI \/ AnswerAI
  \/ \E gid \in Groups :
       \/ AddRule(gid) \/ CopyGroup(gid) \/ OnEntity(gid, None)
       \/ \E rid \in RuleIds(gid) : OnRule(gid, rid) \/ OnEntity(gid, rid)
  \/ \E gid \in Groups \cup {None}, keeps \in BOOLEAN : Navigate(gid, keeps)
  \/ \E gi \in 1 .. MaxGroups, ri \in 0 .. MaxRules : RepairId(gi, ri)
  \/ \E value \in Typed : TypeName(value)
  \/ \E p \in Proposals : ApplyProposal(p)

Spec == Init /\ [][Next]_vars

-----------------------------------------------------------------------------
(* Properties.                                                             *)

\* No operation makes two entities share an id, two share a name, or a rule
\* keep the payload of another type, in a draft that had none of these
\* (identity.ts: a label "identifies exactly one entity").  Set apart: a rule
\* may take the name of its own group, which RenamesKeepNamesUnique is about,
\* and an accepted proposal makes its group under the id it names unseen.
NamesApart(d) == \A p, q \in Positions(d) :
  p = q \/ GroupAndItsRule(p, q) \/ At(d, p).name # At(d, q).name
Sound(d) == IdsUnique(d) /\ NamesApart(d) /\ OnePayload(d)
TakesARulesId(p) == \E i \in DOMAIN p : p[i].gid \in {r.id : r \in Rules(draft)}
KeepsSound == ~Sound(draft') => ~Sound(draft) \/ \E p \in offers : TakesARulesId(p)
StaysSound == [][KeepsSound]_draft

\* "All changes saved" is shown only over the project that the host holds,
\* unless the answer of a save that succeeded was dropped as stale.
CleanMeansSaved ==
  (Idle /\ ~stale /\ ~Dirty) => Content(draft) = Content(host)

\* The Enable control of a group addresses, by the id it had when last saved,
\* that same group of the committed project, however groups were copied,
\* moved, renamed, repaired or discarded since (bindSavedGroupIds).
EnableHitsItsGroup ==
  \A i \in DOMAIN draft : draft[i].saved # None =>
    \E j \in DOMAIN committed :
      committed[j].uid = draft[i].uid /\ committed[j].id = draft[i].saved

\* While a save is pending the draft does not change: "a pending save prevents
\* conflicting edits or Cancel races" (F5-REQ-011).
PendingSaveFreezes ==
  [][(~Idle /\ save' # None) => draft' = draft]_vars

\* No step gives a name that another entity holds: a rename "is refused for a
\* name that differs only by case or internal spacing" from "every group and
\* rule name in the project, except the entity being renamed".
RenamesKeepNamesUnique == [][NamesUnique(draft) => NamesUnique(draft')]_vars

\* Moving a rule never drops a name that was typed for another entity and is
\* refused: "it must not silently drop an uncommitted buffer ... if that commit is
\* refused, the new one does not open" (editor.ts).
MoveKeepsRefusedName ==
  [][\A gid \in Groups : \A rid \in RuleIds(gid), delta \in {0 - 1, 1} :
       /\ MoveRule(gid, rid, delta)
       /\ rename # None /\ Refused(rename.gid, rename.rid, rename.value)
       => rename' # None /\ rename'.value = rename.value]_vars
=============================================================================
