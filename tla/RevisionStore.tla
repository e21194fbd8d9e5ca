---------------------------- MODULE RevisionStore ----------------------------
(***************************************************************************)
(* What the data engine promises about ONE record: its tree of revisions,  *)
(* the attribute-value-pair (AVP) documents the revisions share, and the   *)
(* heads the record lists.  Every engine call is one atomic step here; the *)
(* module DataEngine splits the same calls at their awaits.                *)
(*                                                                         *)
(* A revision is not a copy of the data: it maps each field to the id of an *)
(* AVP document, a fork starts from its base's map, and a save decides per *)
(* field whether to keep the AVP, go back to the parent's, write a new one *)
(* or overwrite the AVP in place (engine.ts, createOrReuseAvps).           *)
(***************************************************************************)
EXTENDS Functions, FiniteSets

CONSTANTS
  Rev,        \* revision ids the engine may generate
  Avp,        \* AVP ids the engine may generate
  Field,      \* fields of the form
  Value,      \* values a field may hold
  Session,    \* open edit forms, each on its own client
  None        \* no parent, no AVP, no value, no revision

ASSUME NoneIsNew == None \notin Rev \cup Avp \cup Value

VARIABLES
  exclusive,  \* how the record is used, fixed for a whole behaviour: TRUE,
              \* it is open in one edit form at a time; FALSE, several forms
              \* and clients of the records API work on it at once
  revisions,  \* the record document's `revisions`: every revision created
  heads,      \* the record document's `heads`
  parent,     \* `parents` of a revision: none, or the single base it forked
  deleted,    \* revisions that carry `deleted: true` (tombstones)
  avps,       \* `avps` of a revision: field -> AVP id, None = key absent
  owner,      \* `revision_id` of an AVP document, None = id not allocated
  val,        \* `data` of an AVP document
  phase,      \* of a session: "idle", "viewing" (nothing edited yet), "editing"
  work        \* of a session: the revision its form works on

docs == <<revisions, heads, parent, deleted, avps, owner, val>>
vars == <<exclusive, docs, phase, work>>

MapOrNone == [Field -> Avp \cup {None}]
FormData  == [Field -> Value \cup {None}]     \* None = the key is not sent

-----------------------------------------------------------------------------
(* What a hydrated read of revision r returns.                             *)
Content(r) ==
  [f \in Field |-> IF avps[r][f] = None THEN None ELSE val[avps[r][f]]]

(* The AVP the parent revision holds for f; None without a parent.         *)
ParentAvp(r, f) == IF parent[r] = None THEN None ELSE avps[parent[r]][f]

Leaves == {r \in revisions : \A c \in revisions : parent[c] # r}

Free == {a \in Avp : owner[a] = None}

(* The four AVP strategies of a save of d on r, as sets of fields.         *)
Kept(r, d) ==
  {f \in Field : d[f] # None /\ avps[r][f] # None /\ Content(r)[f] = d[f]}

(* Mutant: the parent's AVP is taken without comparing its data.           *)
RevertedUnseen(r, d) ==
  {f \in Field : d[f] # None /\ f \notin Kept(r, d) /\ ParentAvp(r, f) # None}

Reverted(r, d) ==
  {f \in Field : /\ d[f] # None /\ f \notin Kept(r, d)
                 /\ ParentAvp(r, f) # None
                 /\ val[ParentAvp(r, f)] = d[f]}

(* Mutant: the divergence test forgotten, every changed AVP overwritten.   *)
AlwaysInPlace(r, d) ==
  {f \in Field : /\ d[f] # None /\ avps[r][f] # None
                 /\ f \notin Kept(r, d) \cup Reverted(r, d)}

InPlace(r, d) ==
  {f \in Field : /\ d[f] # None /\ avps[r][f] # None
                 /\ f \notin Kept(r, d) \cup Reverted(r, d)
                 /\ parent[r] = None \/ avps[r][f] # ParentAvp(r, f)}

Created(r, d) ==
  {f \in Field : d[f] # None}
    \ (Kept(r, d) \cup Reverted(r, d) \cup InPlace(r, d))

(* Mutant: ids that may be taken already, or are shared by two fields.     *)
ReusedIds(r, d) == [Created(r, d) -> Avp]

(* buildNewAvp: a fresh id for each field that gets a new AVP.             *)
NewIds(r, d) == Injection(Created(r, d), Free)

-----------------------------------------------------------------------------
Init ==
  /\ exclusive \in BOOLEAN
  /\ revisions = {} /\ heads = {} /\ deleted = {}
  /\ parent = [r \in Rev |-> None]
  /\ avps = [r \in Rev |-> [f \in Field |-> None]]
  /\ owner = [a \in Avp |-> None]
  /\ val = [a \in Avp |-> None]
  /\ phase = [s \in Session |-> "idle"]
  /\ work = [s \in Session |-> None]

Alone(s) == exclusive => \A t \in Session \ {s} : phase[t] = "idle"

(* createRecord: the record with its first revision, opened in mode `new`. *)
CreateRecord(s, r) ==
  /\ revisions = {} /\ phase[s] = "idle"
  /\ revisions' = {r} /\ heads' = {r}
  /\ phase' = [phase EXCEPT ![s] = "editing"]
  /\ work' = [work EXCEPT ![s] = r]
  /\ UNCHANGED <<exclusive, parent, deleted, avps, owner, val>>

(* The form of an existing record is opened on a head, in mode `parent`.   *)
OpenRecord(s, h) ==
  /\ phase[s] = "idle" /\ Alone(s)
  /\ h \in heads \ deleted
  /\ phase' = [phase EXCEPT ![s] = "viewing"]
  /\ work' = [work EXCEPT ![s] = h]
  /\ UNCHANGED <<exclusive, docs>>

CloseRecord(s) ==
  /\ phase[s] # "idle"
  /\ phase' = [phase EXCEPT ![s] = "idle"]
  /\ work' = [work EXCEPT ![s] = None]
  /\ UNCHANGED <<exclusive, docs>>

(* Mutant: the base is not taken out of the heads.                         *)
KeepOldHead(old, new) == heads \cup {new}

(* updateRecordHeads: add the new head, remove the old one.                *)
NewHeads(old, new) == (heads \cup {new}) \ {old}

(* Mutant: the new revision is missing from the history.                   *)
SameHistory(new) == revisions

NewHistory(new) == revisions \cup {new}

(* Mutant: a tombstone can be forked again.                                *)
AnyRevision(base) == base \in revisions

(* createRevision and deleteRecord refuse a base that is deleted.          *)
Forkable(base) == base \in revisions \ deleted

(* createRevision / deleteRecord: append a child of base, same AVPs.       *)
AppendRevision(base, new) ==
  /\ Forkable(base) /\ new \in Rev \ revisions
  /\ revisions' = NewHistory(new)
  /\ heads' = NewHeads(base, new)
  /\ parent' = [parent EXCEPT ![new] = base]
  /\ avps' = [avps EXCEPT ![new] = avps[base]]
  /\ UNCHANGED <<owner, val>>

(* ensureWorkingRevision: the first edit forks the revision that is open.  *)
FirstEdit(s, new) ==
  /\ phase[s] = "viewing"
  /\ AppendRevision(work[s], new)
  /\ phase' = [phase EXCEPT ![s] = "editing"]
  /\ work' = [work EXCEPT ![s] = new]
  /\ UNCHANGED <<exclusive, deleted>>

(* deleteRecord: the app passes the head a list shows, and so it can delete *)
(* while no form is open; the records API takes any revision as the base.  *)
DeleteRecord(base, new) ==
  /\ exclusive => base \in heads /\ \A s \in Session : phase[s] = "idle"
  /\ AppendRevision(base, new)
  /\ deleted' = deleted \cup {new}
  /\ UNCHANGED <<exclusive, phase, work>>

(* updateRevision in the mode the revision's parents call for: write d on  *)
(* r, giving each field that needs one a fresh AVP from alloc.             *)
WriteRevision(r, d) ==
  /\ r \in revisions \ deleted
  /\ \E alloc \in NewIds(r, d) :
       LET written == [f \in Field |->
             IF f \in Kept(r, d) \cup InPlace(r, d) THEN avps[r][f]
             ELSE IF f \in Reverted(r, d) THEN ParentAvp(r, f)
             ELSE IF f \in Created(r, d) THEN alloc[f] ELSE None]
           target == [a \in Avp |->
             {f \in InPlace(r, d) \cup Created(r, d) : written[f] = a}]
       IN /\ avps' = [avps EXCEPT ![r] = written]
          /\ owner' = [a \in Avp |->
               IF \E f \in Created(r, d) : alloc[f] = a THEN r ELSE owner[a]]
          /\ val' = [a \in Avp |->
               IF target[a] # {} THEN d[CHOOSE f \in target[a] : TRUE]
               ELSE val[a]]
  /\ UNCHANGED <<revisions, heads, parent, deleted>>

(* performSave of an open form.                                            *)
Save(s, d) ==
  /\ phase[s] = "editing"
  /\ WriteRevision(work[s], d)
  /\ UNCHANGED <<exclusive, phase, work>>

(* POST .../revisions of the records API: fork any revision.               *)
ApiCreateRevision(base, new) ==
  /\ ~exclusive /\ AppendRevision(base, new)
  /\ UNCHANGED <<exclusive, deleted, phase, work>>

(* PUT .../records/:id of the records API: write on any revision.          *)
ApiUpdateRevision(r, d) ==
  /\ ~exclusive /\ WriteRevision(r, d)
  /\ UNCHANGED <<exclusive, phase, work>>

Next ==
  \/ \E s \in Session, r \in Rev : CreateRecord(s, r)
  \/ \E s \in Session, h \in Rev : OpenRecord(s, h)
  \/ \E s \in Session : CloseRecord(s)
  \/ \E s \in Session, new \in Rev : FirstEdit(s, new)
  \/ \E base, new \in Rev : DeleteRecord(base, new)
  \/ \E s \in Session, d \in FormData : Save(s, d)
  \/ \E base, new \in Rev : ApiCreateRevision(base, new)
  \/ \E r \in Rev, d \in FormData : ApiUpdateRevision(r, d)

Spec == Init /\ [][Next]_vars

-----------------------------------------------------------------------------
TypeOK ==
  /\ exclusive \in BOOLEAN
  /\ revisions \subseteq Rev /\ heads \subseteq revisions
  /\ deleted \subseteq revisions
  /\ parent \in [Rev -> Rev \cup {None}]
  /\ avps \in [Rev -> MapOrNone]
  /\ owner \in [Avp -> Rev \cup {None}]
  /\ val \in [Avp -> Value \cup {None}]
  /\ phase \in [Session -> {"idle", "viewing", "editing"}]
  /\ work \in [Session -> Rev \cup {None}]

(* The heads the record lists are exactly the revisions nobody has forked, *)
(* whatever revisions clients fork from and in whatever order: no branch   *)
(* is hidden from a reader and none is offered twice (updateRecordHeads).  *)
HeadsAreLeaves == heads = Leaves

(* A tombstone stays a head for good: once a record is deleted no fork or  *)
(* save, also of a form that was open before, buries the deletion          *)
(* (the RecordDeletedError guards of createRevision, deleteRecord).        *)
TombstoneStaysHead == deleted \subseteq heads

(* r and the revisions it descends from. *)
Line[r \in Rev] == IF parent[r] = None THEN {r} ELSE {r} \cup Line[parent[r]]

(* A revision only refers to AVPs written for itself or for a revision it  *)
(* descends from, and to each of them for one field only: no value crosses *)
(* from one branch of a conflict, or from one field, into another.         *)
AvpsOfOwnLine ==
  \A r \in revisions, f \in Field : avps[r][f] # None =>
    /\ owner[avps[r][f]] \in Line[r]
    /\ \A q \in revisions, g \in Field : avps[q][g] = avps[r][f] => g = f

(* What a save of a form wrote is what a read of that revision returns,    *)
(* field for field, also for the fields it reverted, overwrote or dropped  *)
(* (updateRevision through createOrReuseAvps).                             *)
SaveTakesEffect ==
  [][\A s \in Session, d \in FormData : Save(s, d) => Content(work[s])' = d]_vars

(* With a record open in one form at a time, a step changes what only one  *)
(* revision reads: the one being edited, and that one has no child.  All   *)
(* the rest, the history of the record, is frozen, although revisions      *)
(* share AVP documents and saves overwrite some of them in place.          *)
OnlyEditedLeafChanges ==
  [][exclusive => \A r \in revisions : Content(r)' # Content(r) =>
       r \in heads /\ \E s \in Session : phase[s] = "editing" /\ work[s] = r]_vars

(* With a record open in one form at a time no conflict ever arises.       *)
NoConflict == \A r, q \in heads : r = q

-----------------------------------------------------------------------------
(* What makes the properties inductive.                                    *)

(* The revisions form a forest that grows downwards only.                  *)
TreeOK ==
  /\ \A r \in Rev : parent[r] # None => r \in revisions /\ parent[r] \in revisions
  /\ \A r \in Rev \ revisions, f \in Field : avps[r][f] = None

(* A revision holds its own AVPs and AVPs its parent holds, no other; each *)
(* was written for it or for a revision that has been forked since.        *)
OwnOrInherited ==
  \A r \in revisions, f \in Field : avps[r][f] # None =>
    /\ owner[avps[r][f]] = r \/ avps[r][f] = ParentAvp(r, f)
    /\ owner[avps[r][f]] \in {r} \cup (revisions \ heads)

(* Every AVP a map names was written for a revision of the history: an id  *)
(* that is free is in nobody's map.                                        *)
AvpsAllocated ==
  \A r \in Rev, f \in Field : avps[r][f] # None => owner[avps[r][f]] \in revisions

(* No two fields, of one revision or of two, name the same AVP.            *)
OneFieldPerAvp ==
  \A r, q \in Rev, f, g \in Field :
    avps[r][f] # None /\ avps[q][g] = avps[r][f] => g = f

(* At most one form is open, on a revision nobody has forked.              *)
OneFormOnAHead ==
  /\ \A s, t \in Session : phase[s] # "idle" /\ phase[t] # "idle" => s = t
  /\ \A s \in Session : phase[s] # "idle" => work[s] \in heads

(* With a record open in one form at a time: there is one head, only the   *)
(* open form works on it, and the AVPs of a head that its parent does not  *)
(* hold were written for it (createOrReuseAvps).                           *)
ExclusiveInv ==
  exclusive => NoConflict /\ OwnOrInherited /\ OneFormOnAHead
=============================================================================
