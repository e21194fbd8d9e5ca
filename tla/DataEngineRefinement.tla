------------------------- MODULE DataEngineRefinement -------------------------
(***************************************************************************)
(* Calls of the data engine that do not overlap implement RevisionStore,   *)
(* for any numbers of clients, revisions, AVPs, fields, retries and calls: *)
(* whatever a call reads is still so when it writes, and wherever it stops *)
(* the documents are those of a RevisionStore (property Sequential).       *)
(***************************************************************************)
EXTENDS DataEngineProofs

-----------------------------------------------------------------------------
(* The abstract state.                                                     *)

(* What RevisionStore sees is unchanged when its variables are.            *)
LEMMA Unseen ==
  ASSUME UNCHANGED <<rec.revisions, rec.heads, ListedParent, ListedDeleted, ListedAvps,
                     LinkedOwner, LinkedData, CreatorPhase, CreatorWork>>
  PROVE  UNCHANGED RS!vars
<1>1. rec.revisions' = rec.revisions /\ rec.heads' = rec.heads
  OBVIOUS
<1>2. /\ ListedParent' = ListedParent /\ ListedDeleted' = ListedDeleted
      /\ ListedAvps' = ListedAvps /\ LinkedOwner' = LinkedOwner /\ LinkedData' = LinkedData
      /\ CreatorPhase' = CreatorPhase /\ CreatorWork' = CreatorWork
  OBVIOUS
<1> QED BY <1>1, <1>2 DEF RS!vars, RS!docs

(* The root of a tree is the only revision that is nobody's child.         *)
LEMMA RootIsFirst ==
  ASSUME NEW S, NEW docs, NEW root \in S, None \notin S,
         \A r \in S : docs[r].parent = None <=> r = root,
         \A r \in S : docs[r].parent # None => docs[r].parent \in S
  PROVE  FirstOf(S, docs) = root
<1>1. \A q \in S : docs[root].parent # q
  OBVIOUS
<1>2. \A r \in S : (\A q \in S : docs[r].parent # q) => r = root
  OBVIOUS
<1> QED BY <1>1, <1>2 DEF FirstOf

(* The map that a save of d on r writes, and the AVPs it changes.          *)
Saves(r, d, map, ids) ==
  /\ \A f \in Field : map[f] =
       IF f \in RS!Kept(r, d) \cup RS!InPlace(r, d) THEN ListedAvps[r][f]
       ELSE IF f \in RS!Reverted(r, d) THEN RS!ParentAvp(r, f)
       ELSE IF f \in RS!Created(r, d) THEN ids[f] ELSE None
  /\ ListedAvps' = [ListedAvps EXCEPT ![r] = map]
  /\ \A a \in Avp : LinkedOwner'[a] =
       IF \E f \in RS!Created(r, d) : ids[f] = a THEN r ELSE LinkedOwner[a]
  /\ \A a \in Avp, f \in RS!InPlace(r, d) \cup RS!Created(r, d) :
       map[f] = a => LinkedData'[a] = d[f]
  /\ \A a \in Avp :
       (\A f \in RS!InPlace(r, d) \cup RS!Created(r, d) : map[f] # a)
         => LinkedData'[a] = LinkedData[a]
  /\ rec.revisions' = rec.revisions /\ rec.heads' = rec.heads
  /\ ListedParent' = ListedParent /\ ListedDeleted' = ListedDeleted

LEMMA AbstractSave ==
  ASSUME NEW r \in rec.revisions \ ListedDeleted, NEW d, NEW map \in MapOrNone,
         NEW ids \in RS!NewIds(r, d), Saves(r, d, map, ids)
  PROVE  RS!WriteRevision(r, d)
<1> USE DEF Saves
<1> DEFINE written == [f \in Field |->
             IF f \in RS!Kept(r, d) \cup RS!InPlace(r, d) THEN ListedAvps[r][f]
             ELSE IF f \in RS!Reverted(r, d) THEN RS!ParentAvp(r, f)
             ELSE IF f \in RS!Created(r, d) THEN ids[f] ELSE None]
           target == [a \in Avp |->
             {f \in RS!InPlace(r, d) \cup RS!Created(r, d) : written[f] = a}]
           owners == [a \in Avp |->
               IF \E f \in RS!Created(r, d) : ids[f] = a THEN r ELSE LinkedOwner[a]]
           values == [a \in Avp |->
               IF target[a] # {} THEN d[CHOOSE f \in target[a] : TRUE]
               ELSE LinkedData[a]]
<1>1. map = written
  BY DEF MapOrNone
<1>2. RS!InPlace(r, d) \cup RS!Created(r, d) \subseteq Field
  BY DEF RS!InPlace, RS!Created
<1>3. LinkedOwner' = owners
  <2>1. \A a \in Avp : LinkedOwner'[a] = owners[a]
    OBVIOUS
  <2>2. LinkedOwner' = [a \in Avp |-> LinkedOwner'[a]]
    BY DEF LinkedOwner
  <2> HIDE DEF owners
  <2>3. owners = [a \in Avp |-> owners[a]]
    BY DEF owners
  <2> QED BY <2>1, <2>2, <2>3
<1>4. LinkedData' = values
  <2>1. ASSUME NEW a \in Avp PROVE LinkedData'[a] = values[a]
    <3>1. CASE target[a] # {}
      <4>1. PICK f \in target[a] : f = CHOOSE g \in target[a] : TRUE
        BY <3>1
      <4>2. values[a] = d[CHOOSE g \in target[a] : TRUE]
        BY <3>1
      <4>3. target[a] = {g \in RS!InPlace(r, d) \cup RS!Created(r, d) : written[g] = a}
        OBVIOUS
      <4> HIDE DEF target, written
      <4>4. f \in RS!InPlace(r, d) \cup RS!Created(r, d) /\ map[f] = a
        BY <1>1, <4>1, <4>3
      <4>5. LinkedData'[a] = d[f]
        BY <4>4
      <4> HIDE DEF values
      <4> QED BY <4>1, <4>2, <4>5
    <3>2. CASE target[a] = {}
      BY <1>1, <3>2
    <3> QED BY <3>1, <3>2
  <2>2. LinkedData' = [a \in Avp |-> LinkedData'[a]]
    BY DEF LinkedData
  <2> HIDE DEF values
  <2>3. values = [a \in Avp |-> values[a]]
    BY DEF values
  <2> QED BY <2>1, <2>2, <2>3
<1>5. /\ ListedAvps' = [ListedAvps EXCEPT ![r] = written]
      /\ LinkedOwner' = owners /\ LinkedData' = values
  BY <1>1, <1>3, <1>4
<1> HIDE DEF written, owners, values, target
<1>6. \E alloc \in RS!NewIds(r, d) :
        LET w == [f \in Field |->
             IF f \in RS!Kept(r, d) \cup RS!InPlace(r, d) THEN ListedAvps[r][f]
             ELSE IF f \in RS!Reverted(r, d) THEN RS!ParentAvp(r, f)
             ELSE IF f \in RS!Created(r, d) THEN alloc[f] ELSE None]
            t == [a \in Avp |->
             {f \in RS!InPlace(r, d) \cup RS!Created(r, d) : w[f] = a}]
        IN /\ ListedAvps' = [ListedAvps EXCEPT ![r] = w]
           /\ LinkedOwner' = [a \in Avp |->
               IF \E f \in RS!Created(r, d) : alloc[f] = a THEN r ELSE LinkedOwner[a]]
           /\ LinkedData' = [a \in Avp |->
               IF t[a] # {} THEN d[CHOOSE f \in t[a] : TRUE]
               ELSE LinkedData[a]]
  <2> WITNESS ids \in RS!NewIds(r, d)
  <2> QED BY <1>5 DEF written, owners, values, target
<1> QED BY <1>6 DEF RS!WriteRevision

(* The creator's form stays on the root of the tree.                       *)
LEMMA CreatorStays ==
  ASSUME TypeOK, OneRoot, OneRoot', rec'.revisions = rec.revisions,
         rec.rev # 0 => rec'.rev > 0, rec.rev = 0 => rec'.rev = 0,
         \A r \in rec.revisions : rdoc'[r].parent = rdoc[r].parent
  PROVE  CreatorPhase' = CreatorPhase /\ CreatorWork' = CreatorWork
<1>1. CASE rec.rev = 0
  BY <1>1 DEF CreatorPhase, CreatorWork
<1>2. CASE rec.rev # 0
  <2>1. rec.rev > 0 /\ rec'.rev > 0 /\ None \notin rec.revisions
    BY <1>2, Constants DEF TypeOK
  <2>2. PICK root \in rec.revisions :
          \A r \in rec.revisions : rdoc[r].parent = None <=> r = root
    BY <2>1 DEF OneRoot
  <2>3. FirstOf(rec.revisions, rdoc) = root
    BY <2>1, <2>2, RootIsFirst DEF OneRoot
  <2>4. FirstOf(rec.revisions, rdoc') = root
    BY <2>1, <2>2, RootIsFirst DEF OneRoot
  <2>5. CreatorWork' = CreatorWork
    BY <1>2, <2>1, <2>3, <2>4 DEF CreatorWork
  <2> QED BY <1>2, <2>1, <2>5 DEF CreatorPhase
<1> QED BY <1>1, <1>2

(* RevisionStore sees neither the `_rev`s, nor what the record does not    *)
(* list, nor what no map names.                                            *)
LEMMA ViewStays ==
  ASSUME TypeOK, OneRoot, OneRoot', rec' \in [rev : Nat, heads : SUBSET Rev, revisions : SUBSET Rev],
         rec'.revisions = rec.revisions, rec'.heads = rec.heads,
         rec'.rev = 0 <=> rec.rev = 0, linked' = linked,
         \A r \in rec.revisions : /\ rdoc'[r].parent = rdoc[r].parent
                                  /\ rdoc'[r].del = rdoc[r].del
                                  /\ rdoc'[r].avps = rdoc[r].avps,
         \A a \in linked : adoc'[a].owner = adoc[a].owner /\ adoc'[a].data = adoc[a].data
  PROVE  UNCHANGED RS!vars
<1>1. ListedParent' = ListedParent
  BY DEF ListedParent
<1>2. ListedDeleted' = ListedDeleted
  BY DEF ListedDeleted
<1>3. ListedAvps' = ListedAvps
  BY DEF ListedAvps, NoMap
<1>4. LinkedOwner' = LinkedOwner /\ LinkedData' = LinkedData
  BY DEF LinkedOwner, LinkedData
<1>5. CreatorPhase' = CreatorPhase /\ CreatorWork' = CreatorWork
  <2>1. rec.rev # 0 => rec'.rev > 0
    OBVIOUS
  <2> QED BY <2>1, CreatorStays
<1> QED BY <1>1, <1>2, <1>3, <1>4, <1>5, Unseen

-----------------------------------------------------------------------------
(* The steps.                                                              *)
StepOK == SequentialInv' /\ (RS!Next \/ UNCHANGED RS!vars)

LEMMA Alone ==
  ASSUME SequentialInv, ~overlap, NEW c \in Client, call[c].at # "idle"
  PROVE  /\ OneRoot /\ UnusedIsBlank /\ LinksOK /\ ReadOK(call[c]) /\ WriteOK(c)
         /\ \A o \in Client \ {c} : call[o] = Idle
BY DEF SequentialInv, OneAtATime, Idle

LEMMA NotOverlapping ==
  ASSUME SequentialInv, ~overlap, NEW c \in Client, NEW w, Start(c, w)
  PROVE  /\ OneRoot /\ UnusedIsBlank /\ LinksOK
         /\ \A o \in Client : call[o] = Idle
         /\ call' = [call EXCEPT ![c] = w] /\ overlap' = overlap
BY DEF SequentialInv, Start

(* What has to be shown of a client's step for the invariant.              *)
LEMMA CallMoves ==
  ASSUME TypeOK, ~overlap, overlap' = overlap, NEW c \in Client, NEW w,
         call' = [call EXCEPT ![c] = w],
         \A o \in Client \ {c} : call[o] = Idle,
         OneRoot', UnusedIsBlank', LinksOK', ReadOK(call[c])', WriteOK(c)'
  PROVE  SequentialInv'
<1>1. /\ DOMAIN call' = Client /\ call'[c] = w
      /\ \A o \in Client \ {c} : call'[o] = Idle
  BY Moves DEF TypeOK
<1>2. OneAtATime'
  BY <1>1 DEF OneAtATime
<1>3. ASSUME NEW o \in Client PROVE ReadOK(call[o])' /\ WriteOK(o)'
  <2>1. CASE o = c
    BY <2>1
  <2>2. CASE o # c
    <3>1. call'[o].at = "idle"
      BY <1>1, <2>2 DEF Idle
    <3> QED BY <3>1 DEF ReadOK, WriteOK
  <2> QED BY <2>1, <2>2
<1> QED BY <1>2, <1>3 DEF SequentialInv

(* The same of a step that writes nothing: RevisionStore stutters.         *)
LEMMA CallReads ==
  ASSUME TypeOK, ~overlap, overlap' = overlap, NEW c \in Client, NEW w,
         call' = [call EXCEPT ![c] = w], UNCHANGED <<dbVars, returned, linked>>,
         \A o \in Client \ {c} : call[o] = Idle,
         OneRoot, UnusedIsBlank, LinksOK, ReadOK(call[c])', WriteOK(c)'
  PROVE  StepOK
<1>1. UNCHANGED <<rec, rdoc, adoc, returned, linked>>
  BY DEF dbVars
<1>2. OneRoot' /\ UnusedIsBlank' /\ LinksOK'
  BY <1>1 DEF OneRoot, UnusedIsBlank, LinksOK, NoMap
<1>3. SequentialInv'
  BY <1>2, CallMoves
<1>4. rec' \in [rev : Nat, heads : SUBSET Rev, revisions : SUBSET Rev]
  BY <1>1 DEF TypeOK
<1>5. UNCHANGED RS!vars
  BY <1>1, <1>2, <1>4, ViewStays
<1> QED BY <1>3, <1>5 DEF StepOK

-----------------------------------------------------------------------------
(* Steps that only read.                                                   *)
LEMMA KnownIsListed ==
  ASSUME UnusedIsBlank, NEW r \in Known
  PROVE  r \in rec.revisions
BY DEF UnusedIsBlank, Known

LEMMA ForkReads ==
  ASSUME TypeOK, SequentialInv, ~overlap, NEW c \in Client, NEW op \in {"fork", "delete"},
         NEW base \in Rev, Fork(c, op, base)
  PROVE  StepOK
<1> DEFINE w == [op |-> op, at |-> "putChild", target |-> base, avps |-> rdoc[base].avps]
<1>1. Start(c, w) /\ base \in Known /\ ~rdoc[base].del
      /\ UNCHANGED <<dbVars, returned, linked>>
  BY DEF Fork
<1> HIDE DEF w
<1>2. /\ OneRoot /\ UnusedIsBlank /\ LinksOK /\ \A o \in Client : call[o] = Idle
      /\ call' = [call EXCEPT ![c] = w] /\ overlap' = overlap
  BY <1>1, NotOverlapping
<1>3. call'[c] = w
  BY <1>2, Moves DEF TypeOK
<1>4. UNCHANGED <<rec, rdoc>>
  BY <1>1 DEF dbVars
<1>5. ReadOK(call[c])' /\ WriteOK(c)'
  BY <1>1, <1>2, <1>3, <1>4, KnownIsListed DEF w, ReadOK, WriteOK
<1> QED BY <1>1, <1>2, <1>5, CallReads

LEMMA UpdateReads ==
  ASSUME TypeOK, SequentialInv, ~overlap, NEW c \in Client, NEW r \in Rev,
         NEW d \in FormData, NEW bump \in Bumps, Update(c, r, d, bump)
  PROVE  StepOK
<1> DEFINE w == [op |-> "update", at |-> "hydrate", target |-> r, data |-> d,
                 bump |-> bump, cur |-> rdoc[r]]
<1>1. Start(c, w) /\ r \in Known /\ ~rdoc[r].del /\ UNCHANGED <<dbVars, returned, linked>>
  BY DEF Update
<1> HIDE DEF w
<1>2. /\ OneRoot /\ UnusedIsBlank /\ LinksOK /\ \A o \in Client : call[o] = Idle
      /\ call' = [call EXCEPT ![c] = w] /\ overlap' = overlap
  BY <1>1, NotOverlapping
<1>3. call'[c] = w
  BY <1>2, Moves DEF TypeOK
<1>4. UNCHANGED <<rec, rdoc>>
  BY <1>1 DEF dbVars
<1>5. ReadOK(call[c])' /\ WriteOK(c)'
  BY <1>1, <1>2, <1>3, <1>4, KnownIsListed DEF w, ReadOK, WriteOK
<1> QED BY <1>1, <1>2, <1>5, CallReads

LEMMA StampReads ==
  ASSUME TypeOK, SequentialInv, ~overlap, NEW c \in Client, NEW r \in Rev, Stamp(c, r)
  PROVE  StepOK
<1> DEFINE w == [op |-> "stamp", at |-> "readRevision", target |-> r,
                 then |-> "stampRecord"]
<1>1. Start(c, w) /\ r \in Known /\ UNCHANGED <<dbVars, returned, linked>>
  BY DEF Stamp
<1> HIDE DEF w
<1>2. /\ OneRoot /\ UnusedIsBlank /\ LinksOK /\ \A o \in Client : call[o] = Idle
      /\ call' = [call EXCEPT ![c] = w] /\ overlap' = overlap
  BY <1>1, NotOverlapping
<1>3. call'[c] = w
  BY <1>2, Moves DEF TypeOK
<1>4. UNCHANGED <<rec, rdoc>>
  BY <1>1 DEF dbVars
<1>5. ReadOK(call[c])' /\ WriteOK(c)'
  BY <1>1, <1>2, <1>3, <1>4, KnownIsListed DEF w, ReadOK, WriteOK
<1> QED BY <1>1, <1>2, <1>5, CallReads

LEMMA ReadRecordReads ==
  ASSUME TypeOK, SequentialInv, ~overlap, NEW c \in Client, ReadRecord(c)
  PROVE  StepOK
<1> DEFINE w == call[c]
           w2 == [op |-> w.op, at |-> "put", kind |-> "record", target |-> w.target,
                  new |-> IF w.op \in {"fork", "delete"} THEN w.new ELSE None,
                  rev |-> rec.rev, body |-> RecordBody(c), clashes |-> 0,
                  then |-> "done"]
<1>1. /\ w.at = "readRecord" /\ UNCHANGED <<dbVars, returned, linked>>
      /\ call' = [call EXCEPT ![c] = w2] /\ overlap' = overlap
  BY DEF ReadRecord, Goto
<1> HIDE DEF w2
<1>2. /\ OneRoot /\ UnusedIsBlank /\ LinksOK /\ ReadOK(w)
      /\ \A o \in Client \ {c} : call[o] = Idle
  BY <1>1, Alone
<1>3. call'[c] = w2
  BY <1>1, Moves DEF TypeOK
<1>4. UNCHANGED <<rec, rdoc>>
  BY <1>1 DEF dbVars
<1>5. /\ w2.at = "put" /\ w2.kind = "record" /\ w2.op = w.op /\ w2.target = w.target
      /\ w2.body = RecordBody(c)
      /\ w2.op \in {"fork", "delete"} => w2.new = w.new
  BY DEF w2
<1>6. ReadOK(call[c])'
  BY <1>1, <1>2, <1>3, <1>4, <1>5 DEF ReadOK
<1>7. RecordBody(c)' = RecordBody(c)
  BY <1>3, <1>4, <1>5 DEF RecordBody, HeadsAfter
<1>8. WriteOK(c)'
  BY <1>3, <1>5, <1>7 DEF WriteOK
<1> QED BY <1>1, <1>2, <1>6, <1>8, CallReads

LEMMA ReadRevisionReads ==
  ASSUME TypeOK, SequentialInv, ~overlap, NEW c \in Client, ReadRevision(c)
  PROVE  StepOK
<1> DEFINE w == call[c]
           w2 == [op |-> "stamp", at |-> "put", kind |-> "revision", target |-> w.target,
                  rev |-> rdoc[w.target].rev, body |-> rdoc[w.target].avps, clashes |-> 0,
                  then |-> w.then]
<1>1. /\ w.at = "readRevision" /\ UNCHANGED <<dbVars, returned, linked>>
      /\ call' = [call EXCEPT ![c] = w2] /\ overlap' = overlap
  BY DEF ReadRevision, Goto
<1> HIDE DEF w2
<1>2. /\ OneRoot /\ UnusedIsBlank /\ LinksOK /\ ReadOK(w)
      /\ \A o \in Client \ {c} : call[o] = Idle
  BY <1>1, Alone
<1>3. call'[c] = w2
  BY <1>1, Moves DEF TypeOK
<1>4. UNCHANGED <<rec, rdoc>>
  BY <1>1 DEF dbVars
<1>5. /\ w2.at = "put" /\ w2.kind = "revision" /\ w2.op = "stamp" /\ w2.target = w.target
      /\ w2.body = rdoc[w.target].avps
  BY DEF w2
<1>6. w.target \in rec.revisions
  BY <1>1, <1>2 DEF ReadOK
<1>7. ReadOK(call[c])' /\ WriteOK(c)'
  BY <1>3, <1>4, <1>5, <1>6 DEF ReadOK, WriteOK
<1> QED BY <1>1, <1>2, <1>7, CallReads

(* A call that stops, or gives up after a clash.                           *)
LEMMA CallEnds ==
  ASSUME TypeOK, SequentialInv, ~overlap, NEW c \in Client, call[c].at # "idle",
         Finish(c), UNCHANGED <<dbVars, returned, linked>>
  PROVE  StepOK
<1>1. call' = [call EXCEPT ![c] = Idle] /\ overlap' = overlap
  BY DEF Finish, Goto
<1>2. call'[c].at = "idle"
  BY <1>1, Moves DEF TypeOK, Idle
<1>3. ReadOK(call[c])' /\ WriteOK(c)'
  BY <1>2 DEF ReadOK, WriteOK
<1> QED BY <1>1, <1>3, Alone, CallReads

(* A clash, and the new try, leave what is to be written as it is.         *)
LEMMA RetryReads ==
  ASSUME TypeOK, SequentialInv, ~overlap, NEW c \in Client, PutClash(c) \/ RereadRev(c)
  PROVE  StepOK
<1> DEFINE w == call[c]
<1>0. w.at \in {"put", "reread"} /\ UNCHANGED <<dbVars, returned, linked>>
  BY DEF PutClash, RereadRev
<1>1. CASE Finish(c)
  BY <1>0, <1>1, CallEnds
<1>2. ASSUME NEW w2, Goto(c, w2), w2.at \in {"put", "reread"}, w2.kind = w.kind,
             w2.op = w.op, w2.target = w.target, w2.body = w.body,
             w.op \in {"fork", "delete"} => w2.new = w.new
      PROVE  StepOK
  <2>1. call' = [call EXCEPT ![c] = w2] /\ overlap' = overlap
    BY <1>2 DEF Goto
  <2>2. /\ OneRoot /\ UnusedIsBlank /\ LinksOK /\ ReadOK(w) /\ WriteOK(c)
        /\ \A o \in Client \ {c} : call[o] = Idle
    BY <1>0, Alone
  <2>3. call'[c] = w2
    BY <2>1, Moves DEF TypeOK
  <2>4. UNCHANGED <<rec, rdoc, adoc, linked>>
    BY <1>0 DEF dbVars
  <2>5. ReadOK(call[c])'
    BY <1>0, <1>2, <2>2, <2>3, <2>4 DEF ReadOK
  <2>6. RecordBody(c)' = RecordBody(c)
    BY <1>2, <2>3, <2>4 DEF RecordBody, HeadsAfter
  <2>7. \A r, map : PlanOK(r, map)' <=> PlanOK(r, map)
    BY <2>4 DEF PlanOK, UpMap, Inherits, DataOf, NoMap
  <2>8. WriteOK(c)'
    BY <1>0, <1>2, <2>2, <2>3, <2>4, <2>6, <2>7 DEF WriteOK
  <2> QED BY <1>0, <2>1, <2>2, <2>5, <2>8, CallReads
<1>3. \/ w \in PutRecordCall \/ w \in PutRevisionCall
  BY <1>0, Shapes DEF TypeOK
<1>4. CASE Goto(c, [w EXCEPT !.at = "reread", !.clashes = @ + 1])
  BY <1>2, <1>3, <1>4 DEF PutRecordCall, RecordPut, PutRevisionCall
<1>5. CASE Goto(c, [w EXCEPT !.at = "put", !.rev = StoredRev(c)])
  BY <1>2, <1>3, <1>5 DEF PutRecordCall, RecordPut, PutRevisionCall
<1> QED BY <1>1, <1>4, <1>5 DEF PutClash, RereadRev

(* No field of a plan made of the maps of r and its parent clashes with    *)
(* another: a stored AVP is one field's.                                   *)
LEMMA StoredMapsDiffer ==
  ASSUME LinksOK, NEW r \in Rev, rdoc[r].parent \in Rev \cup {None}, NEW map,
         \A f \in Field : map[f] \in {None, rdoc[r].avps[f], UpMap(r)[f]}
  PROVE  \A f, g \in Field : map[f] # None /\ map[f] = map[g] => f = g
<1>1. ASSUME NEW f \in Field, map[f] # None
      PROVE  \E q \in Rev : rdoc[q].avps[f] = map[f]
  <2>1. CASE rdoc[r].parent = None
    BY <1>1, <2>1 DEF UpMap, NoMap
  <2>2. CASE rdoc[r].parent # None
    BY <1>1, <2>2 DEF UpMap
  <2> QED BY <2>1, <2>2
<1> QED BY <1>1 DEF LinksOK

(* A plan is as good as it was while the documents are as they were.       *)
LEMMA PlansStay ==
  ASSUME UNCHANGED <<rec, rdoc, adoc, linked>>, NEW c, NEW w, call'[c] = w
  PROVE  /\ MakeOK(w) => MakeOK(call[c])'
         /\ OverOK(w) => OverOK(call[c])'
         /\ PlanOK(w.target, w.map) => PlanOK(call[c].target, call[c].map)'
         /\ PlanOK(w.target, w.body) => PlanOK(call[c].target, call[c].body)'
<1>1. \A r, f : Inherits(r, f)' <=> Inherits(r, f)
  BY DEF Inherits, UpMap, NoMap
<1>2. \A r : UpMap(r)' = UpMap(r)
  BY DEF UpMap, NoMap
<1>3. \A map, f : DataOf(map, f)' = DataOf(map, f)
  BY DEF DataOf
<1>4. MakeOK(w) => MakeOK(call[c])'
  BY <1>1, <1>2, <1>3 DEF MakeOK
<1>5. OverOK(w) => OverOK(call[c])'
  BY <1>1, <1>2, <1>3 DEF OverOK
<1>6. \A map : PlanOK(w.target, map) => PlanOK(w.target, map)'
  BY <1>1, <1>2, <1>3 DEF PlanOK
<1> QED BY <1>4, <1>5, <1>6 DEF PlanOK

LEMMA HydrateReads ==
  ASSUME TypeOK, SequentialInv, ~overlap, NEW c \in Client, Hydrate(c)
  PROVE  StepOK
<1> DEFINE w == call[c]
           t == w.target
           d == w.data
           cur == w.cur.avps
           hyd == rdoc[t].avps
           up == IF w.cur.parent = None THEN NoMap ELSE rdoc[w.cur.parent].avps
           over == InPlace(t, cur, hyd, up, d)
           map == [f \in Field |->
                    IF f \in Kept(hyd, d) \cup over THEN cur[f]
                    ELSE IF f \in Reverted(hyd, up, d) THEN up[f] ELSE None]
           make == Created(t, cur, hyd, up, d)
           changed == \/ make # {} \/ Reverted(hyd, up, d) # {}
                      \/ \E f \in Field : cur[f] # None /\ d[f] = None
           w2 == [op |-> "update", at |-> "create", target |-> t,
               bump |-> w.bump, rev |-> w.cur.rev, map |-> map,
               make |-> [f \in make |-> d[f]],
               over |-> [f \in over |-> [rev |-> adoc[cur[f]].rev, data |-> d[f]]],
               changed |-> changed]
<1>1. w.at = "hydrate" /\ UNCHANGED <<dbVars, returned, linked>>
  BY DEF Hydrate
<1>2. Finish(c) \/ Goto(c, w2)
  BY DEF Hydrate
<1>3. CASE Finish(c)
  BY <1>1, <1>3, CallEnds
<1>4. CASE Goto(c, w2)
  <2>1. call' = [call EXCEPT ![c] = w2] /\ overlap' = overlap
    BY <1>4 DEF Goto
  <2>2. /\ OneRoot /\ UnusedIsBlank /\ LinksOK /\ ReadOK(w)
        /\ \A o \in Client \ {c} : call[o] = Idle
    BY <1>1, Alone
  <2>3. /\ t \in Rev /\ d \in FormData /\ rdoc[t].parent \in Rev \cup {None}
        /\ w.op = "update"
    BY <1>1, Shapes DEF TypeOK, UpdateCall
  <2>4. /\ t \in rec.revisions /\ ~rdoc[t].del /\ cur = hyd
        /\ w.cur.parent = rdoc[t].parent
    BY <1>1, <2>2, <2>3 DEF ReadOK
  <2>5. up = UpMap(t)
    BY <2>4 DEF UpMap
  <2>6. ASSUME NEW f \in Field
        PROVE  /\ f \in Kept(hyd, d) <=> d[f] # None /\ DataOf(hyd, f) = d[f]
               /\ f \in Reverted(hyd, up, d) <=>
                    d[f] # None /\ DataOf(hyd, f) # d[f] /\ DataOf(up, f) = d[f]
               /\ f \in over <=> /\ d[f] # None /\ ~Inherits(t, f)
                                  /\ d[f] \notin {DataOf(hyd, f), DataOf(up, f)}
               /\ f \in make => /\ d[f] # None /\ Inherits(t, f) /\ map[f] = None
                                 /\ d[f] \notin {DataOf(hyd, f), DataOf(up, f)}
    <3>1. f \in Kept(hyd, d) <=> d[f] # None /\ DataOf(hyd, f) = d[f]
      BY DEF Kept
    <3>2. f \in Reverted(hyd, up, d) <=>
            d[f] # None /\ DataOf(hyd, f) # d[f] /\ DataOf(up, f) = d[f]
      BY <3>1 DEF Reverted
    <3>3. f \in over <=> /\ d[f] # None /\ hyd[f] # None
                         /\ f \notin Kept(hyd, d) \cup Reverted(hyd, up, d)
                         /\ rdoc[t].parent = None \/ hyd[f] # up[f]
      BY <2>4 DEF InPlace
    <3>4. Inherits(t, f) <=> hyd[f] = None \/ (rdoc[t].parent # None /\ hyd[f] = up[f])
      BY <2>5 DEF Inherits
    <3>5. f \in make <=> d[f] # None /\ f \notin Kept(hyd, d) \cup Reverted(hyd, up, d) \cup over
      BY DEF Created
    <3>6. f \in make => map[f] = None
      BY <3>5
    <3> HIDE DEF over, make, map, hyd, up
    <3> QED BY <3>1, <3>2, <3>3, <3>4, <3>5, <3>6
  <2>7. \A f \in Field : \/ map[f] = None \/ map[f] = hyd[f]
                         \/ map[f] = up[f] /\ f \in Reverted(hyd, up, d)
    BY <2>4
  <2>8. \A f \in over : map[f] = hyd[f] /\ f \in Field
    BY <2>4 DEF InPlace
  <2>9. make \subseteq Field
    BY DEF Created
  <2>10. /\ w2.op = "update" /\ w2.at = "create" /\ w2.target = t /\ w2.map = map
         /\ DOMAIN w2.make = make /\ \A f \in make : w2.make[f] = d[f]
         /\ DOMAIN w2.over = over /\ \A f \in over : w2.over[f].data = d[f]
    OBVIOUS
  <2> HIDE DEF over, make, map, changed, w2
  <2>11. MakeOK(w2)
    BY <2>5, <2>6, <2>9, <2>10 DEF MakeOK
  <2>12. OverOK(w2)
    BY <2>5, <2>6, <2>8, <2>10 DEF OverOK
  <2>13. PlanOK(t, map)
    <3>1. ASSUME NEW f \in Field, map[f] \notin {None, rdoc[t].avps[f]}
          PROVE  map[f] = UpMap(t)[f] /\ DataOf(rdoc[t].avps, f) # adoc[map[f]].data
      <4>1. map[f] = up[f] /\ f \in Reverted(hyd, up, d)
        BY <2>7, <3>1
      <4>2. DataOf(hyd, f) # d[f] /\ DataOf(up, f) = d[f]
        BY <2>6, <4>1
      <4>3. DataOf(up, f) = adoc[map[f]].data
        BY <3>1, <4>1 DEF DataOf
      <4> QED BY <2>5, <4>1, <4>2, <4>3
    <3>2. \A f, g \in Field : map[f] # None /\ map[f] = map[g] => f = g
      BY <2>2, <2>3, <2>5, <2>7, StoredMapsDiffer
    <3> QED BY <3>1, <3>2 DEF PlanOK
  <2>14. UNCHANGED <<rec, rdoc, adoc, linked>>
    BY <1>1 DEF dbVars
  <2>15. call'[c] = w2
    BY <2>1, Moves DEF TypeOK
  <2>16. MakeOK(call[c])' /\ OverOK(call[c])' /\ PlanOK(call[c].target, call[c].map)'
    BY <2>10, <2>11, <2>12, <2>13, <2>14, <2>15, PlansStay
  <2>17. ReadOK(call[c])' /\ WriteOK(c)'
    <3> HIDE DEF w, t
    <3>1. call'[c].op = "update" /\ call'[c].at = "create" /\ call'[c].target = t
      BY <2>10, <2>15
    <3> QED BY <2>4, <2>14, <2>16, <3>1 DEF ReadOK, WriteOK
  <2> QED BY <1>1, <2>1, <2>2, <2>17, CallReads
<1> QED BY <1>2, <1>3, <1>4

-----------------------------------------------------------------------------
(* Steps that write a record or a new revision.                            *)
LEMMA CreateRecordStores ==
  ASSUME Inv, SequentialInv, ~overlap, NEW c \in Client, NEW r \in Rev, CreateRecord(c, r)
  PROVE  StepOK
<1> DEFINE w == [op |-> "create", at |-> "putFirst", target |-> r]
<1>1. /\ Start(c, w) /\ rec.rev = 0 /\ UNCHANGED <<rdoc, adoc, returned, linked>>
      /\ rec' = [rev |-> 1, heads |-> {r}, revisions |-> {r}]
  BY DEF CreateRecord
<1>2. w.at = "putFirst"
  OBVIOUS
<1> HIDE DEF w
<1>3. /\ UnusedIsBlank /\ LinksOK /\ \A o \in Client : call[o] = Idle
      /\ call' = [call EXCEPT ![c] = w] /\ overlap' = overlap /\ TypeOK
  BY <1>1, NotOverlapping DEF Inv
<1>4. call'[c] = w
  BY <1>3, Moves DEF TypeOK
<1>5. rec.revisions = {} /\ returned = {} /\ \A q \in Rev : rdoc[q].rev = 0
  BY <1>1 DEF Inv, BeginningOK
<1>6. rdoc[r].parent = None /\ ~rdoc[r].del /\ rdoc[r].avps = NoMap
  BY <1>3, <1>5 DEF UnusedIsBlank
<1>7. OneRoot' /\ UnusedIsBlank' /\ LinksOK'
  BY <1>1, <1>3, <1>5, <1>6 DEF OneRoot, UnusedIsBlank, LinksOK, NoMap
<1>8. ReadOK(call[c])' /\ WriteOK(c)'
  BY <1>2, <1>4 DEF ReadOK, WriteOK
<1>9. SequentialInv'
  BY <1>3, <1>7, <1>8, CallMoves
<1>10. RS!CreateRecord("creator", r)
  <2>1. ListedParent' = ListedParent
    BY <1>1, <1>5, <1>6 DEF ListedParent
  <2>2. ListedDeleted' = ListedDeleted
    BY <1>1, <1>5, <1>6 DEF ListedDeleted
  <2>3. ListedAvps' = ListedAvps
    BY <1>1, <1>5, <1>6 DEF ListedAvps, NoMap
  <2>4. LinkedOwner' = LinkedOwner /\ LinkedData' = LinkedData
    BY <1>1 DEF LinkedOwner, LinkedData
  <2>5. CreatorPhase = "idle" /\ CreatorPhase' = "editing"
    BY <1>1 DEF CreatorPhase
  <2>6. FirstOf(rec'.revisions, rdoc') = r
    BY <1>1, <1>6, Constants, RootIsFirst
  <2>7. CreatorWork' = r
    BY <1>1, <2>6 DEF CreatorWork
  <2> QED BY <1>1, <1>5, <2>1, <2>2, <2>3, <2>4, <2>5, <2>7 DEF RS!CreateRecord
<1> QED BY <1>9, <1>10 DEF StepOK, RS!Next

(* Every map is one there was before.                                      *)
LEMMA LinksStay ==
  ASSUME LinksOK, \A r \in Rev : \E q \in Rev : rdoc'[r].avps = rdoc[q].avps,
         UNCHANGED <<adoc, linked>>
  PROVE  LinksOK'
<1>1. ASSUME NEW r \in Rev, NEW f \in Field, rdoc'[r].avps[f] # None
      PROVE  rdoc'[r].avps[f] \in linked
  <2>1. PICK q \in Rev : rdoc'[r].avps = rdoc[q].avps
    OBVIOUS
  <2> QED BY <1>1, <2>1 DEF LinksOK
<1>2. ASSUME NEW r \in Rev, NEW q \in Rev, NEW f \in Field, NEW g \in Field,
             rdoc'[r].avps[f] # None, rdoc'[q].avps[g] = rdoc'[r].avps[f]
      PROVE  g = f
  <2>1. PICK r0 \in Rev : rdoc'[r].avps = rdoc[r0].avps
    OBVIOUS
  <2>2. PICK q0 \in Rev : rdoc'[q].avps = rdoc[q0].avps
    OBVIOUS
  <2> QED BY <1>2, <2>1, <2>2 DEF LinksOK
<1> QED BY <1>1, <1>2 DEF LinksOK

LEMMA PutFirstRevisionStores ==
  ASSUME TypeOK, TypeOK', SequentialInv, ~overlap, NEW c \in Client, PutFirstRevision(c)
  PROVE  StepOK
<1> DEFINE t == call[c].target
<1>1. /\ call[c].at = "putFirst" /\ rdoc' = [rdoc EXCEPT ![t].rev = 1]
      /\ call' = [call EXCEPT ![c] = Idle]
      /\ UNCHANGED <<overlap, rec, adoc, returned, linked>>
  BY DEF PutFirstRevision, Finish, Goto
<1>2. OneRoot /\ UnusedIsBlank /\ LinksOK /\ \A o \in Client \ {c} : call[o] = Idle
  BY <1>1, Alone
<1>3. \A r \in Rev : /\ rdoc'[r].parent = rdoc[r].parent /\ rdoc'[r].del = rdoc[r].del
                     /\ rdoc'[r].avps = rdoc[r].avps
                     /\ rdoc'[r].rev = 0 => rdoc[r].rev = 0
  <2>1. t \in Rev
    BY <1>1, Shapes DEF TypeOK, CreateCall
  <2> HIDE DEF t
  <2> QED BY <1>1, <2>1 DEF TypeOK
<1>4. rec.revisions \subseteq Rev
  BY DEF TypeOK
<1>5. OneRoot' /\ UnusedIsBlank' /\ LinksOK'
  <2>1. OneRoot'
    BY <1>1, <1>2, <1>3, <1>4 DEF OneRoot
  <2>2. UnusedIsBlank'
    BY <1>1, <1>2, <1>3 DEF UnusedIsBlank, NoMap
  <2>3. LinksOK'
    BY <1>1, <1>2, <1>3 DEF LinksOK
  <2> QED BY <2>1, <2>2, <2>3
<1>6. call'[c].at = "idle"
  BY <1>1, Moves DEF TypeOK, Idle
<1>7. SequentialInv'
  BY <1>1, <1>2, <1>5, <1>6, CallMoves DEF ReadOK, WriteOK
<1>8. UNCHANGED RS!vars
  <2>1. rec' \in [rev : Nat, heads : SUBSET Rev, revisions : SUBSET Rev]
    BY DEF TypeOK
  <2> QED BY <1>1, <1>2, <1>3, <1>4, <1>5, <2>1, ViewStays
<1> QED BY <1>7, <1>8 DEF StepOK

(* A child that the record does not list yet is nobody's business.         *)
LEMMA PutChildStores ==
  ASSUME TypeOK, TypeOK', SequentialInv, ~overlap, NEW c \in Client, NEW new \in Rev,
         PutChild(c, new)
  PROVE  StepOK
<1> DEFINE w == call[c]
           doc == [rev |-> 1, parent |-> w.target, del |-> w.op = "delete", avps |-> w.avps]
           w2 == [op |-> w.op, at |-> "readRecord", target |-> w.target, new |-> new]
<1>1. /\ w.at = "putChild" /\ new \notin rec.revisions /\ rdoc[new].rev = 0
      /\ rdoc' = [rdoc EXCEPT ![new] = doc] /\ call' = [call EXCEPT ![c] = w2]
      /\ UNCHANGED <<overlap, rec, adoc, returned, linked>>
  BY DEF PutChild, Goto
<1>2. /\ OneRoot /\ UnusedIsBlank /\ LinksOK /\ ReadOK(w)
      /\ \A o \in Client \ {c} : call[o] = Idle
  BY <1>1, Alone
<1>3. w.target \in Rev /\ w.op \in {"fork", "delete"}
  BY <1>1, Shapes DEF TypeOK, ForkCall
<1>4. w.target \in rec.revisions /\ ~rdoc[w.target].del /\ w.avps = rdoc[w.target].avps
  BY <1>1, <1>2, <1>3 DEF ReadOK
<1>5. /\ doc.rev = 1 /\ doc.parent = w.target /\ doc.del = (w.op = "delete")
      /\ doc.avps = w.avps
      /\ w2.op = w.op /\ w2.at = "readRecord" /\ w2.target = w.target /\ w2.new = new
  OBVIOUS
<1> HIDE DEF w2, doc
<1>6. rdoc'[new] = doc /\ \A r \in Rev \ {new} : rdoc'[r] = rdoc[r]
  BY <1>1 DEF TypeOK
<1>7. rec.revisions \subseteq Rev \ {new}
  BY <1>1 DEF TypeOK
<1>8. \A r \in Rev : \E q \in Rev : rdoc'[r].avps = rdoc[q].avps
  BY <1>3, <1>4, <1>5, <1>6
<1>9. OneRoot' /\ UnusedIsBlank' /\ LinksOK'
  <2>1. OneRoot'
    BY <1>1, <1>2, <1>6, <1>7 DEF OneRoot
  <2>2. UnusedIsBlank'
    BY <1>1, <1>2, <1>5, <1>6 DEF UnusedIsBlank, NoMap
  <2>3. LinksOK'
    BY <1>1, <1>2, <1>8, LinksStay
  <2> QED BY <2>1, <2>2, <2>3
<1>10. call'[c] = w2
  BY <1>1, Moves DEF TypeOK
<1>11. ReadOK(call[c])' /\ WriteOK(c)'
  <2>1. w.target # new /\ rdoc'[w.target] = rdoc[w.target]
    BY <1>1, <1>3, <1>4, <1>6
  <2> QED BY <1>1, <1>3, <1>4, <1>5, <1>6, <1>10, <2>1 DEF ReadOK, WriteOK
<1>12. SequentialInv'
  BY <1>1, <1>2, <1>9, <1>11, CallMoves
<1>13. UNCHANGED RS!vars
  <2>1. rec' \in [rev : Nat, heads : SUBSET Rev, revisions : SUBSET Rev]
    BY DEF TypeOK
  <2> QED BY <1>1, <1>2, <1>6, <1>7, <1>9, <2>1, ViewStays
<1> QED BY <1>12, <1>13 DEF StepOK

-----------------------------------------------------------------------------
(* Accepted puts of the record.                                            *)

LEMMA RecordPutStores ==
  ASSUME TypeOK, NEW c \in Client, PutOk(c), IsRecordPut(call[c])
  PROVE  /\ rec'.rev = rec.rev + 1 /\ rec'.heads = call[c].body.heads
         /\ rec'.revisions = call[c].body.revisions
         /\ UNCHANGED <<rdoc, adoc, linked>>
         /\ call' = [call EXCEPT ![c] = Idle]
         /\ call[c].op \in {"fork", "delete"} => returned' = returned \cup {call[c].new}
         /\ call[c].op \notin {"fork", "delete"} => returned' = returned
<1>1. /\ rec' = [rev |-> rec.rev + 1, heads |-> call[c].body.heads,
                 revisions |-> call[c].body.revisions]
      /\ UNCHANGED <<rdoc, adoc, linked>>
      /\ call' = [call EXCEPT ![c] = Idle]
      /\ returned' = IF call[c].op \in {"fork", "delete"}
                     THEN returned \cup {call[c].new} ELSE returned
  BY PutOkStores
<1> QED BY <1>1

(* A fork or a delete takes effect: the record lists the child.            *)
LEMMA AddStores ==
  ASSUME Inv, TypeOK', SequentialInv, ~overlap, NEW c \in Client, PutOk(c),
         IsRecordPut(call[c]), call[c].op \in {"fork", "delete"}
  PROVE  StepOK
<1> DEFINE w == call[c]
           new == w.new
           base == w.target
<1>0. TypeOK
  BY DEF Inv
<1>1. /\ w.at = "put" /\ w.kind = "record" /\ w \in PutRecordCall
      /\ overlap' = overlap
  BY <1>0, PutOkStores DEF PutOk, Goto, Finish, IsRecordPut
<1>2. /\ OneRoot /\ UnusedIsBlank /\ LinksOK /\ ReadOK(w) /\ WriteOK(c)
      /\ \A o \in Client \ {c} : call[o] = Idle
  BY <1>1, Alone
<1>3. w.body = [heads |-> RS!NewHeads(base, new), revisions |-> RS!NewHistory(new)]
  BY <1>1, <1>2 DEF WriteOK, RecordBody, HeadsAfter, RS!NewHeads, RS!NewHistory
<1>4. /\ rec'.revisions = RS!NewHistory(new) /\ rec'.heads = RS!NewHeads(base, new)
      /\ rec'.rev = rec.rev + 1 /\ returned' = returned \cup {new}
      /\ UNCHANGED <<rdoc, adoc, linked>>
      /\ call' = [call EXCEPT ![c] = Idle]
  BY <1>0, <1>3, RecordPutStores
<1>5. /\ base \in rec.revisions /\ ~rdoc[base].del /\ new \notin rec.revisions
      /\ rdoc[new].parent = base /\ rdoc[new].del = (w.op = "delete")
      /\ rdoc[new].avps = rdoc[base].avps
  BY <1>1, <1>2 DEF ReadOK
<1>6. /\ new \in Rev /\ base \in Rev /\ rec.revisions \subseteq Rev /\ rec.rev \in Nat
      /\ rec'.revisions = rec.revisions \cup {new}
  BY <1>0, <1>1, <1>4 DEF TypeOK, PutRecordCall, RecordPut, RS!NewHistory
<1>7. rec.rev > 0
  BY <1>5, <1>6 DEF Inv, BeginningOK
<1> HIDE DEF w, new, base
<1>8. PICK root \in rec.revisions :
        \A r \in rec.revisions : rdoc[r].parent = None <=> r = root
  BY <1>2, <1>7 DEF OneRoot
<1>9. base # None /\ None \notin rec'.revisions
  BY <1>6, Constants
<1>10. OneRoot' /\ UnusedIsBlank' /\ LinksOK'
  <2>1. OneRoot'
    BY <1>2, <1>4, <1>5, <1>6, <1>8, <1>9 DEF OneRoot
  <2>2. UnusedIsBlank'
    BY <1>2, <1>4, <1>6 DEF UnusedIsBlank, NoMap
  <2>3. LinksOK'
    BY <1>2, <1>4 DEF LinksOK
  <2> QED BY <2>1, <2>2, <2>3
<1>11. call'[c].at = "idle"
  BY <1>0, <1>4, Moves DEF TypeOK, Idle
<1>12. SequentialInv'
  BY <1>0, <1>1, <1>2, <1>4, <1>10, <1>11, CallMoves DEF ReadOK, WriteOK
<1>13. RS!AppendRevision(base, new)
  <2>1. RS!Forkable(base) /\ new \in Rev \ rec.revisions
    BY <1>5, <1>6 DEF RS!Forkable, ListedDeleted
  <2>2. ListedParent' = [ListedParent EXCEPT ![new] = base]
    BY <1>4, <1>5, <1>6 DEF ListedParent
  <2>3. ListedAvps' = [ListedAvps EXCEPT ![new] = ListedAvps[base]]
    BY <1>4, <1>5, <1>6 DEF ListedAvps, NoMap
  <2>4. LinkedOwner' = LinkedOwner /\ LinkedData' = LinkedData
    BY <1>4 DEF LinkedOwner, LinkedData
  <2> QED BY <1>4, <2>1, <2>2, <2>3, <2>4 DEF RS!AppendRevision
<1>14. CreatorPhase' = CreatorPhase /\ CreatorWork' = CreatorWork
  <2>1. FirstOf(rec.revisions, rdoc) = root
    BY <1>2, <1>6, <1>8, Constants, RootIsFirst DEF OneRoot
  <2>2. FirstOf(rec'.revisions, rdoc') = root
    BY <1>4, <1>5, <1>6, <1>8, <1>9, <1>10, RootIsFirst DEF OneRoot
  <2> QED BY <1>4, <1>6, <1>7, <2>1, <2>2 DEF CreatorPhase, CreatorWork
<1>15. CASE w.op = "fork"
  <2>1. ListedDeleted' = ListedDeleted
    BY <1>4, <1>5, <1>6, <1>15 DEF ListedDeleted
  <2>2. RS!ApiCreateRevision(base, new)
    BY <1>13, <1>14, <2>1 DEF RS!ApiCreateRevision
  <2> QED BY <1>6, <1>12, <2>2 DEF StepOK, RS!Next
<1>16. CASE w.op = "delete"
  <2>1. ListedDeleted' = ListedDeleted \cup {new}
    BY <1>4, <1>5, <1>6, <1>16 DEF ListedDeleted
  <2>2. RS!DeleteRecord(base, new)
    BY <1>13, <1>14, <2>1 DEF RS!DeleteRecord
  <2> QED BY <1>6, <1>12, <2>2 DEF StepOK, RS!Next
<1> QED BY <1>15, <1>16 DEF w

(* A stamp of the record writes what it has read.                          *)
LEMMA StampRecordStores ==
  ASSUME Inv, TypeOK', SequentialInv, ~overlap, NEW c \in Client, PutOk(c),
         IsRecordPut(call[c]), call[c].op \notin {"fork", "delete"}
  PROVE  StepOK
<1> DEFINE w == call[c]
<1>0. TypeOK
  BY DEF Inv
<1>1. /\ w.at = "put" /\ w.kind = "record" /\ w \in PutRecordCall /\ overlap' = overlap
  BY <1>0, PutOkStores DEF PutOk, Goto, Finish, IsRecordPut
<1>2. /\ OneRoot /\ UnusedIsBlank /\ LinksOK /\ ReadOK(w) /\ WriteOK(c)
      /\ \A o \in Client \ {c} : call[o] = Idle
  BY <1>1, Alone
<1>3. w.body = [heads |-> rec.heads, revisions |-> rec.revisions]
  BY <1>1, <1>2 DEF WriteOK, RecordBody
<1>4. /\ rec'.revisions = rec.revisions /\ rec'.heads = rec.heads
      /\ rec'.rev = rec.rev + 1 /\ UNCHANGED <<rdoc, adoc, linked, returned>>
      /\ call' = [call EXCEPT ![c] = Idle]
  BY <1>0, <1>3, RecordPutStores
<1>5. /\ rec.rev \in Nat /\ rec.rev > 0
      /\ rec' \in [rev : Nat, heads : SUBSET Rev, revisions : SUBSET Rev]
  <2>1. w.target \in rec.revisions
    BY <1>1, <1>2 DEF ReadOK
  <2> QED BY <1>0, <2>1 DEF Inv, BeginningOK, TypeOK
<1> HIDE DEF w
<1>6. OneRoot' /\ UnusedIsBlank' /\ LinksOK'
  <2>1. OneRoot'
    BY <1>2, <1>4, <1>5 DEF OneRoot
  <2>2. UnusedIsBlank' /\ LinksOK'
    BY <1>2, <1>4 DEF UnusedIsBlank, LinksOK, NoMap
  <2> QED BY <2>1, <2>2
<1>7. call'[c].at = "idle"
  BY <1>0, <1>4, Moves DEF TypeOK, Idle
<1>8. SequentialInv'
  BY <1>0, <1>1, <1>2, <1>4, <1>6, <1>7, CallMoves DEF ReadOK, WriteOK
<1>9. UNCHANGED RS!vars
  BY <1>0, <1>2, <1>4, <1>5, <1>6, ViewStays
<1> QED BY <1>8, <1>9 DEF StepOK

-----------------------------------------------------------------------------
(* What a save of the abstract store does with each field, in terms of the *)
(* documents.                                                              *)
LEMMA LinkedValues ==
  ASSUME TypeOK, LinksOK, NEW r \in Rev, NEW f \in Field, rdoc[r].avps[f] # None
  PROVE  LET a == rdoc[r].avps[f] IN
           /\ a \in Avp /\ a \in linked /\ LinkedData[a] = adoc[a].data
           /\ adoc[a].data \in Value /\ adoc[a].data # None
<1> DEFINE a == rdoc[r].avps[f]
<1>1. a \in Avp /\ a \in linked /\ adoc[a].rev > 0
  <2>1. rdoc[r].avps \in MapOrNone
    BY DEF TypeOK
  <2>2. a \in Avp
    BY <2>1 DEF MapOrNone
  <2> QED BY <2>2 DEF LinksOK
<1> HIDE DEF a
<1>2. adoc[a].data \in Value /\ adoc[a].data # None
  BY <1>1 DEF TypeOK
<1>3. LinkedData[a] = adoc[a].data
  BY <1>1 DEF LinkedData
<1> QED BY <1>1, <1>2, <1>3 DEF a

LEMMA UpMapStored ==
  ASSUME TypeOK, NEW r \in Rev, NEW f \in Field, UpMap(r)[f] # None
  PROVE  \E q \in Rev : UpMap(r)[f] = rdoc[q].avps[f]
<1>1. rdoc[r].parent \in Rev \cup {None}
  BY DEF TypeOK
<1> QED BY <1>1 DEF UpMap, NoMap

LEMMA AbstractReads ==
  ASSUME TypeOK, OneRoot, LinksOK, NEW t \in rec.revisions, NEW f \in Field
  PROVE  /\ ListedAvps[t] = rdoc[t].avps
         /\ RS!ParentAvp(t, f) = UpMap(t)[f]
         /\ RS!Content(t)[f] = DataOf(rdoc[t].avps, f)
         /\ RS!ParentAvp(t, f) # None =>
              LinkedData[RS!ParentAvp(t, f)] = DataOf(UpMap(t), f)
<1>1. t \in Rev /\ rec.revisions \subseteq Rev
  BY DEF TypeOK
<1>2. ListedAvps[t] = rdoc[t].avps /\ ListedParent[t] = rdoc[t].parent
  BY <1>1 DEF ListedAvps, ListedParent
<1>3. RS!ParentAvp(t, f) = UpMap(t)[f]
  <2>1. CASE rdoc[t].parent = None
    BY <1>2, <2>1 DEF RS!ParentAvp, UpMap, NoMap
  <2>2. CASE rdoc[t].parent # None
    <3>1. rdoc[t].parent \in rec.revisions
      BY <2>2 DEF OneRoot
    <3>2. ListedAvps[rdoc[t].parent] = rdoc[rdoc[t].parent].avps
      BY <1>1, <3>1 DEF ListedAvps
    <3> QED BY <1>2, <2>2, <3>2 DEF RS!ParentAvp, UpMap
  <2> QED BY <2>1, <2>2
<1>4. RS!Content(t)[f] = DataOf(rdoc[t].avps, f)
  <2>1. rdoc[t].avps[f] # None => LinkedData[rdoc[t].avps[f]] = adoc[rdoc[t].avps[f]].data
    BY <1>1, LinkedValues
  <2> QED BY <1>2, <2>1 DEF RS!Content, DataOf
<1>5. ASSUME UpMap(t)[f] # None PROVE LinkedData[UpMap(t)[f]] = DataOf(UpMap(t), f)
  <2>1. PICK q \in Rev : UpMap(t)[f] = rdoc[q].avps[f]
    BY <1>1, <1>5, UpMapStored
  <2>2. LinkedData[UpMap(t)[f]] = adoc[UpMap(t)[f]].data
    BY <1>5, <2>1, LinkedValues
  <2> QED BY <1>5, <2>2 DEF DataOf
<1> QED BY <1>2, <1>3, <1>4, <1>5

LEMMA AbstractStrategies ==
  ASSUME TypeOK, OneRoot, LinksOK, NEW t \in rec.revisions, NEW d, NEW f \in Field
  PROVE  LET x == DataOf(rdoc[t].avps, f)
             y == DataOf(UpMap(t), f)
         IN  /\ f \in RS!Kept(t, d) <=> d[f] # None /\ d[f] = x
             /\ f \in RS!Reverted(t, d) <=> d[f] # None /\ d[f] # x /\ d[f] = y
             /\ f \in RS!InPlace(t, d) <=> d[f] \notin {None, x, y} /\ ~Inherits(t, f)
             /\ f \in RS!Created(t, d) <=> d[f] \notin {None, x, y} /\ Inherits(t, f)
<1> DEFINE x == DataOf(rdoc[t].avps, f)
           y == DataOf(UpMap(t), f)
           cur == rdoc[t].avps[f]
           up == UpMap(t)[f]
<1>1. /\ ListedAvps[t][f] = cur /\ RS!ParentAvp(t, f) = up /\ RS!Content(t)[f] = x
      /\ up # None => LinkedData[up] = y
      /\ cur = None => x = None
      /\ up = None => y = None
  BY AbstractReads DEF DataOf
<1>2. ListedParent[t] = rdoc[t].parent
  BY DEF ListedParent, TypeOK
<1>3. Inherits(t, f) <=> cur = None \/ (rdoc[t].parent # None /\ cur = up)
  BY DEF Inherits
<1> HIDE DEF x, y, cur, up
<1>4. f \in RS!Kept(t, d) <=> d[f] # None /\ d[f] = x
  BY <1>1 DEF RS!Kept
<1>5. f \in RS!Reverted(t, d) <=> d[f] # None /\ d[f] # x /\ d[f] = y
  BY <1>1, <1>4 DEF RS!Reverted
<1>6. f \in RS!InPlace(t, d) <=> d[f] \notin {None, x, y} /\ ~Inherits(t, f)
  BY <1>1, <1>2, <1>3, <1>4, <1>5 DEF RS!InPlace
<1>7. f \in RS!Created(t, d) <=> d[f] \notin {None, x, y} /\ Inherits(t, f)
  BY <1>4, <1>5, <1>6 DEF RS!Created
<1> QED BY <1>4, <1>5, <1>6, <1>7 DEF x, y

-----------------------------------------------------------------------------
(* New AVPs are stored: no map names them yet.                             *)
(* ids are the new AVPs of call c, one for each field of S.                *)
NewStored(c, S, ids) ==
  /\ \A f, g \in S : ids[f] = ids[g] => f = g
  /\ \A f \in S : /\ adoc[ids[f]].rev = 0 /\ adoc'[ids[f]].rev = 1
                  /\ adoc'[ids[f]].owner = call[c].target
                  /\ adoc'[ids[f]].data = call[c].make[f]
  /\ \A a \in Avp : adoc[a].rev > 0 => adoc'[a] = adoc[a]
  /\ call' = [call EXCEPT ![c] = call'[c]]
  /\ call'[c].at = "overwrite" /\ call'[c].op = "update"
  /\ call'[c].target = call[c].target /\ call'[c].over = call[c].over
  /\ \A f \in S : call'[c].map[f] = ids[f]
  /\ \A f \in Field \ S : call'[c].map[f] = call[c].map[f]

LEMMA NewAvps ==
  ASSUME TypeOK, NEW c \in Client, PutNewAvps(c), NEW S \in SUBSET Field,
         NEW T \in SUBSET Field, call[c] \in SaveCall(S, T)
  PROVE  \E ids \in [S -> Avp] : NewStored(c, S, ids)
<1> DEFINE w == call[c]
<1>1. w.make \in [S -> Value]
  BY DEF SaveCall
<1>2. DOMAIN w.make = S
  BY <1>1
<1>3. PICK ids \in Injection(S, {a \in Avp : adoc[a].rev = 0}) :
        /\ adoc' = StoreNewAvps(w, ids)
        /\ Goto(c, [w EXCEPT !.at = "overwrite", !.map = [f \in Field |->
                     IF f \in DOMAIN ids THEN ids[f] ELSE w.map[f]]])
  BY <1>2 DEF PutNewAvps
<1> HIDE DEF w
<1>4. /\ ids \in [S -> Avp] /\ DOMAIN ids = S
      /\ \A f, g \in S : ids[f] = ids[g] => f = g
      /\ \A f \in S : adoc[ids[f]].rev = 0
  BY DEF Injection, IsInjective
<1>5. ASSUME NEW f \in S
      PROVE  /\ adoc'[ids[f]].rev = 1 /\ adoc'[ids[f]].owner = w.target
             /\ adoc'[ids[f]].data = w.make[f]
  <2>1. ids[f] \in Avp
    BY <1>4
  <2>2. f = CHOOSE g \in DOMAIN ids : ids[g] = ids[f]
    BY <1>4
  <2>3. adoc'[ids[f]] = [rev |-> 1, owner |-> w.target,
           data |-> w.make[CHOOSE g \in DOMAIN ids : ids[g] = ids[f]]]
    BY <1>3, <1>4, <2>1 DEF StoreNewAvps
  <2>4. adoc'[ids[f]] = [rev |-> 1, owner |-> w.target, data |-> w.make[f]]
    BY <2>2, <2>3
  <2> QED BY <2>4
<1>6. ASSUME NEW a \in Avp, adoc[a].rev > 0 PROVE adoc'[a] = adoc[a]
  BY <1>3, <1>4, <1>6 DEF StoreNewAvps
<1> DEFINE map == [f \in Field |-> IF f \in S THEN ids[f] ELSE w.map[f]]
           w2 == [w EXCEPT !.at = "overwrite", !.map = map]
<1>7. /\ w2.at = "overwrite" /\ w2.op = "update" /\ w2.target = w.target
      /\ w2.over = w.over /\ w2.map = map
  BY DEF SaveCall, w
<1>8. call' = [call EXCEPT ![c] = w2]
  BY <1>3, <1>4 DEF Goto
<1>9. /\ \A f \in S : map[f] = ids[f]
      /\ \A f \in Field \ S : map[f] = w.map[f]
  OBVIOUS
<1> HIDE DEF w2, map
<1>10. call'[c] = w2
  BY <1>8, Moves DEF TypeOK
<1>11. /\ call' = [call EXCEPT ![c] = call'[c]]
       /\ call'[c].at = "overwrite" /\ call'[c].op = "update"
       /\ call'[c].target = w.target /\ call'[c].over = w.over
       /\ \A f \in S : call'[c].map[f] = ids[f]
       /\ \A f \in Field \ S : call'[c].map[f] = w.map[f]
  BY <1>7, <1>8, <1>9, <1>10
<1>12. NewStored(c, S, ids)
  BY <1>4, <1>5, <1>6, <1>11 DEF w, NewStored
<1> QED BY <1>4, <1>12

LEMMA NewAvpsStore ==
  ASSUME Inv, TypeOK', SequentialInv, ~overlap, NEW c \in Client, PutNewAvps(c)
  PROVE  StepOK
<1>c. PICK w : w = call[c]
  OBVIOUS
<1> USE <1>c
<1> DEFINE t == w.target
<1>0. TypeOK /\ MapsOK
  BY DEF Inv
<1>1. w.at = "create" /\ UNCHANGED <<overlap, rec, rdoc, returned, linked>>
  BY DEF PutNewAvps, Goto
<1>2. /\ OneRoot /\ UnusedIsBlank /\ LinksOK /\ ReadOK(w)
      /\ \A o \in Client \ {c} : call[o] = Idle
  BY <1>1, Alone
<1>3. PICK S \in SUBSET Field, T \in SUBSET Field : w \in SaveCall(S, T)
  BY <1>0, <1>1, Shapes DEF TypeOK
<1>4. PICK ids \in [S -> Avp] : NewStored(c, S, ids)
  <2>1. call[c] \in SaveCall(S, T)
    BY <1>3
  <2> QED BY <1>0, <2>1, NewAvps
<1>a. /\ \A f, g \in S : ids[f] = ids[g] => f = g
      /\ \A f \in S : /\ adoc[ids[f]].rev = 0 /\ adoc'[ids[f]].rev = 1
                      /\ adoc'[ids[f]].owner = w.target
                      /\ adoc'[ids[f]].data = w.make[f]
  BY <1>4 DEF NewStored
<1>b. \A a \in Avp : adoc[a].rev > 0 => adoc'[a] = adoc[a]
  BY <1>4 DEF NewStored
<1>d. call' = [call EXCEPT ![c] = call'[c]]
  BY <1>4 DEF NewStored
<1>e. /\ call'[c].at = "overwrite" /\ call'[c].op = "update"
      /\ call'[c].target = w.target /\ call'[c].over = w.over
      /\ \A f \in S : call'[c].map[f] = ids[f]
      /\ \A f \in Field \ S : call'[c].map[f] = w.map[f]
  BY <1>4 DEF NewStored
<1>5. PICK w2, map : w2 = call'[c] /\ map = w2.map
  OBVIOUS
<1> USE <1>5
<1>6. /\ w.map \in MapOrNone /\ MapStored(w.map) /\ DOMAIN w.make = S /\ DOMAIN w.over = T
      /\ w.op = "update" /\ t \in Rev
  BY <1>0, <1>1, <1>3 DEF SaveCall, MapsOK, MapOK
<1>7. /\ t \in rec.revisions /\ ~rdoc[t].del
      /\ MakeOK(w) /\ PlanOK(t, w.map) /\ OverOK(w)
  BY <1>1, <1>2, <1>6 DEF ReadOK
<1>8. /\ w2.at = "overwrite" /\ w2.op = "update" /\ w2.target = t /\ w2.over = w.over
      /\ \A f \in S : map[f] = ids[f]
      /\ \A f \in Field \ S : map[f] = w.map[f]
  BY <1>e
<1>9. ASSUME NEW r \in Rev, NEW f \in Field
      PROVE  /\ DataOf(rdoc[r].avps, f)' = DataOf(rdoc[r].avps, f)
             /\ UpMap(r)' = UpMap(r) /\ DataOf(UpMap(r), f)' = DataOf(UpMap(r), f)
             /\ Inherits(r, f)' <=> Inherits(r, f)
  <2>1. UpMap(r)' = UpMap(r) /\ (Inherits(r, f)' <=> Inherits(r, f))
    BY <1>1 DEF UpMap, NoMap, Inherits
  <2>2. ASSUME NEW q \in Rev, rdoc[q].avps[f] # None
        PROVE  adoc'[rdoc[q].avps[f]] = adoc[rdoc[q].avps[f]]
    <3>1. rdoc[q].avps[f] \in Avp /\ rdoc[q].avps[f] \in linked
      BY <1>0, <1>2, <2>2, LinkedValues
    <3>2. adoc[rdoc[q].avps[f]].rev > 0
      BY <1>2, <3>1 DEF LinksOK
    <3> QED BY <1>b, <3>1, <3>2
  <2>3. DataOf(rdoc[r].avps, f)' = DataOf(rdoc[r].avps, f)
    BY <1>1, <2>2 DEF DataOf
  <2>4. UpMap(r)[f] # None => adoc'[UpMap(r)[f]] = adoc[UpMap(r)[f]]
    BY <1>0, <2>2, UpMapStored
  <2> QED BY <2>1, <2>3, <2>4 DEF DataOf
<1>10. ASSUME NEW f \in Field, w.map[f] # None
       PROVE  /\ adoc[w.map[f]].rev > 0 /\ adoc'[w.map[f]] = adoc[w.map[f]]
              /\ f \notin S
  <2>1. w.map[f] \in Avp /\ adoc[w.map[f]].rev > 0
    BY <1>6, <1>10 DEF MapOrNone, MapStored
  <2> QED BY <1>b, <1>6, <1>7, <1>10, <2>1 DEF MakeOK
<1>11. ASSUME NEW f \in S
       PROVE  /\ map[f] = ids[f] /\ ids[f] \in Avp /\ ids[f] \notin linked
              /\ f \in Field
  BY <1>2, <1>a, <1>8 DEF LinksOK
<1>12. \A f \in Field \ S : map[f] = w.map[f]
  BY <1>8
<1>13. PlanOK(t, map)'
  <2>1. ASSUME NEW f \in Field, map[f] \notin {None, rdoc[t].avps[f]}
        PROVE  /\ DataOf(rdoc[t].avps, f) # adoc'[map[f]].data
               /\ \/ map[f] = UpMap(t)[f]
                  \/ /\ map[f] \notin linked
                     /\ adoc'[map[f]].rev > 0 /\ adoc'[map[f]].owner = t
                     /\ DataOf(UpMap(t), f) # adoc'[map[f]].data /\ Inherits(t, f)
    <3>1. CASE f \in S
      <4>1. /\ w.make[f] \notin {DataOf(rdoc[t].avps, f), DataOf(UpMap(t), f)}
            /\ Inherits(t, f)
        BY <1>6, <1>7, <3>1 DEF MakeOK
      <4>2. adoc'[map[f]].rev = 1 /\ adoc'[map[f]].owner = t /\ adoc'[map[f]].data = w.make[f]
        BY <1>a, <1>11, <3>1
      <4> QED BY <1>11, <3>1, <4>1, <4>2
    <3>2. CASE f \notin S
      <4>1. map[f] = w.map[f] /\ adoc'[map[f]] = adoc[map[f]]
        BY <1>10, <1>12, <2>1, <3>2
      <4> QED BY <1>7, <2>1, <4>1 DEF PlanOK
    <3> QED BY <3>1, <3>2
  <2>2. ASSUME NEW f \in Field, NEW g \in Field, map[f] # None, map[f] = map[g]
        PROVE  f = g
    <3>1. CASE f \in S /\ g \in S
      BY <1>a, <1>11, <2>2, <3>1
    <3>2. CASE f \notin S /\ g \notin S
      BY <1>7, <1>12, <2>2, <3>2 DEF PlanOK
    <3>3. CASE f \in S /\ g \notin S
      BY <1>a, <1>10, <1>11, <1>12, <2>2, <3>3
    <3>4. CASE f \notin S /\ g \in S
      BY <1>a, <1>10, <1>11, <1>12, <2>2, <3>4
    <3> QED BY <3>1, <3>2, <3>3, <3>4
  <2>3. \A f \in Field : /\ DataOf(rdoc[t].avps, f)' = DataOf(rdoc[t].avps, f)
                         /\ UpMap(t)' = UpMap(t)
                         /\ DataOf(UpMap(t), f)' = DataOf(UpMap(t), f)
                         /\ Inherits(t, f)' <=> Inherits(t, f)
    BY <1>6, <1>9
  <2>4. rdoc' = rdoc /\ linked' = linked
    BY <1>1
  <2>5. \A f, g \in Field : map[f] # None /\ map[f] = map[g] => f = g
    BY <2>2
  <2> HIDE DEF t
  <2> QED BY <2>1, <2>3, <2>4, <2>5 DEF PlanOK
<1>14. OverOK(w2)'
  <2>1. ASSUME NEW f \in T PROVE f \in Field /\ map[f] = w.map[f]
    <3>1. w.map[f] = rdoc[t].avps[f] /\ ~Inherits(t, f)
      BY <1>6, <1>7, <2>1 DEF OverOK
    <3>2. w.map[f] # None
      BY <2>1, <3>1 DEF Inherits
    <3> QED BY <1>10, <1>12, <2>1, <3>2
  <2>2. ASSUME NEW f \in T
        PROVE  /\ w2.over[f].data \notin {DataOf(rdoc[t].avps, f)', DataOf(UpMap(t), f)'}
               /\ map[f] = rdoc'[t].avps[f] /\ ~Inherits(t, f)'
    BY <1>1, <1>6, <1>7, <1>8, <1>9, <2>1, <2>2 DEF OverOK
  <2> QED BY <1>6, <1>8, <2>2 DEF OverOK
<1>15. ReadOK(call[c])' /\ WriteOK(c)'
  <2>1. PlanOK(call[c].target, call[c].map)' /\ OverOK(call[c])'
    BY <1>8, <1>13, <1>14
  <2>2. call'[c].at = "overwrite" /\ call'[c].op = "update" /\ call'[c].target = t
    BY <1>8
  <2> HIDE DEF t
  <2> QED BY <1>1, <1>7, <2>1, <2>2 DEF ReadOK, WriteOK
<1>16. OneRoot' /\ UnusedIsBlank' /\ LinksOK'
  <2>1. OneRoot' /\ UnusedIsBlank'
    BY <1>1, <1>2 DEF OneRoot, UnusedIsBlank, NoMap
  <2>2. \A a \in linked : adoc'[a].rev > 0
    BY <1>0, <1>2, <1>b DEF LinksOK, TypeOK
  <2> QED BY <1>1, <1>2, <2>1, <2>2 DEF LinksOK
<1>17. SequentialInv'
  BY <1>0, <1>1, <1>2, <1>d, <1>15, <1>16, CallMoves
<1>18. UNCHANGED RS!vars
  <2>1. /\ \A a \in linked : adoc'[a].owner = adoc[a].owner /\ adoc'[a].data = adoc[a].data
        /\ rec' \in [rev : Nat, heads : SUBSET Rev, revisions : SUBSET Rev]
    BY <1>0, <1>2, <1>b DEF LinksOK, TypeOK
  <2> QED BY <1>0, <1>1, <1>2, <1>16, <2>1, ViewStays
<1> QED BY <1>17, <1>18 DEF StepOK

-----------------------------------------------------------------------------
(* The overwrites: the data of the AVPs whose `_rev` is still the one that *)
(* was read.                                                               *)
Hit(w) == {f \in DOMAIN w.over : w.over[f].rev = adoc[w.map[f]].rev}

LEMMA Overwrites ==
  ASSUME TypeOK, MapsOK, NEW c \in Client, PutOverwrites(c), NEW S \in SUBSET Field,
         NEW T \in SUBSET Field, call[c] \in SaveCall(S, T),
         PlanOK(call[c].target, call[c].map), OverOK(call[c])
  PROVE  /\ \A f \in Hit(call[c]) : adoc'[call[c].map[f]].data = call[c].over[f].data
         /\ \A a \in Avp : (\A f \in Hit(call[c]) : call[c].map[f] # a)
                              => adoc'[a] = adoc[a]
         /\ \A f \in T : call[c].map[f] \in Avp
<1>c. PICK w : w = call[c]
  OBVIOUS
<1>1. /\ w.over \in [T -> [rev : Nat, data : Value]] /\ DOMAIN w.over = T
      /\ w.map \in MapOrNone
  BY <1>c DEF SaveCall
<1> DEFINE hit(f, a) == w.map[f] = a /\ w.over[f].rev = adoc[a].rev
<1>2. adoc' = [a \in Avp |->
          IF \E f \in DOMAIN w.over : hit(f, a)
          THEN [adoc[a] EXCEPT !.rev = @ + 1,
                  !.data = w.over[CHOOSE f \in DOMAIN w.over : hit(f, a)].data]
          ELSE adoc[a]]
  BY <1>c DEF PutOverwrites
<1>3. \A f \in T : w.map[f] # None /\ w.map[f] \in Avp
  BY <1>1, <1>c DEF OverOK, Inherits, MapOrNone
<1>4. \A f, g \in T : w.map[f] = w.map[g] => f = g
  BY <1>3, <1>c DEF PlanOK
<1>5. ASSUME NEW f \in Hit(w) PROVE adoc'[w.map[f]].data = w.over[f].data
  <2>1. f \in T /\ hit(f, w.map[f]) /\ w.map[f] \in Avp
    BY <1>1, <1>3, <1>5 DEF Hit
  <2>2. \A g \in T : hit(g, w.map[f]) => g = f
    BY <1>4, <2>1
  <2>3. f = CHOOSE g \in T : hit(g, w.map[f])
    BY <2>1, <2>2
  <2> DEFINE x == w.over[CHOOSE g \in T : hit(g, w.map[f])].data
  <2>4. adoc'[w.map[f]] = [adoc[w.map[f]] EXCEPT !.rev = @ + 1, !.data = x]
    BY <1>1, <1>2, <2>1
  <2>5. x = w.over[f].data
    BY <2>3
  <2>6. adoc[w.map[f]] \in [rev : Nat, owner : Rev \cup {None}, data : Value \cup {None}]
    BY <2>1 DEF TypeOK
  <2> HIDE DEF x
  <2> QED BY <2>4, <2>5, <2>6
<1>6. ASSUME NEW a \in Avp, \A f \in Hit(w) : w.map[f] # a PROVE adoc'[a] = adoc[a]
  <2>1. ~ \E f \in DOMAIN w.over : hit(f, a)
    BY <1>6 DEF Hit
  <2> HIDE DEF hit
  <2> QED BY <1>2, <2>1
<1> QED BY <1>c, <1>3, <1>5, <1>6

(* The plan is as good after the overwrites as it was before: they touch   *)
(* no AVP of the other fields.                                             *)
LEMMA PlanSurvives ==
  ASSUME TypeOK, LinksOK, NEW t \in Rev, NEW map \in MapOrNone, NEW T \in SUBSET Field,
         PlanOK(t, map), \A f \in T : map[f] = rdoc[t].avps[f],
         \A a \in Avp : (\A f \in T : map[f] # a) => adoc'[a] = adoc[a],
         UNCHANGED <<rdoc, linked>>
  PROVE  PlanOK(t, map)'
<1>1. ASSUME NEW f \in Field \ T, NEW q \in Rev, rdoc[q].avps[f] # None
      PROVE  adoc'[rdoc[q].avps[f]] = adoc[rdoc[q].avps[f]]
  <2>1. rdoc[q].avps[f] \in Avp
    BY <1>1, LinkedValues
  <2>2. ASSUME NEW g \in T, map[g] = rdoc[q].avps[f] PROVE FALSE
    <3>1. rdoc[t].avps[g] = rdoc[q].avps[f] /\ g \in Field
      BY <2>2
    <3>2. g = f
      BY <1>1, <3>1 DEF LinksOK
    <3> QED BY <3>2
  <2> QED BY <2>1, <2>2
<1>2. ASSUME NEW f \in Field \ T
      PROVE  /\ DataOf(rdoc[t].avps, f)' = DataOf(rdoc[t].avps, f)
             /\ DataOf(UpMap(t), f)' = DataOf(UpMap(t), f)
  <2>1. DataOf(rdoc[t].avps, f)' = DataOf(rdoc[t].avps, f)
    BY <1>1 DEF DataOf
  <2>2. UpMap(t)' = UpMap(t)
    BY DEF UpMap, NoMap
  <2>3. UpMap(t)[f] # None => adoc'[UpMap(t)[f]] = adoc[UpMap(t)[f]]
    BY <1>1, UpMapStored
  <2> QED BY <2>1, <2>2, <2>3 DEF DataOf
<1>3. ASSUME NEW f \in Field \ T, map[f] # None
      PROVE  adoc'[map[f]] = adoc[map[f]]
  <2>1. map[f] \in Avp
    BY <1>3 DEF MapOrNone
  <2>2. \A g \in T : map[g] # map[f]
    BY <1>3 DEF PlanOK
  <2> QED BY <2>1, <2>2
<1>4. UpMap(t)' = UpMap(t) /\ \A f \in Field : Inherits(t, f)' <=> Inherits(t, f)
  BY DEF UpMap, NoMap, Inherits
<1>5. ASSUME NEW f \in Field, map[f] \notin {None, rdoc[t].avps[f]}
      PROVE  /\ DataOf(rdoc[t].avps, f)' # adoc'[map[f]].data
             /\ \/ map[f] = UpMap(t)[f]
                \/ /\ map[f] \notin linked
                   /\ adoc'[map[f]].rev > 0 /\ adoc'[map[f]].owner = t
                   /\ DataOf(UpMap(t), f)' # adoc'[map[f]].data /\ Inherits(t, f)
  <2>1. f \notin T
    BY <1>5
  <2>2. adoc'[map[f]] = adoc[map[f]]
    BY <1>3, <1>5, <2>1
  <2> QED BY <1>2, <1>5, <2>1, <2>2 DEF PlanOK
<1>6. \A f, g \in Field : map[f] # None /\ map[f] = map[g] => f = g
  BY DEF PlanOK
<1> QED BY <1>4, <1>5, <1>6 DEF PlanOK

(* What a call goes on to do once its AVPs are stored.                     *)
LEMMA AfterAvpsGoesOn ==
  ASSUME NEW w
  PROVE  /\ AfterAvps(w).target = w.target
         /\ \/ /\ AfterAvps(w).at = "put" /\ AfterAvps(w).kind = "revision"
               /\ AfterAvps(w).op = "update" /\ AfterAvps(w).body = w.map
            \/ /\ AfterAvps(w).at \in {"readRevision", "readRecord"}
               /\ AfterAvps(w).op = "stamp"
BY DEF AfterAvps

(* The overwritten fields take effect at once, before the others.          *)
LEMMA OverwriteSaves ==
  ASSUME TypeOK, OneRoot, LinksOK, NEW t \in rec.revisions, ~rdoc[t].del,
         NEW H \in SUBSET Field, NEW new \in [H -> Value],
         \A f \in H : /\ new[f] \notin {DataOf(rdoc[t].avps, f), DataOf(UpMap(t), f)}
                      /\ ~Inherits(t, f)
                      /\ adoc'[rdoc[t].avps[f]].data = new[f],
         \A a \in Avp : adoc'[a].owner = adoc[a].owner,
         \A a \in Avp : (\A f \in H : rdoc[t].avps[f] # a) => adoc'[a] = adoc[a],
         UNCHANGED <<rec, rdoc, linked>>
  PROVE  RS!Next
<1>c. PICK cur : cur = rdoc[t].avps
  OBVIOUS
<1>0. /\ t \in Rev /\ cur \in MapOrNone /\ rec.revisions \subseteq Rev
      /\ t \in rec.revisions \ ListedDeleted
  BY <1>c DEF TypeOK, ListedDeleted
<1>d. PICK d \in FormData :
        \A f \in Field : d[f] = IF f \in H THEN new[f] ELSE DataOf(cur, f)
  <2> DEFINE d == [f \in Field |-> IF f \in H THEN new[f] ELSE DataOf(cur, f)]
  <2>1. \A f \in Field : DataOf(cur, f) \in Value \cup {None}
    BY <1>0, <1>c, LinkedValues DEF DataOf
  <2>2. d \in FormData
    BY <2>1 DEF FormData
  <2> QED BY <2>2
<1>1. ASSUME NEW f \in Field
      PROVE  /\ f \in RS!InPlace(t, d) <=> f \in H
             /\ f \notin RS!Created(t, d) /\ f \notin RS!Reverted(t, d)
             /\ f \in RS!Kept(t, d) <=> f \notin H /\ cur[f] # None
  <2>1. cur[f] # None => DataOf(cur, f) # None
    BY <1>0, <1>c, LinkedValues DEF DataOf
  <2>2. cur[f] = None => DataOf(cur, f) = None
    BY DEF DataOf
  <2>3. f \in H => /\ d[f] \notin {None, DataOf(cur, f), DataOf(UpMap(t), f)}
                   /\ ~Inherits(t, f)
    BY <1>c, <1>d, Constants
  <2>4. f \notin H => d[f] = DataOf(cur, f)
    BY <1>d
  <2> QED BY <1>c, <2>1, <2>2, <2>3, <2>4, AbstractStrategies
<1>2. /\ RS!InPlace(t, d) = H /\ RS!Created(t, d) = {} /\ RS!Reverted(t, d) = {}
      /\ RS!Kept(t, d) = {f \in Field : f \notin H /\ cur[f] # None}
  <2>1. /\ RS!InPlace(t, d) \subseteq Field /\ RS!Created(t, d) \subseteq Field
        /\ RS!Reverted(t, d) \subseteq Field /\ RS!Kept(t, d) \subseteq Field
    BY DEF RS!InPlace, RS!Created, RS!Reverted, RS!Kept
  <2> QED BY <1>1, <2>1
<1>3. PICK ids \in RS!NewIds(t, d) : TRUE
  <2>1. [f \in {} |-> None] \in [{} -> RS!Free]
    OBVIOUS
  <2>2. [f \in {} |-> None] \in RS!NewIds(t, d)
    BY <1>2, <2>1 DEF RS!NewIds, RS!Injection, RS!IsInjective, Injection, IsInjective
  <2> QED BY <2>2
<1>4. ListedAvps[t] = cur
  BY <1>0, <1>c DEF ListedAvps
<1>5. \A f \in Field : cur[f] =
           IF f \in RS!Kept(t, d) \cup RS!InPlace(t, d) THEN ListedAvps[t][f]
           ELSE IF f \in RS!Reverted(t, d) THEN RS!ParentAvp(t, f)
           ELSE IF f \in RS!Created(t, d) THEN ids[f] ELSE None
  BY <1>2, <1>4
<1>6. ListedAvps' = [ListedAvps EXCEPT ![t] = cur]
  <2>1. ListedAvps' = ListedAvps
    BY DEF ListedAvps, NoMap
  <2>2. ListedAvps = [ListedAvps EXCEPT ![t] = ListedAvps[t]]
    BY DEF ListedAvps
  <2> QED BY <1>4, <2>1, <2>2
<1>7. \A a \in Avp : LinkedOwner'[a] =
           IF \E f \in RS!Created(t, d) : ids[f] = a THEN t ELSE LinkedOwner[a]
  BY <1>2 DEF LinkedOwner
<1>8. \A a \in Avp, f \in RS!InPlace(t, d) \cup RS!Created(t, d) :
           cur[f] = a => LinkedData'[a] = d[f]
  <2>1. ASSUME NEW f \in H PROVE LinkedData'[cur[f]] = d[f]
    <3>1. cur[f] # None
      BY <1>c, <2>1 DEF Inherits
    <3>2. cur[f] \in Avp /\ cur[f] \in linked
      BY <1>0, <1>c, <3>1, LinkedValues
    <3>3. LinkedData'[cur[f]] = adoc'[cur[f]].data
      BY <3>2 DEF LinkedData
    <3> QED BY <1>c, <1>d, <3>3
  <2> QED BY <1>2, <2>1
<1>9. \A a \in Avp :
           (\A f \in RS!InPlace(t, d) \cup RS!Created(t, d) : cur[f] # a)
             => LinkedData'[a] = LinkedData[a]
  BY <1>c, <1>2 DEF LinkedData
<1>10. /\ rec.revisions' = rec.revisions /\ rec.heads' = rec.heads
       /\ ListedParent' = ListedParent /\ ListedDeleted' = ListedDeleted
  BY DEF ListedParent, ListedDeleted
<1>11. RS!WriteRevision(t, d)
  <2>1. Saves(t, d, cur, ids)
    BY <1>5, <1>6, <1>7, <1>8, <1>9, <1>10 DEF Saves
  <2> QED BY <1>0, <1>3, <2>1, AbstractSave
<1>12. CreatorPhase' = CreatorPhase /\ CreatorWork' = CreatorWork
  BY DEF CreatorPhase, CreatorWork
<1>13. RS!ApiUpdateRevision(t, d)
  BY <1>11, <1>12 DEF RS!ApiUpdateRevision
<1>14. d \in RS!FormData
  BY DEF FormData, RS!FormData
<1> QED BY <1>0, <1>13, <1>14 DEF RS!Next

LEMMA OverwritesStore ==
  ASSUME Inv, TypeOK', SequentialInv, ~overlap, NEW c \in Client, PutOverwrites(c)
  PROVE  StepOK
<1>c. PICK w, w2 : w = call[c] /\ w2 = AfterAvps(w)
  OBVIOUS
<1>0. TypeOK /\ MapsOK
  BY DEF Inv
<1>1. /\ call[c].at = "overwrite" /\ UNCHANGED <<overlap, rec, rdoc, returned, linked>>
      /\ call' = [call EXCEPT ![c] = w2]
  BY <1>c DEF PutOverwrites, Goto
<1>2. /\ OneRoot /\ UnusedIsBlank /\ LinksOK /\ ReadOK(call[c])
      /\ \A o \in Client \ {c} : call[o] = Idle
  BY <1>1, Alone
<1>3. PICK S \in SUBSET Field, T \in SUBSET Field : call[c] \in SaveCall(S, T)
  BY <1>0, <1>1, Shapes DEF TypeOK
<1>4. PICK t \in Rev : t = w.target
  BY <1>c, <1>3 DEF SaveCall
<1>5. /\ w.map \in MapOrNone /\ w.over \in [T -> [rev : Nat, data : Value]]
      /\ DOMAIN w.over = T /\ w.op = "update"
  BY <1>c, <1>3 DEF SaveCall
<1>6. /\ t \in rec.revisions /\ ~rdoc[t].del /\ PlanOK(t, w.map) /\ OverOK(w)
  BY <1>c, <1>1, <1>2, <1>4, <1>5 DEF ReadOK
<1>7. PICK H : H = Hit(w)
  OBVIOUS
<1>8. /\ \A f \in H : adoc'[w.map[f]].data = w.over[f].data
      /\ \A a \in Avp : (\A f \in H : w.map[f] # a) => adoc'[a] = adoc[a]
      /\ H \subseteq T
  <2>1. PlanOK(call[c].target, call[c].map) /\ OverOK(call[c])
    BY <1>c, <1>4, <1>6
  <2>2. H \subseteq T
    BY <1>5, <1>7 DEF Hit
  <2> QED BY <1>c, <1>0, <1>3, <1>7, <2>1, <2>2, Overwrites
<1>9. \A a \in Avp : /\ adoc'[a].owner = adoc[a].owner
                     /\ adoc[a].rev > 0 => adoc'[a].rev > 0
  BY <1>0, PutOverwritesStores
<1>10. \A f \in T : /\ w.over[f].data \notin {DataOf(rdoc[t].avps, f), DataOf(UpMap(t), f)}
                    /\ w.map[f] = rdoc[t].avps[f] /\ ~Inherits(t, f)
  BY <1>4, <1>5, <1>6 DEF OverOK
<1>11. PlanOK(t, w.map)'
  <2>1. \A f \in T : w.map[f] = rdoc[t].avps[f]
    BY <1>10
  <2>2. \A a \in Avp : (\A f \in T : w.map[f] # a) => adoc'[a] = adoc[a]
    BY <1>8
  <2> QED BY <1>0, <1>1, <1>2, <1>5, <1>6, <2>1, <2>2, PlanSurvives
<1>12. call'[c] = w2
  BY <1>0, <1>1, Moves DEF TypeOK
<1>13. /\ w2.target = t
       /\ \/ /\ w2.at = "put" /\ w2.kind = "revision" /\ w2.op = "update"
             /\ w2.body = w.map
          \/ w2.at \in {"readRevision", "readRecord"} /\ w2.op = "stamp"
  BY <1>c, <1>4, AfterAvpsGoesOn
<1>14. ReadOK(call[c])'
  BY <1>1, <1>6, <1>12, <1>13 DEF ReadOK
<1>15. WriteOK(c)'
  BY <1>11, <1>12, <1>13 DEF WriteOK
<1>16. OneRoot' /\ UnusedIsBlank' /\ LinksOK'
  <2>1. OneRoot' /\ UnusedIsBlank'
    BY <1>1, <1>2 DEF OneRoot, UnusedIsBlank, NoMap
  <2>2. \A a \in linked : adoc'[a].rev > 0
    BY <1>0, <1>2, <1>9 DEF LinksOK, TypeOK
  <2> QED BY <1>1, <1>2, <2>1, <2>2 DEF LinksOK
<1>17. SequentialInv'
  BY <1>0, <1>1, <1>2, <1>14, <1>15, <1>16, CallMoves
<1>18. RS!Next
  <2>1. PICK new \in [H -> Value] : \A f \in H : new[f] = w.over[f].data
    <3>1. \A f \in H : w.over[f].data \in Value
      BY <1>5, <1>8
    <3> DEFINE new == [f \in H |-> w.over[f].data]
    <3>2. new \in [H -> Value] /\ \A f \in H : new[f] = w.over[f].data
      BY <3>1
    <3> QED BY <3>2
  <2>2. H \in SUBSET Field
    BY <1>8
  <2>3. \A f \in H : /\ new[f] \notin {DataOf(rdoc[t].avps, f), DataOf(UpMap(t), f)}
                     /\ ~Inherits(t, f)
                     /\ adoc'[rdoc[t].avps[f]].data = new[f]
    BY <1>8, <1>10, <2>1
  <2>4. \A a \in Avp : (\A f \in H : rdoc[t].avps[f] # a) => adoc'[a] = adoc[a]
    BY <1>8, <1>10
  <2>5. \A a \in Avp : adoc'[a].owner = adoc[a].owner
    BY <1>9
  <2> QED BY <1>0, <1>1, <1>2, <1>6, <2>2, <2>3, <2>4, <2>5, OverwriteSaves
<1> QED BY <1>17, <1>18 DEF StepOK

-----------------------------------------------------------------------------
(* Accepted puts of a revision.                                            *)

(* Call c has put map on revision t, and goes on as w2.                    *)
MapPut(c, t, map, w2) ==
  /\ call[c].at = "put" /\ call[c].kind = "revision" /\ call[c].op \in {"update", "stamp"}
  /\ call[c].target = t /\ call[c].body = map
  /\ call' = [call EXCEPT ![c] = w2]
  /\ w2 = Idle \/ (w2.at = "readRecord" /\ w2.op = "stamp" /\ w2.target = t)
  /\ rdoc'[t].avps = map /\ rdoc'[t].rev > 0
  /\ \A r \in Rev \ {t} : rdoc'[r].avps = rdoc[r].avps
  /\ \A r \in Rev : /\ rdoc'[r].parent = rdoc[r].parent /\ rdoc'[r].del = rdoc[r].del
                    /\ rdoc'[r].rev = 0 => rdoc[r].rev = 0
  /\ linked' = linked \cup ({map[f] : f \in Field} \ {None})
  /\ rec' = rec /\ adoc' = adoc /\ returned' = returned /\ overlap' = overlap

LEMMA PutMapStores ==
  ASSUME TypeOK, NEW c \in Client, PutOk(c), ~IsRecordPut(call[c])
  PROVE  \E t \in Rev, map \in MapOrNone : \E w2 : MapPut(c, t, map, w2)
<1>c. PICK w : w = call[c]
  OBVIOUS
<1>1. /\ w \in PutRevisionCall
      /\ rdoc' = [rdoc EXCEPT ![w.target].rev = @ + 1, ![w.target].avps = w.body]
      /\ linked' = linked \cup (Range(w.body) \ {None})
      /\ \/ call' = [call EXCEPT ![c] = Idle]
         \/ call' = [call EXCEPT ![c] =
              [op |-> "stamp", at |-> "readRecord", target |-> w.target]]
      /\ UNCHANGED <<rec, adoc, returned>>
  BY <1>c, PutOkStores
<1>2. PICK t \in Rev, map \in MapOrNone : t = w.target /\ map = w.body
  BY <1>1 DEF PutRevisionCall
<1>3. /\ call[c].at = "put" /\ call[c].kind = "revision"
      /\ call[c].op \in {"update", "stamp"}
  BY <1>c, <1>1 DEF PutRevisionCall, PutOk
<1>4. PICK w2 : /\ call' = [call EXCEPT ![c] = w2]
                /\ w2 = Idle \/ (w2.at = "readRecord" /\ w2.op = "stamp" /\ w2.target = t)
  <2> DEFINE w3 == [op |-> "stamp", at |-> "readRecord", target |-> w.target]
  <2>1. w3.at = "readRecord" /\ w3.op = "stamp" /\ w3.target = t
    BY <1>2
  <2>2. call' = [call EXCEPT ![c] = Idle] \/ call' = [call EXCEPT ![c] = w3]
    BY <1>1
  <2> HIDE DEF w3
  <2> QED BY <2>1, <2>2
<1>5. rdoc' = [rdoc EXCEPT ![t].rev = @ + 1, ![t].avps = map]
  BY <1>1, <1>2
<1>6. /\ rdoc'[t].avps = map /\ \A r \in Rev \ {t} : rdoc'[r] = rdoc[r]
      /\ rdoc'[t].parent = rdoc[t].parent /\ rdoc'[t].del = rdoc[t].del
      /\ rdoc'[t].rev = rdoc[t].rev + 1 /\ rdoc[t].rev \in Nat
  BY <1>5 DEF TypeOK
<1>7. Range(map) = {map[f] : f \in Field}
  BY <1>2 DEF Range, MapOrNone
<1>8. linked' = linked \cup ({map[f] : f \in Field} \ {None})
  BY <1>1, <1>2, <1>7
<1>9. \A r \in Rev : /\ rdoc'[r].parent = rdoc[r].parent /\ rdoc'[r].del = rdoc[r].del
                     /\ rdoc'[r].rev = 0 => rdoc[r].rev = 0
  BY <1>6
<1>10. overlap' = overlap
  BY DEF PutOk, Goto, Finish
<1>11. call[c].target = t /\ call[c].body = map
  BY <1>c, <1>2
<1>12. /\ rdoc'[t].avps = map /\ rdoc'[t].rev > 0
       /\ \A r \in Rev \ {t} : rdoc'[r].avps = rdoc[r].avps
  BY <1>6
<1>13. rec' = rec /\ adoc' = adoc /\ returned' = returned
  BY <1>1
<1>14. MapPut(c, t, map, w2)
  BY <1>3, <1>4, <1>8, <1>9, <1>10, <1>11, <1>12, <1>13, Zenon DEF MapPut
<1> QED BY <1>14

(* What holds after it, but for the links.                                 *)
LEMMA MapPutKeeps ==
  ASSUME TypeOK, SequentialInv, ~overlap, NEW c \in Client, NEW t \in Rev,
         NEW map \in MapOrNone, NEW w2, MapPut(c, t, map, w2)
  PROVE  /\ OneRoot /\ UnusedIsBlank /\ LinksOK /\ t \in rec.revisions
         /\ call[c].op = "stamp" => map = rdoc[t].avps
         /\ call[c].op = "update" => PlanOK(t, map) /\ ~rdoc[t].del
         /\ OneRoot' /\ (LinksOK' => SequentialInv')
<1>1. call[c].at = "put" /\ call[c].kind = "revision" /\ call[c].target = t
      /\ call[c].body = map
  BY DEF MapPut
<1>2. /\ OneRoot /\ UnusedIsBlank /\ LinksOK /\ ReadOK(call[c]) /\ WriteOK(c)
      /\ \A o \in Client \ {c} : call[o] = Idle
  BY <1>1, Alone
<1>3. /\ t \in rec.revisions
      /\ call[c].op = "update" => ~rdoc[t].del
  BY <1>1, <1>2 DEF ReadOK
<1>4. /\ call[c].op = "stamp" => map = rdoc[t].avps
      /\ call[c].op = "update" => PlanOK(t, map)
  BY <1>1, <1>2 DEF WriteOK
<1>5. rec' = rec /\ returned' = returned /\ rec.revisions \subseteq Rev /\ overlap' = overlap
  BY DEF MapPut, TypeOK
<1>6. \A r \in Rev : /\ rdoc'[r].parent = rdoc[r].parent /\ rdoc'[r].del = rdoc[r].del
                     /\ rdoc'[r].rev = 0 => rdoc[r].rev = 0
  BY DEF MapPut
<1>7. /\ \A r \in Rev \ {t} : rdoc'[r].avps = rdoc[r].avps
      /\ rdoc'[t].rev > 0
  BY DEF MapPut
<1>8. OneRoot' /\ UnusedIsBlank'
  <2>1. OneRoot'
    BY <1>2, <1>5, <1>6 DEF OneRoot
  <2>2. UnusedIsBlank'
    BY <1>2, <1>5, <1>6, <1>7 DEF UnusedIsBlank, NoMap
  <2> QED BY <2>1, <2>2
<1>9. /\ call' = [call EXCEPT ![c] = w2]
      /\ w2 = Idle \/ (w2.at = "readRecord" /\ w2.op = "stamp" /\ w2.target = t)
  BY DEF MapPut
<1>10. call'[c] = w2
  BY <1>9, Moves DEF TypeOK
<1>11. ReadOK(call[c])' /\ WriteOK(c)'
  <2>1. CASE w2 = Idle
    <3>1. call'[c].at = "idle"
      BY <1>10, <2>1 DEF Idle
    <3> QED BY <3>1 DEF ReadOK, WriteOK
  <2>2. CASE w2.at = "readRecord" /\ w2.op = "stamp" /\ w2.target = t
    BY <1>3, <1>5, <1>10, <2>2 DEF ReadOK, WriteOK
  <2> QED BY <1>9, <2>1, <2>2
<1>12. LinksOK' => SequentialInv'
  BY <1>2, <1>5, <1>8, <1>9, <1>11, CallMoves
<1> QED BY <1>2, <1>3, <1>4, <1>8, <1>12

(* A stamp of a revision puts back what it has read.                       *)
LEMMA StampMapStores ==
  ASSUME TypeOK, TypeOK', SequentialInv, ~overlap, NEW c \in Client, NEW t \in Rev,
         NEW map \in MapOrNone, NEW w2, MapPut(c, t, map, w2), call[c].op = "stamp"
  PROVE  StepOK
<1>1. /\ OneRoot /\ LinksOK /\ t \in rec.revisions /\ map = rdoc[t].avps
      /\ OneRoot' /\ (LinksOK' => SequentialInv')
  BY MapPutKeeps
<1>2. /\ rdoc'[t].avps = map /\ \A r \in Rev \ {t} : rdoc'[r].avps = rdoc[r].avps
      /\ rec' = rec /\ adoc' = adoc /\ rec.revisions \subseteq Rev
  BY DEF MapPut, TypeOK
<1>3. \A r \in Rev : rdoc'[r].avps = rdoc[r].avps
  BY <1>1, <1>2
<1>4. linked' = linked
  <2>1. {map[f] : f \in Field} \ {None} \subseteq linked
    BY <1>1 DEF LinksOK
  <2> QED BY <2>1 DEF MapPut
<1>5. LinksOK'
  BY <1>1, <1>2, <1>3, <1>4, LinksStay
<1>6. \A r \in Rev : rdoc'[r].parent = rdoc[r].parent /\ rdoc'[r].del = rdoc[r].del
  BY DEF MapPut
<1>7. UNCHANGED RS!vars
  <2>1. rec' \in [rev : Nat, heads : SUBSET Rev, revisions : SUBSET Rev]
    BY DEF TypeOK
  <2> QED BY <1>1, <1>2, <1>3, <1>4, <1>6, <2>1, ViewStays
<1> QED BY <1>1, <1>5, <1>7 DEF StepOK

(* What a plan names it names for one field, as the stored maps do.        *)
LEMMA PlanIsLinked ==
  ASSUME TypeOK, LinksOK, NEW t \in Rev, NEW map \in MapOrNone, PlanOK(t, map), MapStored(map),
         rdoc'[t].avps = map, \A r \in Rev \ {t} : rdoc'[r].avps = rdoc[r].avps,
         linked' = linked \cup ({map[f] : f \in Field} \ {None}), adoc' = adoc
  PROVE  LinksOK'
<1>1. ASSUME NEW f \in Field, map[f] # None
      PROVE  map[f] \notin linked \/ \E q \in Rev : rdoc[q].avps[f] = map[f]
  BY <1>1, UpMapStored DEF PlanOK
<1>2. ASSUME NEW r \in Rev, NEW f \in Field, rdoc'[r].avps[f] # None
      PROVE  rdoc'[r].avps[f] \in linked'
  BY <1>2 DEF LinksOK
<1>3. \A a \in linked' : adoc[a].rev > 0
  BY DEF LinksOK, MapStored
<1>4. ASSUME NEW r \in Rev \ {t}, NEW f \in Field, NEW g \in Field, map[f] # None,
             rdoc[r].avps[g] = map[f]
      PROVE  g = f
  <2>1. map[f] \in linked
    BY <1>4 DEF LinksOK
  <2>2. PICK q \in Rev : rdoc[q].avps[f] = map[f]
    BY <1>1, <1>4, <2>1
  <2> QED BY <1>4, <2>2 DEF LinksOK
<1>5. ASSUME NEW r \in Rev, NEW q \in Rev, NEW f \in Field, NEW g \in Field,
             rdoc'[r].avps[f] # None, rdoc'[q].avps[g] = rdoc'[r].avps[f]
      PROVE  g = f
  <2>1. CASE r = t /\ q = t
    BY <1>5, <2>1 DEF PlanOK
  <2>2. CASE r = t /\ q # t
    BY <1>4, <1>5, <2>2
  <2>3. CASE r # t /\ q = t
    BY <1>4, <1>5, <2>3
  <2>4. CASE r # t /\ q # t
    BY <1>5, <2>4 DEF LinksOK
  <2> QED BY <2>1, <2>2, <2>3, <2>4
<1> QED BY <1>2, <1>3, <1>5 DEF LinksOK

(* The kept, reverted and created fields of a save take effect when the    *)
(* map is rewritten: each field has the strategy that its plan tells.      *)
LEMMA PlanStrategies ==
  ASSUME TypeOK, OneRoot, LinksOK, NEW t \in rec.revisions, NEW map \in MapOrNone,
         MapStored(map), PlanOK(t, map), NEW d, \A f \in Field : d[f] = DataOf(map, f)
  PROVE  /\ RS!InPlace(t, d) = {}
         /\ RS!Created(t, d) =
              {f \in Field : map[f] \notin {None, rdoc[t].avps[f], UpMap(t)[f]}}
         /\ \A f \in Field :
              /\ f \in RS!Kept(t, d) => map[f] = rdoc[t].avps[f]
              /\ f \in RS!Reverted(t, d) => map[f] = UpMap(t)[f]
              /\ map[f] = None \/ f \in RS!Kept(t, d) \cup RS!Reverted(t, d)
                                             \cup RS!Created(t, d)
<1>c. PICK cur, up : cur = rdoc[t].avps /\ up = UpMap(t)
  OBVIOUS
<1>0. t \in Rev
  BY DEF TypeOK
<1>1. ASSUME NEW f \in Field
      PROVE  /\ d[f] = None <=> map[f] = None
             /\ map[f] # None => d[f] = adoc[map[f]].data
  <2>1. map[f] # None => map[f] \in Avp /\ adoc[map[f]].rev > 0
    BY DEF MapStored, MapOrNone
  <2>2. map[f] # None => adoc[map[f]].data # None
    BY <2>1 DEF TypeOK
  <2> QED BY <2>2 DEF DataOf
<1>2. ASSUME NEW f \in Field, map[f] \notin {None, cur[f]}
      PROVE  /\ d[f] # DataOf(cur, f)
             /\ map[f] = up[f] => d[f] = DataOf(up, f)
             /\ map[f] # up[f] => d[f] # DataOf(up, f) /\ Inherits(t, f)
  <2>1. DataOf(cur, f) # adoc[map[f]].data
    BY <1>c, <1>2 DEF PlanOK
  <2>2. map[f] # up[f] => DataOf(up, f) # adoc[map[f]].data /\ Inherits(t, f)
    BY <1>c, <1>2 DEF PlanOK
  <2>3. map[f] = up[f] => adoc[map[f]].data = DataOf(up, f)
    BY <1>2 DEF DataOf
  <2> QED BY <1>1, <1>2, <2>1, <2>2, <2>3
<1>3. ASSUME NEW f \in Field, map[f] = cur[f] PROVE d[f] = DataOf(cur, f)
  BY <1>3 DEF DataOf
<1>4. ASSUME NEW f \in Field
      PROVE  /\ f \in RS!Kept(t, d) <=> map[f] # None /\ map[f] = cur[f]
             /\ f \in RS!Reverted(t, d) <=> map[f] \notin {None, cur[f]} /\ map[f] = up[f]
             /\ f \notin RS!InPlace(t, d)
             /\ f \in RS!Created(t, d) <=> map[f] \notin {None, cur[f], up[f]}
  <2>1. LET x == DataOf(cur, f)
            y == DataOf(up, f)
        IN  /\ f \in RS!Kept(t, d) <=> d[f] # None /\ d[f] = x
            /\ f \in RS!Reverted(t, d) <=> d[f] # None /\ d[f] # x /\ d[f] = y
            /\ f \in RS!InPlace(t, d) <=> d[f] \notin {None, x, y} /\ ~Inherits(t, f)
            /\ f \in RS!Created(t, d) <=> d[f] \notin {None, x, y} /\ Inherits(t, f)
    BY <1>c, AbstractStrategies
  <2> QED BY <1>1, <1>2, <1>3, <2>1
<1>5. RS!InPlace(t, d) \subseteq Field /\ RS!Created(t, d) \subseteq Field
  BY DEF RS!InPlace, RS!Created
<1>6. RS!InPlace(t, d) = {}
  BY <1>4, <1>5
<1>7. RS!Created(t, d) = {f \in Field : map[f] \notin {None, cur[f], up[f]}}
  BY <1>4, <1>5
<1> QED BY <1>c, <1>4, <1>6, <1>7

LEMMA UpdateSaves ==
  ASSUME TypeOK, OneRoot, OneRoot', LinksOK, NEW t \in rec.revisions, ~rdoc[t].del,
         NEW map \in MapOrNone, MapStored(map), PlanOK(t, map), rdoc'[t].avps = map,
         \A r \in Rev \ {t} : rdoc'[r].avps = rdoc[r].avps,
         \A r \in Rev : rdoc'[r].parent = rdoc[r].parent /\ rdoc'[r].del = rdoc[r].del,
         linked' = linked \cup ({map[f] : f \in Field} \ {None}),
         rec' = rec, adoc' = adoc
  PROVE  RS!Next
<1>c. PICK cur, up : cur = rdoc[t].avps /\ up = UpMap(t)
  OBVIOUS
<1>0. t \in Rev /\ rec.revisions \subseteq Rev /\ t \in rec.revisions \ ListedDeleted
  BY DEF TypeOK, ListedDeleted
<1>d. PICK d \in FormData : \A f \in Field : d[f] = DataOf(map, f)
  <2> DEFINE d == [f \in Field |-> DataOf(map, f)]
  <2>1. ASSUME NEW f \in Field PROVE DataOf(map, f) \in Value \cup {None}
    <3>1. map[f] # None => map[f] \in Avp
      BY DEF MapOrNone
    <3> QED BY <3>1 DEF DataOf, TypeOK
  <2>2. d \in FormData
    BY <2>1 DEF FormData
  <2> QED BY <2>2
<1>p. PICK C : C = {f \in Field : map[f] \notin {None, cur[f], up[f]}}
  OBVIOUS
<1>1. /\ RS!InPlace(t, d) = {} /\ RS!Created(t, d) = C
      /\ \A f \in Field :
           /\ f \in RS!Kept(t, d) => map[f] = cur[f]
           /\ f \in RS!Reverted(t, d) => map[f] = up[f]
           /\ map[f] = None \/ f \in RS!Kept(t, d) \cup RS!Reverted(t, d) \cup C
  BY <1>c, <1>d, <1>p, PlanStrategies
<1>2. ASSUME NEW f \in C
      PROVE  /\ f \in Field /\ map[f] \in Avp /\ map[f] \notin linked
             /\ adoc[map[f]].owner = t /\ map[f] \in linked'
  BY <1>c, <1>p DEF PlanOK, MapOrNone
<1>3. ASSUME NEW f \in Field, map[f] # None, f \notin C PROVE map[f] \in linked
  <2>1. map[f] = cur[f] \/ map[f] = up[f]
    BY <1>p, <1>3
  <2>2. CASE map[f] = cur[f]
    BY <1>c, <1>0, <1>3, <2>2 DEF LinksOK
  <2>3. CASE map[f] = up[f]
    BY <1>c, <1>0, <1>3, <2>3, UpMapStored DEF LinksOK
  <2> QED BY <2>1, <2>2, <2>3
<1>4. PICK ids \in [C -> RS!Free] : \A f \in C : ids[f] = map[f]
  <2>1. ASSUME NEW f \in C PROVE map[f] \in RS!Free
    BY <1>2 DEF RS!Free, LinkedOwner
  <2> DEFINE ids == [f \in C |-> map[f]]
  <2>2. ids \in [C -> RS!Free]
    BY <2>1
  <2> QED BY <2>2
<1>5. ids \in RS!NewIds(t, d)
  <2>1. \A f, g \in C : ids[f] = ids[g] => f = g
    BY <1>2, <1>4, Constants DEF PlanOK
  <2>2. ids \in RS!Injection(C, RS!Free)
    BY <2>1 DEF RS!Injection, RS!IsInjective, Injection, IsInjective
  <2> QED BY <1>1, <2>2 DEF RS!NewIds
<1>6. ListedAvps[t] = cur /\ \A f \in Field : RS!ParentAvp(t, f) = up[f]
  <2>1. ListedAvps[t] = cur
    BY <1>0, <1>c DEF ListedAvps
  <2>2. ASSUME NEW f \in Field PROVE RS!ParentAvp(t, f) = up[f]
    <3>1. RS!ParentAvp(t, f) = UpMap(t)[f]
      BY AbstractReads
    <3> QED BY <1>c, <3>1
  <2> QED BY <2>1, <2>2
<1>7. \A f \in Field : map[f] =
           IF f \in RS!Kept(t, d) \cup RS!InPlace(t, d) THEN ListedAvps[t][f]
           ELSE IF f \in RS!Reverted(t, d) THEN RS!ParentAvp(t, f)
           ELSE IF f \in RS!Created(t, d) THEN ids[f] ELSE None
  BY <1>1, <1>4, <1>6
<1>8. ListedAvps' = [ListedAvps EXCEPT ![t] = map]
  BY <1>0 DEF ListedAvps, NoMap
<1>9. \A a \in Avp : a \in linked' <=> a \in linked \/ \E f \in C : map[f] = a
  BY <1>2, <1>3, Constants
<1>10. \A a \in Avp : LinkedOwner'[a] =
           IF \E f \in RS!Created(t, d) : ids[f] = a THEN t ELSE LinkedOwner[a]
  <2>1. ASSUME NEW a \in Avp, NEW f \in C, map[f] = a PROVE LinkedOwner'[a] = t
    BY <1>2, <2>1 DEF LinkedOwner
  <2>2. ASSUME NEW a \in Avp, ~ \E f \in C : map[f] = a
        PROVE  LinkedOwner'[a] = LinkedOwner[a]
    BY <1>9, <2>2 DEF LinkedOwner
  <2> QED BY <1>1, <1>4, <2>1, <2>2
<1>11. \A a \in Avp, f \in RS!InPlace(t, d) \cup RS!Created(t, d) :
           map[f] = a => LinkedData'[a] = d[f]
  <2>1. ASSUME NEW f \in C PROVE LinkedData'[map[f]] = d[f]
    <3>1. LinkedData'[map[f]] = adoc[map[f]].data
      BY <1>2 DEF LinkedData
    <3>2. d[f] = adoc[map[f]].data
      BY <1>d, <1>2, <1>p DEF DataOf
    <3> QED BY <3>1, <3>2
  <2> QED BY <1>1, <2>1
<1>12. \A a \in Avp :
           (\A f \in RS!InPlace(t, d) \cup RS!Created(t, d) : map[f] # a)
             => LinkedData'[a] = LinkedData[a]
  BY <1>1, <1>9 DEF LinkedData
<1>13. /\ rec.revisions' = rec.revisions /\ rec.heads' = rec.heads
       /\ ListedParent' = ListedParent /\ ListedDeleted' = ListedDeleted
  BY <1>0 DEF ListedParent, ListedDeleted
<1>14. RS!WriteRevision(t, d)
  <2>1. Saves(t, d, map, ids)
    BY <1>7, <1>8, <1>10, <1>11, <1>12, <1>13 DEF Saves
  <2> QED BY <1>0, <1>5, <2>1, AbstractSave
<1>15. CreatorPhase' = CreatorPhase /\ CreatorWork' = CreatorWork
  <2>1. /\ rec'.revisions = rec.revisions /\ rec.rev # 0 => rec'.rev > 0
        /\ rec.rev = 0 => rec'.rev = 0
    BY DEF TypeOK
  <2>2. \A r \in rec.revisions : rdoc'[r].parent = rdoc[r].parent
    BY <1>0
  <2> QED BY <2>1, <2>2, CreatorStays
<1>16. RS!ApiUpdateRevision(t, d)
  BY <1>14, <1>15 DEF RS!ApiUpdateRevision
<1>17. d \in RS!FormData
  BY DEF FormData, RS!FormData
<1> QED BY <1>0, <1>16, <1>17 DEF RS!Next

LEMMA UpdateMapStores ==
  ASSUME Inv, TypeOK', SequentialInv, ~overlap, NEW c \in Client, NEW t \in Rev,
         NEW map \in MapOrNone, NEW w2, MapPut(c, t, map, w2), call[c].op = "update"
  PROVE  StepOK
<1>0. TypeOK /\ MapsOK
  BY DEF Inv
<1>1. /\ OneRoot /\ LinksOK /\ t \in rec.revisions /\ PlanOK(t, map) /\ ~rdoc[t].del
      /\ OneRoot' /\ (LinksOK' => SequentialInv')
  BY <1>0, MapPutKeeps
<1>2. MapStored(map)
  BY <1>0 DEF MapPut, MapsOK, MapOK
<1>3. /\ rdoc'[t].avps = map /\ \A r \in Rev \ {t} : rdoc'[r].avps = rdoc[r].avps
      /\ linked' = linked \cup ({map[f] : f \in Field} \ {None})
      /\ rec' = rec /\ adoc' = adoc
  BY DEF MapPut
<1>4. \A r \in Rev : rdoc'[r].parent = rdoc[r].parent /\ rdoc'[r].del = rdoc[r].del
  BY DEF MapPut
<1>5. LinksOK'
  BY <1>0, <1>1, <1>2, <1>3, PlanIsLinked
<1>6. RS!Next
  BY <1>0, <1>1, <1>2, <1>3, <1>4, UpdateSaves
<1> QED BY <1>1, <1>5, <1>6 DEF StepOK

LEMMA PutStores ==
  ASSUME Inv, TypeOK', SequentialInv, ~overlap, NEW c \in Client, PutOk(c)
  PROVE  StepOK
<1>0. TypeOK
  BY DEF Inv
<1>1. CASE IsRecordPut(call[c])
  BY <1>1, AddStores, StampRecordStores
<1>2. CASE ~IsRecordPut(call[c])
  <2>1. PICK t \in Rev, map \in MapOrNone : \E w2 : MapPut(c, t, map, w2)
    BY <1>0, <1>2, PutMapStores
  <2>2. PICK w2 : MapPut(c, t, map, w2)
    BY <2>1
  <2>3. call[c].op \in {"update", "stamp"}
    BY <2>2 DEF MapPut
  <2> QED BY <1>0, <2>2, <2>3, StampMapStores, UpdateMapStores
<1> QED BY <1>1, <1>2

-----------------------------------------------------------------------------
(* Every step.                                                             *)
LEMMA SequentialStep ==
  ASSUME Inv, TypeOK', SequentialInv, ~overlap, Next
  PROVE  StepOK
<1>0. TypeOK
  BY DEF Inv
<1>1. PICK c \in Client :
    \/ \E r \in Rev : CreateRecord(c, r)
    \/ PutFirstRevision(c)
    \/ \E op \in {"fork", "delete"}, base \in Rev : Fork(c, op, base)
    \/ \E new \in Rev : PutChild(c, new)
    \/ ReadRecord(c) \/ PutOk(c) \/ PutClash(c) \/ RereadRev(c)
    \/ \E r \in Rev, d \in FormData, bump \in Bumps : Update(c, r, d, bump)
    \/ Hydrate(c) \/ PutNewAvps(c) \/ PutOverwrites(c)
    \/ \E r \in Rev : Stamp(c, r)
    \/ ReadRevision(c) \/ Crash(c)
  BY DEF Next
<1>2. ASSUME NEW r \in Rev, CreateRecord(c, r) PROVE StepOK
  BY <1>2, CreateRecordStores
<1>3. CASE PutFirstRevision(c)
  BY <1>0, <1>3, PutFirstRevisionStores
<1>4. ASSUME NEW op \in {"fork", "delete"}, NEW base \in Rev, Fork(c, op, base) PROVE StepOK
  BY <1>0, <1>4, ForkReads
<1>5. ASSUME NEW new \in Rev, PutChild(c, new) PROVE StepOK
  BY <1>0, <1>5, PutChildStores
<1>6. CASE ReadRecord(c)
  BY <1>0, <1>6, ReadRecordReads
<1>7. CASE PutOk(c)
  BY <1>7, PutStores
<1>8. CASE PutClash(c) \/ RereadRev(c)
  BY <1>0, <1>8, RetryReads
<1>9. ASSUME NEW r \in Rev, NEW d \in FormData, NEW bump \in Bumps, Update(c, r, d, bump)
      PROVE  StepOK
  BY <1>0, <1>9, UpdateReads
<1>10. CASE Hydrate(c)
  BY <1>0, <1>10, HydrateReads
<1>11. CASE PutNewAvps(c)
  BY <1>11, NewAvpsStore
<1>12. CASE PutOverwrites(c)
  BY <1>12, OverwritesStore
<1>13. ASSUME NEW r \in Rev, Stamp(c, r) PROVE StepOK
  BY <1>0, <1>13, StampReads
<1>14. CASE ReadRevision(c)
  BY <1>0, <1>14, ReadRevisionReads
<1>15. CASE Crash(c)
  <2>1. call[c] # Idle /\ Finish(c) /\ UNCHANGED <<dbVars, returned, linked>>
    BY <1>15 DEF Crash
  <2>2. call[c].at # "idle"
    BY <1>0, <2>1, Shapes DEF TypeOK
  <2> QED BY <1>0, <2>1, <2>2, CallEnds
<1> QED
  BY <1>1, <1>2, <1>3, <1>4, <1>5, <1>6, <1>7, <1>8, <1>9, <1>10, <1>11, <1>12, <1>13,
     <1>14, <1>15

(* How calls overlap is fixed for a behaviour.                             *)
LEMMA OverlapIsFixed == [Next]_vars => overlap' = overlap
<1> SUFFICES ASSUME [Next]_vars PROVE overlap' = overlap
  OBVIOUS
<1>1. ASSUME NEW c, NEW w, Start(c, w) \/ Goto(c, w) PROVE overlap' = overlap
  BY <1>1 DEF Start, Goto
<1>2. ASSUME NEW c, Finish(c) PROVE overlap' = overlap
  BY <1>1, <1>2 DEF Finish
<1>3. CASE UNCHANGED vars
  BY <1>3 DEF vars
<1>4. ASSUME NEW c \in Client, PutOk(c) \/ PutClash(c) PROVE overlap' = overlap
  BY <1>1, <1>2, <1>4 DEF PutOk, PutClash
<1>5. ASSUME NEW c \in Client, Hydrate(c) PROVE overlap' = overlap
  BY <1>1, <1>2, <1>5 DEF Hydrate
<1>6. ASSUME NEW c \in Client, NEW r, CreateRecord(c, r) \/ PutChild(c, r) \/ Stamp(c, r)
      PROVE  overlap' = overlap
  BY <1>1, <1>6 DEF CreateRecord, PutChild, Stamp
<1>7. ASSUME NEW c \in Client, NEW r, NEW d, NEW bump, Fork(c, d, r) \/ Update(c, r, d, bump)
      PROVE  overlap' = overlap
  BY <1>1, <1>7 DEF Fork, Update
<1>8. ASSUME NEW c \in Client, \/ PutFirstRevision(c) \/ ReadRecord(c) \/ RereadRev(c)
                              \/ ReadRevision(c) \/ Crash(c)
      PROVE  overlap' = overlap
  BY <1>1, <1>2, <1>8 DEF PutFirstRevision, ReadRecord, RereadRev, ReadRevision, Crash
<1>9. ASSUME NEW c \in Client, PutNewAvps(c) \/ PutOverwrites(c) PROVE overlap' = overlap
  BY <1>9 DEF PutNewAvps, PutOverwrites, Goto
<1>10. CASE Next
  BY <1>4, <1>5, <1>6, <1>7, <1>8, <1>9, <1>10 DEF Next
<1> QED BY <1>3, <1>10

LEMMA SequentialInit == Init => SequentialInv /\ RS!Init
<1> SUFFICES ASSUME Init PROVE SequentialInv /\ RS!Init
  OBVIOUS
<1> USE DEF Init
<1>1. \A c \in Client : call[c] = Idle /\ call[c].at = "idle"
  BY DEF Idle
<1>2. OneAtATime /\ OneRoot /\ UnusedIsBlank
  BY <1>1 DEF OneAtATime, OneRoot, UnusedIsBlank, NoMap
<1>3. LinksOK
  BY DEF LinksOK, NoMap
<1>4. \A c \in Client : ReadOK(call[c]) /\ WriteOK(c)
  BY <1>1 DEF ReadOK, WriteOK
<1>5. SequentialInv
  BY <1>2, <1>3, <1>4 DEF SequentialInv
<1>6. RS!Init
  <2>1. ListedParent = [r \in Rev |-> None] /\ ListedDeleted = {}
    BY DEF ListedParent, ListedDeleted
  <2>2. ListedAvps = [r \in Rev |-> [f \in Field |-> None]]
    BY DEF ListedAvps, NoMap
  <2>3. LinkedOwner = [a \in Avp |-> None] /\ LinkedData = [a \in Avp |-> None]
    BY DEF LinkedOwner, LinkedData
  <2>4. CreatorPhase = "idle" /\ CreatorWork = None
    BY DEF CreatorPhase, CreatorWork
  <2> QED BY <2>1, <2>2, <2>3, <2>4 DEF RS!Init
<1> QED BY <1>5, <1>6

(* Nothing changes.                                                        *)
LEMMA SequentialStutter ==
  ASSUME SequentialInv, UNCHANGED vars
  PROVE  SequentialInv' /\ UNCHANGED RS!vars
<1>1. UNCHANGED <<overlap, rec, rdoc, adoc, call, calls, returned, linked>>
  BY DEF vars
<1>2. SequentialInv'
  <2> SUFFICES ASSUME ~overlap
               PROVE  /\ OneAtATime' /\ OneRoot' /\ UnusedIsBlank' /\ LinksOK'
                      /\ \A c \in Client : ReadOK(call[c])' /\ WriteOK(c)'
    BY <1>1 DEF SequentialInv
  <2>1. OneAtATime' /\ OneRoot' /\ UnusedIsBlank' /\ LinksOK'
    BY <1>1 DEF SequentialInv, OneAtATime, OneRoot, UnusedIsBlank, NoMap, LinksOK, Idle
  <2>2. ASSUME NEW c \in Client PROVE ReadOK(call[c])' /\ WriteOK(c)'
    <3>c. PICK w : w = call[c] /\ call'[c] = w
      BY <1>1
    <3>1. ReadOK(w) /\ WriteOK(c)
      BY <3>c DEF SequentialInv
    <3>2. /\ MakeOK(w) => MakeOK(call[c])'
          /\ OverOK(w) => OverOK(call[c])'
          /\ PlanOK(w.target, w.map) => PlanOK(call[c].target, call[c].map)'
          /\ PlanOK(w.target, w.body) => PlanOK(call[c].target, call[c].body)'
      BY <1>1, <3>c, PlansStay
    <3>3. ReadOK(call[c])'
      BY <1>1, <3>c, <3>1, <3>2 DEF ReadOK
    <3>4. RecordBody(c)' = RecordBody(c)
      BY <1>1 DEF RecordBody, HeadsAfter
    <3>5. WriteOK(c)'
      BY <1>1, <3>c, <3>1, <3>2, <3>4 DEF WriteOK
    <3> QED BY <3>3, <3>5
  <2> QED BY <2>1, <2>2
<1>3. UNCHANGED <<rec.revisions, rec.heads, ListedParent, ListedDeleted, ListedAvps,
                  LinkedOwner, LinkedData, CreatorPhase, CreatorWork>>
  BY <1>1 DEF ListedParent, ListedDeleted, ListedAvps, LinkedOwner, LinkedData,
     CreatorPhase, CreatorWork, NoMap, FirstOf
<1> QED BY <1>2, <1>3, Unseen

-----------------------------------------------------------------------------
(* When no two calls of the engine overlap, what a call has read of the    *)
(* record, the revision and its parent's map is still so when it puts      *)
(* (updateDocument, updateRevision of engine.ts), and the map it is about  *)
(* to put is one RevisionStore writes, wherever earlier calls stopped.     *)
THEOREM CallsInTurnSeeTheStore == Spec => []SequentialInv
<1>1. Inv /\ SequentialInv /\ [Next]_vars => SequentialInv'
  <2> SUFFICES ASSUME Inv, SequentialInv, [Next]_vars PROVE SequentialInv'
    OBVIOUS
  <2>1. CASE overlap
    <3>1. overlap' = overlap
      BY OverlapIsFixed
    <3> QED BY <2>1, <3>1 DEF SequentialInv
  <2>2. CASE ~overlap /\ Next
    <3>1. TypeOK'
      BY InvStep DEF Inv
    <3> QED BY <2>2, <3>1, SequentialStep DEF StepOK
  <2>3. CASE UNCHANGED vars
    BY <2>3, SequentialStutter
  <2> QED BY <2>1, <2>2, <2>3
<1>2. Init => SequentialInv
  BY SequentialInit
<1> QED BY <1>1, <1>2, Inductive, PTL DEF Spec

(* When calls do not overlap, each of them, wherever it stops, keeps every *)
(* promise of RevisionStore: createRecord, createRevision, deleteRecord,   *)
(* updateRevision and the stamp of engine.ts implement it, one abstract    *)
(* step or none for each await.                                            *)
THEOREM CallsInTurnImplement == Spec => Sequential
<1>1. Inv /\ SequentialInv /\ [Next]_vars => [overlap \/ RS!Next]_(RS!vars)
  <2> SUFFICES ASSUME Inv, SequentialInv, [Next]_vars
               PROVE  overlap \/ RS!Next \/ UNCHANGED RS!vars
    OBVIOUS
  <2>1. CASE ~overlap /\ Next
    <3>1. TypeOK'
      BY InvStep DEF Inv
    <3> QED BY <2>1, <3>1, SequentialStep DEF StepOK
  <2>2. CASE UNCHANGED vars
    BY <2>2, SequentialStutter
  <2> QED BY <2>1, <2>2
<1>2. Init => RS!Init
  BY SequentialInit
<1> QED BY <1>1, <1>2, Inductive, CallsInTurnSeeTheStore, PTL DEF Spec, Sequential

-----------------------------------------------------------------------------
(* What the theorems about RevisionStore say of the documents.             *)
Promised == INSTANCE RevisionStoreProofs WITH
  Session <- {"creator"}, exclusive <- FALSE,
  revisions <- rec.revisions, heads <- rec.heads, parent <- ListedParent,
  deleted <- ListedDeleted, avps <- ListedAvps, owner <- LinkedOwner, val <- LinkedData,
  phase <- [s \in {"creator"} |-> CreatorPhase],
  work <- [s \in {"creator"} |-> CreatorWork]

(* RevisionStore and the module of its theorems have the same steps.       *)
LEMMA SameStore ==
  /\ RS!Init => Promised!Init
  /\ RS!Next => Promised!Next
  /\ UNCHANGED RS!vars => UNCHANGED Promised!vars
<1>1. RS!Init => Promised!Init
  BY DEF RS!Init, Promised!Init
<1>2. UNCHANGED RS!vars => UNCHANGED Promised!vars
  BY DEF RS!vars, Promised!vars, RS!docs, Promised!docs
<1>3. ASSUME NEW r, NEW d, RS!WriteRevision(r, d) PROVE Promised!WriteRevision(r, d)
  BY <1>3, Zenon DEF RS!WriteRevision, Promised!WriteRevision, RS!NewIds, Promised!NewIds,
     RS!Injection, Promised!Injection, RS!IsInjective, Promised!IsInjective,
     RS!Kept, Promised!Kept, RS!Reverted, Promised!Reverted, RS!InPlace, Promised!InPlace,
     RS!Created, Promised!Created, RS!ParentAvp, Promised!ParentAvp, RS!Content,
     Promised!Content, RS!Free, Promised!Free
<1>4. ASSUME NEW base, NEW new, RS!AppendRevision(base, new)
      PROVE  Promised!AppendRevision(base, new)
  BY <1>4 DEF RS!AppendRevision, Promised!AppendRevision, RS!NewHeads, Promised!NewHeads,
     RS!NewHistory, Promised!NewHistory, RS!Forkable, Promised!Forkable
<1>5. ASSUME RS!Next PROVE Promised!Next
  <2> USE DEF RS!docs, Promised!docs
  <2>1. ASSUME NEW s \in {"creator"}, NEW r \in Rev, RS!CreateRecord(s, r) PROVE Promised!Next
    BY <2>1 DEF RS!CreateRecord, Promised!CreateRecord, Promised!Next
  <2>2. ASSUME NEW s \in {"creator"}, NEW h \in Rev, RS!OpenRecord(s, h) PROVE Promised!Next
    BY <2>2 DEF RS!OpenRecord, Promised!OpenRecord, RS!Alone, Promised!Alone, Promised!Next
  <2>3. ASSUME NEW s \in {"creator"}, RS!CloseRecord(s) PROVE Promised!Next
    BY <2>3 DEF RS!CloseRecord, Promised!CloseRecord, Promised!Next
  <2>4. ASSUME NEW s \in {"creator"}, NEW new \in Rev, RS!FirstEdit(s, new) PROVE Promised!Next
    BY <1>4, <2>4 DEF RS!FirstEdit, Promised!FirstEdit, Promised!Next
  <2>5. ASSUME NEW base \in Rev, NEW new \in Rev, RS!DeleteRecord(base, new)
        PROVE  Promised!Next
    BY <1>4, <2>5 DEF RS!DeleteRecord, Promised!DeleteRecord, Promised!Next
  <2>6. ASSUME NEW s \in {"creator"}, NEW d \in RS!FormData, RS!Save(s, d) PROVE Promised!Next
    BY <1>3, <2>6 DEF RS!Save, Promised!Save, Promised!Next, RS!FormData, Promised!FormData
  <2>7. ASSUME NEW base \in Rev, NEW new \in Rev, RS!ApiCreateRevision(base, new)
        PROVE  Promised!Next
    BY <1>4, <2>7 DEF RS!ApiCreateRevision, Promised!ApiCreateRevision, Promised!Next
  <2>8. ASSUME NEW r \in Rev, NEW d \in RS!FormData, RS!ApiUpdateRevision(r, d)
        PROVE  Promised!Next
    BY <1>3, <2>8 DEF RS!ApiUpdateRevision, Promised!ApiUpdateRevision, Promised!Next,
       RS!FormData, Promised!FormData
  <2> QED BY <1>5, <2>1, <2>2, <2>3, <2>4, <2>5, <2>6, <2>7, <2>8 DEF RS!Next
<1> QED BY <1>1, <1>2, <1>5

(* When calls do not overlap no createRevision or deleteRecord buries a    *)
(* deletion, and no value of a field crosses from one branch, or one       *)
(* field, into another by updateRevision: what is proved of RevisionStore  *)
(* holds of the documents that CouchDB stores.                             *)
THEOREM CallsInTurnKeepPromises ==
  Spec => [](~overlap => Promised!TombstoneStaysHead /\ Promised!AvpsOfOwnLine)
<1> DEFINE Promises == Promised!TombstoneStaysHead /\ Promised!AvpsOfOwnLine
<1>1. Inv /\ SequentialInv /\ ~overlap /\ [Next]_vars => [Promised!Next]_(Promised!vars)
  <2> SUFFICES ASSUME Inv, SequentialInv, ~overlap, [Next]_vars
               PROVE  Promised!Next \/ UNCHANGED Promised!vars
    OBVIOUS
  <2>1. CASE Next
    <3>1. TypeOK'
      BY InvStep DEF Inv
    <3> QED BY <2>1, <3>1, SequentialStep, SameStore DEF StepOK
  <2>2. CASE UNCHANGED vars
    BY <2>2, SequentialStutter, SameStore
  <2> QED BY <2>1, <2>2
<1>2. Init => Promised!Init
  BY SequentialInit, SameStore
<1>3. overlap /\ [Next]_vars => overlap'
  BY OverlapIsFixed
<1>4. ~overlap /\ [Next]_vars => ~overlap'
  BY OverlapIsFixed
<1>5. Promised!Spec => []Promises
  BY Promised!DeletionsAreFinal, Promised!NoValueCrossesBranches, NoneIsOther, PTL
<1>6. Spec => []Inv /\ []SequentialInv
  BY Inductive, CallsInTurnSeeTheStore, PTL
<1>7. ~overlap /\ []~overlap /\ Spec => Promised!Spec
  BY <1>1, <1>2, <1>6, PTL DEF Spec, Promised!Spec
<1>8. Spec => []overlap \/ []~overlap
  BY <1>3, <1>4, PTL DEF Spec
<1> QED BY <1>5, <1>7, <1>8, PTL
=============================================================================
