------------------------------ MODULE DataEngine ------------------------------
(***************************************************************************)
(* The engine calls on one record, split at their awaits, against one      *)
(* CouchDB/PouchDB database that several clients use at once: the record   *)
(* document, its revision documents and its AVP documents, each with the   *)
(* `_rev` that a put must quote.  A put with a stale `_rev` is refused     *)
(* (409); updateDocument then reads the latest `_rev` and writes the       *)
(* caller's document again as it is.  A client may stop between any two    *)
(* steps, and nothing undoes what it wrote.                                *)
(*                                                                         *)
(* Calls that do not overlap implement RevisionStore (property Sequential). *)
(***************************************************************************)
EXTENDS Naturals, Functions, FiniteSets

CONSTANTS
  Rev, Avp, Field, Value, None,   \* as in RevisionStore
  Client,       \* callers of the engine: API requests, open forms
  MaxRetries,   \* maxRetries of updateDocument (5 in the code)
  MaxCalls      \* bound: calls the clients make in a behaviour

ASSUME MaxRetriesIsPositive == MaxRetries \in Nat \ {0}
ASSUME MaxCallsIsNatural == MaxCalls \in Nat
ASSUME NoneIsOther == None \notin Rev \cup Avp \cup Value

VARIABLES
  overlap,   \* fixed for a whole behaviour: FALSE, a call starts only when
             \* no other call is under way; TRUE, calls interleave freely
  rec,       \* the record document: rev (0 = missing), heads, revisions
  rdoc,      \* revision documents: rev, parent, del, avps
  adoc,      \* AVP documents: rev, owner, data
  call,      \* what each client is doing
  calls,     \* calls started so far
  returned,  \* ids of revisions that a fork or a delete gave to its caller
  linked     \* history: AVPs some stored revision has referred to

dbVars == <<rec, rdoc, adoc>>
vars == <<overlap, rec, rdoc, adoc, call, calls, returned, linked>>

MapOrNone == [Field -> Avp \cup {None}]
FormData  == [Field -> Value \cup {None}]
NoMap     == [f \in Field |-> None]
Idle      == [at |-> "idle"]

-----------------------------------------------------------------------------
Init ==
  /\ overlap \in BOOLEAN
  /\ rec = [rev |-> 0, heads |-> {}, revisions |-> {}]
  /\ rdoc = [r \in Rev |-> [rev |-> 0, parent |-> None, del |-> FALSE, avps |-> NoMap]]
  /\ adoc = [a \in Avp |-> [rev |-> 0, owner |-> None, data |-> None]]
  /\ call = [c \in Client |-> Idle]
  /\ calls = 0 /\ returned = {} /\ linked = {}

(* Revisions a client can name: the record lists them, or it made them.    *)
Known == {r \in rec.revisions \cup returned : rdoc[r].rev > 0}

Start(c, state) ==
  /\ call[c] = Idle /\ calls < MaxCalls
  /\ overlap \/ \A other \in Client : call[other] = Idle
  /\ calls' = calls + 1
  /\ call' = [call EXCEPT ![c] = state]
  /\ UNCHANGED overlap

Goto(c, state) ==
  call' = [call EXCEPT ![c] = state] /\ UNCHANGED <<calls, overlap>>

Finish(c) == Goto(c, Idle)

-----------------------------------------------------------------------------
(* createRecord: the record document first, then its first revision.       *)
CreateRecord(c, r) ==
  /\ rec.rev = 0
  /\ Start(c, [op |-> "create", at |-> "putFirst", target |-> r])
  /\ rec' = [rev |-> 1, heads |-> {r}, revisions |-> {r}]
  /\ UNCHANGED <<rdoc, adoc, returned, linked>>

PutFirstRevision(c) ==
  /\ call[c].at = "putFirst"
  /\ rdoc' = [rdoc EXCEPT ![call[c].target].rev = 1]
  /\ Finish(c)
  /\ UNCHANGED <<rec, adoc, returned, linked>>

-----------------------------------------------------------------------------
(* createRevision and deleteRecord: read the base and refuse a tombstone.  *)
Fork(c, op, base) ==
  /\ base \in Known /\ ~rdoc[base].del
  /\ Start(c, [op |-> op, at |-> "putChild", target |-> base, avps |-> rdoc[base].avps])
  /\ UNCHANGED <<dbVars, returned, linked>>

(* Then store the child, under a new id, with the AVPs that were read.     *)
PutChild(c, new) ==
  /\ call[c].at = "putChild"
  /\ rdoc[new].rev = 0 /\ new \notin rec.revisions
  /\ rdoc' = [rdoc EXCEPT ![new] =
       [rev |-> 1, parent |-> call[c].target, del |-> call[c].op = "delete",
        avps |-> call[c].avps]]
  /\ Goto(c, [op |-> call[c].op, at |-> "readRecord", target |-> call[c].target,
              new |-> new])
  /\ UNCHANGED <<rec, adoc, returned, linked>>

(* Mutant: the caller's head is kept as well.                              *)
KeepBothHeads(old, new) == rec.heads \cup {new}

(* updateRecordHeads: what it writes over the heads it has read.           *)
HeadsAfter(old, new) == (rec.heads \cup {new}) \ {old}

(* The record document that call c wants to store: a fork or a delete adds *)
(* its revision, stampRecordUpdatedAt keeps what it read.                  *)
RecordBody(c) ==
  IF call[c].op \in {"fork", "delete"}
  THEN [heads |-> HeadsAfter(call[c].target, call[c].new),
        revisions |-> rec.revisions \cup {call[c].new}]
  ELSE [heads |-> rec.heads, revisions |-> rec.revisions]

ReadRecord(c) ==
  /\ call[c].at = "readRecord"
  /\ Goto(c, [op |-> call[c].op, at |-> "put", kind |-> "record",
              target |-> call[c].target,
              new |-> IF call[c].op \in {"fork", "delete"} THEN call[c].new ELSE None,
              rev |-> rec.rev, body |-> RecordBody(c), clashes |-> 0,
              then |-> "done"])
  /\ UNCHANGED <<dbVars, returned, linked>>

-----------------------------------------------------------------------------
(* updateDocument: a put, repeated with the latest `_rev` when it clashes. *)

(* Mutant: the latest `_rev` is fetched before the first put as well, so   *)
(* that no put clashes.                                                    *)
LatestFirst(c) == call[c].rev

StoredRev(c) ==
  IF call[c].kind = "record" THEN rec.rev ELSE rdoc[call[c].target].rev

Store(c) ==
  LET w == call[c] IN
  IF w.kind = "record"
  THEN /\ rec' = [rev |-> rec.rev + 1, heads |-> w.body.heads,
                  revisions |-> w.body.revisions]
       /\ UNCHANGED <<rdoc, adoc, linked>>
  ELSE /\ rdoc' = [rdoc EXCEPT ![w.target].rev = @ + 1, ![w.target].avps = w.body]
       /\ linked' = linked \cup (Range(w.body) \ {None})
       /\ UNCHANGED <<rec, adoc>>

(* The put is accepted: go on to the record's stamp, or return.            *)
PutOk(c) ==
  /\ call[c].at = "put" /\ call[c].rev = StoredRev(c)
  /\ Store(c)
  /\ IF call[c].then = "stampRecord"
     THEN Goto(c, [op |-> "stamp", at |-> "readRecord", target |-> call[c].target])
     ELSE Finish(c)
  /\ returned' = IF call[c].op \in {"fork", "delete"}
                 THEN returned \cup {call[c].new} ELSE returned

(* The put clashes: read the latest `_rev`, or give up and throw.          *)
PutClash(c) ==
  /\ call[c].at = "put" /\ call[c].rev # StoredRev(c)
  /\ IF call[c].clashes < MaxRetries
     THEN Goto(c, [call[c] EXCEPT !.at = "reread", !.clashes = @ + 1])
     ELSE Finish(c)
  /\ UNCHANGED <<dbVars, returned, linked>>

RereadRev(c) ==
  /\ call[c].at = "reread"
  /\ Goto(c, [call[c] EXCEPT !.at = "put", !.rev = StoredRev(c)])
  /\ UNCHANGED <<dbVars, returned, linked>>

-----------------------------------------------------------------------------
(* The AVP strategies.  The ids come from the map the call has read first  *)
(* (cur), the data from the revisions it hydrates later (hyd, up).         *)
DataOf(map, f) == IF map[f] = None THEN None ELSE adoc[map[f]].data

Kept(hyd, d) == {f \in Field : d[f] # None /\ DataOf(hyd, f) = d[f]}

Reverted(hyd, up, d) ==
  {f \in Field : d[f] # None /\ f \notin Kept(hyd, d) /\ DataOf(up, f) = d[f]}

(* Mutant: the divergence test forgotten, every changed AVP overwritten.   *)
AlwaysInPlace(r, cur, hyd, up, d) ==
  {f \in Field : /\ d[f] # None /\ hyd[f] # None
                 /\ f \notin Kept(hyd, d) \cup Reverted(hyd, up, d)}

InPlace(r, cur, hyd, up, d) ==
  {f \in Field : /\ d[f] # None /\ hyd[f] # None
                 /\ f \notin Kept(hyd, d) \cup Reverted(hyd, up, d)
                 /\ rdoc[r].parent = None \/ cur[f] # up[f]}

Created(r, cur, hyd, up, d) ==
  {f \in Field : d[f] # None} \ (Kept(hyd, d) \cup Reverted(hyd, up, d)
                                   \cup InPlace(r, cur, hyd, up, d))

(* The `updatedAt` stamps the callers of updateRevision ask for.           *)
Bumps == {{"revision"}, {"record"}, {"revision", "record"}}

(* updateRevision reads the revision and refuses a tombstone.              *)
Update(c, r, d, bump) ==
  /\ r \in Known /\ ~rdoc[r].del
  /\ Start(c, [op |-> "update", at |-> "hydrate", target |-> r, data |-> d,
               bump |-> bump, cur |-> rdoc[r]])
  /\ UNCHANGED <<dbVars, returned, linked>>

(* It hydrates the revision, which it reads again, and its parent, decides *)
(* per field, and reads the AVPs to overwrite.  An AVP to overwrite that   *)
(* the first read did not list makes it throw.                             *)
Hydrate(c) ==
  /\ call[c].at = "hydrate"
  /\ LET w == call[c]
         cur == w.cur.avps
         hyd == rdoc[w.target].avps
         up == IF w.cur.parent = None THEN NoMap ELSE rdoc[w.cur.parent].avps
         over == InPlace(w.target, cur, hyd, up, w.data)
         map == [f \in Field |->
                  IF f \in Kept(hyd, w.data) \cup over THEN cur[f]
                  ELSE IF f \in Reverted(hyd, up, w.data) THEN up[f] ELSE None]
         make == Created(w.target, cur, hyd, up, w.data)
     IN IF \E f \in over : cur[f] = None THEN Finish(c)
        ELSE Goto(c, [op |-> "update", at |-> "create", target |-> w.target,
               bump |-> w.bump, rev |-> w.cur.rev, map |-> map,
               make |-> [f \in make |-> w.data[f]],
               over |-> [f \in over |-> [rev |-> adoc[cur[f]].rev, data |-> w.data[f]]],
               changed |-> \/ make # {} \/ Reverted(hyd, up, w.data) # {}
                           \/ \E f \in Field : cur[f] # None /\ w.data[f] = None])
  /\ UNCHANGED <<dbVars, returned, linked>>

(* Mutant: the new AVPs are never stored.                                  *)
StoreNothing(w, ids) == adoc

(* Mutant: they are stored without their data.                             *)
StoreShells(w, ids) ==
  [a \in Avp |-> IF \E f \in DOMAIN ids : ids[f] = a
     THEN [rev |-> 1, owner |-> w.target, data |-> None] ELSE adoc[a]]

StoreNewAvps(w, ids) ==
  [a \in Avp |-> IF \E f \in DOMAIN ids : ids[f] = a
     THEN [rev |-> 1, owner |-> w.target,
           data |-> w.make[CHOOSE f \in DOMAIN ids : ids[f] = a]]
     ELSE adoc[a]]

(* bulkPutAvps of the new AVPs, under ids nobody has used.                 *)
PutNewAvps(c) ==
  /\ call[c].at = "create"
  /\ \E ids \in Injection(DOMAIN call[c].make, {a \in Avp : adoc[a].rev = 0}) :
       /\ adoc' = StoreNewAvps(call[c], ids)
       /\ Goto(c, [call[c] EXCEPT !.at = "overwrite", !.map = [f \in Field |->
                     IF f \in DOMAIN ids THEN ids[f] ELSE call[c].map[f]]])
  /\ UNCHANGED <<rec, rdoc, returned, linked>>

(* After the AVPs: rewrite the revision when its map has changed, with its *)
(* stamp; otherwise only the stamps that were asked for.                   *)
AfterAvps(w) ==
  LET then == IF "record" \in w.bump THEN "stampRecord" ELSE "done"
  IN IF w.changed
     THEN [op |-> "update", at |-> "put", kind |-> "revision", target |-> w.target,
           rev |-> w.rev, body |-> w.map, clashes |-> 0, then |-> then]
     ELSE IF "revision" \in w.bump
     THEN [op |-> "stamp", at |-> "readRevision", target |-> w.target, then |-> then]
     ELSE [op |-> "stamp", at |-> "readRecord", target |-> w.target]

(* bulkPutAvps of the overwritten AVPs: bulkDocs reports a 409 per         *)
(* document and nobody looks, so a clash loses the value in silence.       *)
PutOverwrites(c) ==
  /\ call[c].at = "overwrite"
  /\ LET w == call[c]
         hit(f, a) == /\ w.map[f] = a /\ w.over[f].rev = adoc[a].rev
     IN adoc' = [a \in Avp |->
          IF \E f \in DOMAIN w.over : hit(f, a)
          THEN [adoc[a] EXCEPT !.rev = @ + 1,
                  !.data = w.over[CHOOSE f \in DOMAIN w.over : hit(f, a)].data]
          ELSE adoc[a]]
  /\ Goto(c, AfterAvps(call[c]))
  /\ UNCHANGED <<rec, rdoc, returned, linked>>

-----------------------------------------------------------------------------
(* stampUpdatedAtIfNewer: stamp the revision, then the record.             *)
Stamp(c, r) ==
  /\ r \in Known
  /\ Start(c, [op |-> "stamp", at |-> "readRevision", target |-> r,
               then |-> "stampRecord"])
  /\ UNCHANGED <<dbVars, returned, linked>>

(* stampRevisionUpdatedAt: fetch, and put back what was fetched.           *)
ReadRevision(c) ==
  /\ call[c].at = "readRevision"
  /\ Goto(c, [op |-> "stamp", at |-> "put", kind |-> "revision",
              target |-> call[c].target, rev |-> rdoc[call[c].target].rev,
              body |-> rdoc[call[c].target].avps, clashes |-> 0,
              then |-> call[c].then])
  /\ UNCHANGED <<dbVars, returned, linked>>

(* The client stops: its tab is closed, its process dies, a request fails. *)
Crash(c) ==
  /\ call[c] # Idle
  /\ Finish(c)
  /\ UNCHANGED <<dbVars, returned, linked>>

Next ==
  \E c \in Client :
    \/ \E r \in Rev : CreateRecord(c, r)
    \/ PutFirstRevision(c)
    \/ \E op \in {"fork", "delete"}, base \in Rev : Fork(c, op, base)
    \/ \E new \in Rev : PutChild(c, new)
    \/ ReadRecord(c) \/ PutOk(c) \/ PutClash(c) \/ RereadRev(c)
    \/ \E r \in Rev, d \in FormData, bump \in Bumps : Update(c, r, d, bump)
    \/ Hydrate(c) \/ PutNewAvps(c) \/ PutOverwrites(c)
    \/ \E r \in Rev : Stamp(c, r)
    \/ ReadRevision(c) \/ Crash(c)

Spec == Init /\ [][Next]_vars

-----------------------------------------------------------------------------
(* What a call is, at each of its steps.                                   *)
CreateCall == [op : {"create"}, at : {"putFirst"}, target : Rev]
ForkCall   == [op : {"fork", "delete"}, at : {"putChild"}, target : Rev, avps : MapOrNone]
AddCall    == [op : {"fork", "delete"}, at : {"readRecord"}, target : Rev, new : Rev]
StampCall  == [op : {"stamp"}, at : {"readRecord"}, target : Rev]
RestampCall == [op : {"stamp"}, at : {"readRevision"}, target : Rev,
                then : {"done", "stampRecord"}]
RecordPut(ops, ids) ==
  [op : ops, at : {"put", "reread"}, kind : {"record"}, target : Rev, new : ids, rev : Nat,
   body : [heads : SUBSET Rev, revisions : SUBSET Rev], clashes : Nat, then : {"done"}]
PutRecordCall == RecordPut({"fork", "delete"}, Rev) \cup RecordPut({"stamp"}, {None})
PutRevisionCall ==
  [op : {"update", "stamp"}, at : {"put", "reread"}, kind : {"revision"},
   target : Rev, rev : Nat, body : MapOrNone, clashes : Nat,
   then : {"done", "stampRecord"}]
UpdateCall ==
  [op : {"update"}, at : {"hydrate"}, target : Rev, data : FormData, bump : Bumps,
   cur : [rev : Nat, parent : Rev \cup {None}, del : BOOLEAN, avps : MapOrNone]]
SaveCall(S, T) ==
  [op : {"update"}, at : {"create", "overwrite"}, target : Rev, bump : Bumps, rev : Nat,
   map : MapOrNone, make : [S -> Value],
   over : [T -> [rev : Nat, data : Value]],
   changed : BOOLEAN]

IsCall(w) ==
  \/ w \in CreateCall \cup ForkCall \cup AddCall \cup StampCall \cup RestampCall
  \/ w \in PutRecordCall \cup PutRevisionCall \cup UpdateCall
  \/ \E S, T \in SUBSET Field : w \in SaveCall(S, T)

TypeOK ==
  /\ overlap \in BOOLEAN
  /\ rec \in [rev : Nat, heads : SUBSET Rev, revisions : SUBSET Rev]
  /\ rdoc \in [Rev -> [rev : Nat, parent : Rev \cup {None}, del : BOOLEAN,
                       avps : MapOrNone]]
  /\ adoc \in [Avp -> [rev : Nat, owner : Rev \cup {None},
                       data : Value \cup {None}]]
  /\ \A a \in Avp : adoc[a].rev > 0 => adoc[a].owner # None /\ adoc[a].data # None
  /\ DOMAIN call = Client /\ \A c \in Client : call[c] = Idle \/ IsCall(call[c])
  /\ calls \in 0..MaxCalls
  /\ returned \subseteq Rev /\ linked \subseteq Avp

(* However calls interleave, clash, overwrite each other and stop halfway: *)
(* the heads the record lists are the leaves among the revisions it lists. *)
(* The two lists are always written together, from one read                *)
(* (updateRecordHeads, stampRecordUpdatedAt, updateDocument).              *)
ListedHeadsAreLeaves ==
  rec.heads = {r \in rec.revisions : \A q \in rec.revisions : rdoc[q].parent # r}

(* A reader that follows the ids finds every document: no listed revision  *)
(* but the very first is missing, and no stored revision names an AVP that *)
(* is not stored, also after a crash (a child is stored before it is       *)
(* listed, an AVP before the map that names it).                           *)
NoDanglingId ==
  /\ \A r \in rec.revisions : rdoc[r].rev = 0 => rec.revisions = {r}
  /\ \A r \in Rev, f \in Field :
       rdoc[r].avps[f] # None => adoc[rdoc[r].avps[f]].rev > 0

(* A revision leaves the record's history only at a repeated put: the first *)
(* put of a call, a fork's, a delete's or a stamp's, is refused when any    *)
(* other call has changed the record since this one read it, however many   *)
(* reads, puts and stops came in between (updateDocument puts with the      *)
(* `_rev` its caller read before it fetches another).                       *)
HistoryLostToRepeatsOnly ==
  [][\A r \in rec.revisions \ rec'.revisions :
       \E c \in Client : PutOk(c) /\ call[c].kind = "record" /\ call[c].clashes > 0]_vars

(* updateRecordHeads: "Removes old head, adds new head, and maintains      *)
(* complete revision history."  Every put of the record that is accepted   *)
(* lists what the record listed, the repeated ones too; likewise the stamp *)
(* of a record, which is to write `updatedAt` only.                        *)
RecordPutsKeepHistory ==
  [][\A c \in Client : PutOk(c) /\ call[c].kind = "record" =>
       rec.revisions \subseteq rec'.revisions]_vars

-----------------------------------------------------------------------------
(* What makes these inductive.                                             *)
Leaves(S) == {r \in S : \A q \in S : rdoc[q].parent # r}

Stored(S) == \A r \in S : rdoc[r].rev > 0

MapStored(map) == \A f \in Field : map[f] # None => adoc[map[f]].rev > 0

IsAdd(w)       == w.at = "readRecord" /\ w.op \in {"fork", "delete"}
IsRecordPut(w) == w.at \in {"put", "reread"} /\ w.kind = "record"

(* Before the record there is nothing; before its first revision there is  *)
(* nothing but a client that may still store it.                           *)
BeginningOK ==
  /\ rec.rev = 0 => rec.revisions = {} /\ \A c \in Client : call[c] = Idle
  /\ \A r \in rec.revisions : rdoc[r].rev = 0 =>
       /\ rec.revisions = {r}
       /\ \A c \in Client : call[c] # Idle => call[c] \in CreateCall /\ call[c].target = r
  /\ rec.rev = 0 \/ ~Stored(rec.revisions) =>
       returned = {} /\ \A r \in Rev : rdoc[r].rev = 0

(* Documents that others name are stored.                                  *)
TargetsOK(w) ==
  /\ w.at \notin {"idle", "putFirst"} => rdoc[w.target].rev > 0
  /\ IsRecordPut(w) => Stored(w.body.revisions)
  /\ IsAdd(w) => rdoc[w.new].rev > 0

NamedIsStored ==
  /\ Stored(returned)
  /\ \A r \in Rev : rdoc[r].parent # None => rdoc[rdoc[r].parent].rev > 0
  /\ \A c \in Client : TargetsOK(call[c])

(* Nobody but its maker knows a revision before the record lists it.       *)
NewIsSecret ==
  \A c \in Client : IsAdd(call[c]) =>
    LET new == call[c].new IN
    /\ new \notin rec.revisions \cup returned
    /\ rdoc[new].parent = call[c].target
    /\ \A q \in Rev : rdoc[q].parent # new
    /\ \A other \in Client \ {c} :
         /\ call[other].at = "putChild" => call[other].target # new
         /\ IsAdd(call[other]) => call[other].new # new
         /\ IsRecordPut(call[other]) => new \notin call[other].body.revisions

(* What a client is about to put over the record has heads that are leaves. *)
BodyOK(w) ==
  IsRecordPut(w) => /\ w.body.heads = Leaves(w.body.revisions)
                    /\ w.op \in {"fork", "delete"} => w.new \in w.body.revisions

BodiesOK == \A c \in Client : BodyOK(call[c])

(* The maps that documents hold and that calls have read or made name      *)
(* stored AVPs.                                                            *)
MapOK(w) ==
  /\ w.at = "putChild" => MapStored(w.avps)
  /\ w.at = "hydrate" => MapStored(w.cur.avps)
  /\ w.at \in {"create", "overwrite"} => MapStored(w.map)
  /\ w.at \in {"put", "reread"} /\ w.kind = "revision" => MapStored(w.body)

MapsOK ==
  /\ \A r \in Rev : MapStored(rdoc[r].avps)
  /\ \A c \in Client : MapOK(call[c])

(* A put that has not clashed and quotes the current `_rev` lists all that *)
(* the record lists.                                                       *)
PutIsFresh(w) ==
  IsRecordPut(w) /\ w.clashes = 0 =>
    /\ w.at = "put" /\ w.rev <= rec.rev
    /\ w.rev = rec.rev => rec.revisions \subseteq w.body.revisions

PutsAreFresh == \A c \in Client : PutIsFresh(call[c])

Inv ==
  /\ TypeOK /\ ListedHeadsAreLeaves /\ BeginningOK /\ NamedIsStored /\ NewIsSecret
  /\ BodiesOK /\ MapsOK

-----------------------------------------------------------------------------
(* Calls that do not overlap: what a call has read is still so, and what   *)
(* it is about to write is what RevisionStore writes.                      *)
OneAtATime ==
  \A c, other \in Client : call[c] # Idle /\ call[other] # Idle => c = other

(* The revisions the record lists are a tree, whose root is the first.     *)
OneRoot ==
  /\ rec.rev > 0 => \E root \in rec.revisions :
       \A r \in rec.revisions : rdoc[r].parent = None <=> r = root
  /\ \A r \in rec.revisions : rdoc[r].parent # None => rdoc[r].parent \in rec.revisions

(* An id nobody has used has no document; the others are the history's.    *)
UnusedIsBlank ==
  /\ \A r \in Rev : rdoc[r].rev = 0 =>
       rdoc[r].parent = None /\ ~rdoc[r].del /\ rdoc[r].avps = NoMap
  /\ returned \subseteq rec.revisions

(* Whatever a stored map names is linked, and by one field only.           *)
LinksOK ==
  /\ \A r \in Rev, f \in Field : rdoc[r].avps[f] # None => rdoc[r].avps[f] \in linked
  /\ \A a \in linked : adoc[a].rev > 0
  /\ \A r, q \in Rev, f, g \in Field :
       rdoc[r].avps[f] # None /\ rdoc[q].avps[g] = rdoc[r].avps[f] => g = f

(* The map of the revision that r was forked from.                         *)
UpMap(r) == IF rdoc[r].parent = None THEN NoMap ELSE rdoc[rdoc[r].parent].avps

Inherits(r, f) ==
  \/ rdoc[r].avps[f] = None
  \/ rdoc[r].parent # None /\ rdoc[r].avps[f] = UpMap(r)[f]

(* A map to be stored on r names what r has, or what its parent has, or    *)
(* new AVPs; and other AVPs than r has for other data than r has.          *)
PlanOK(r, map) ==
  /\ \A f \in Field : map[f] \notin {None, rdoc[r].avps[f]} =>
       /\ DataOf(rdoc[r].avps, f) # adoc[map[f]].data
       /\ \/ map[f] = UpMap(r)[f]
          \/ /\ map[f] \notin linked
             /\ adoc[map[f]].rev > 0 /\ adoc[map[f]].owner = r
             /\ DataOf(UpMap(r), f) # adoc[map[f]].data /\ Inherits(r, f)
  /\ \A f, g \in Field : map[f] # None /\ map[f] = map[g] => f = g

(* New AVPs are for fields without one or that share their parent's, the   *)
(* others are overwritten; always with other data than r and its parent.   *)
MakeOK(w) ==
  \A f \in DOMAIN w.make :
    /\ w.make[f] \notin {DataOf(rdoc[w.target].avps, f), DataOf(UpMap(w.target), f)}
    /\ w.map[f] = None /\ Inherits(w.target, f)

OverOK(w) ==
  \A f \in DOMAIN w.over :
    /\ w.over[f].data \notin {DataOf(rdoc[w.target].avps, f), DataOf(UpMap(w.target), f)}
    /\ w.map[f] = rdoc[w.target].avps[f] /\ ~Inherits(w.target, f)

(* What call w has read or made is what the documents say.                 *)
ReadOK(w) ==
  /\ w.at \notin {"idle", "putFirst"} =>
       /\ w.target \in rec.revisions
       /\ w.op # "stamp" => ~rdoc[w.target].del
  /\ w.at = "putChild" => w.avps = rdoc[w.target].avps
  /\ w.at \in {"readRecord", "put", "reread"} /\ w.op \in {"fork", "delete"} =>
       /\ w.new \notin rec.revisions /\ rdoc[w.new].parent = w.target
       /\ rdoc[w.new].del = (w.op = "delete")
       /\ rdoc[w.new].avps = rdoc[w.target].avps
  /\ w.at = "hydrate" => /\ w.cur.avps = rdoc[w.target].avps
                         /\ w.cur.parent = rdoc[w.target].parent
  /\ w.at = "create" => MakeOK(w)
  /\ w.at \in {"create", "overwrite"} => PlanOK(w.target, w.map) /\ OverOK(w)

WriteOK(c) ==
  call[c].at \in {"put", "reread"} =>
    IF call[c].kind = "record" THEN call[c].body = RecordBody(c)
    ELSE IF call[c].op = "stamp" THEN call[c].body = rdoc[call[c].target].avps
    ELSE PlanOK(call[c].target, call[c].body)

(* When calls do not overlap, what the engine's call has read is still so  *)
(* when it writes, whatever earlier calls left when they stopped.          *)
SequentialInv ==
  ~overlap => /\ OneAtATime /\ OneRoot /\ UnusedIsBlank /\ LinksOK
              /\ \A c \in Client : ReadOK(call[c]) /\ WriteOK(c)

-----------------------------------------------------------------------------
(* The promise of RevisionStore, as one client keeps it.  A revision comes *)
(* into being when the record lists it, an AVP when a stored map names it. *)
(* A save is up to two abstract saves: the overwritten fields take effect  *)
(* at the bulk put, the others when the map is rewritten.                  *)
ListedParent  == [r \in Rev |-> IF r \in rec.revisions THEN rdoc[r].parent ELSE None]
ListedDeleted == {r \in rec.revisions : rdoc[r].del}
ListedAvps    == [r \in Rev |-> IF r \in rec.revisions THEN rdoc[r].avps ELSE NoMap]
LinkedOwner   == [a \in Avp |-> IF a \in linked THEN adoc[a].owner ELSE None]
LinkedData    == [a \in Avp |-> IF a \in linked THEN adoc[a].data ELSE None]

(* The form the record was created in stays open on its first revision.    *)
FirstOf(S, docs) == CHOOSE r \in S : \A q \in S : docs[r].parent # q
CreatorPhase == IF rec.rev = 0 THEN "idle" ELSE "editing"
CreatorWork  == IF rec.rev = 0 THEN None ELSE FirstOf(rec.revisions, rdoc)

RS == INSTANCE RevisionStore WITH
  Session <- {"creator"}, exclusive <- FALSE,
  revisions <- rec.revisions, heads <- rec.heads, parent <- ListedParent,
  deleted <- ListedDeleted, avps <- ListedAvps, owner <- LinkedOwner, val <- LinkedData,
  phase <- [s \in {"creator"} |-> CreatorPhase],
  work <- [s \in {"creator"} |-> CreatorWork]

(* When calls do not overlap, each of them, wherever it stops, keeps every *)
(* promise of RevisionStore.                                               *)
Sequential == RS!Init /\ [][overlap \/ RS!Next]_(RS!vars)
=============================================================================
