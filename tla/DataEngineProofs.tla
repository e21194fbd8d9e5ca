--------------------------- MODULE DataEngineProofs ---------------------------
(***************************************************************************)
(* Theorems about DataEngine, for any numbers of clients, revisions, AVPs, *)
(* fields, retries and calls.                                              *)
(***************************************************************************)
EXTENDS DataEngine, TLAPS

LEMMA Constants ==
  /\ MaxRetries \in Nat /\ MaxCalls \in Nat
  /\ None \notin Rev /\ None \notin Avp /\ None \notin Value
BY MaxRetriesIsPositive, MaxCallsIsNatural, NoneIsOther

(* The step a call is at tells what it holds.                              *)
LEMMA Shapes ==
  ASSUME NEW w, w = Idle \/ IsCall(w)
  PROVE  /\ w.at = "idle" => w = Idle
         /\ w.at = "putFirst" => w \in CreateCall
         /\ w.at = "putChild" => w \in ForkCall
         /\ w.at = "readRecord" => w \in AddCall \cup StampCall
         /\ w.at = "readRevision" => w \in RestampCall
         /\ w.at \in {"put", "reread"} => w \in PutRecordCall \cup PutRevisionCall
         /\ w.at = "hydrate" => w \in UpdateCall
         /\ w.at \in {"create", "overwrite"} =>
              \E S, T \in SUBSET Field : w \in SaveCall(S, T)
         /\ w # Idle => w.at # "idle" /\ w.target \in Rev
<1>1. w \in CreateCall => w.at = "putFirst" /\ w.target \in Rev
  BY DEF CreateCall
<1>2. w \in ForkCall => w.at = "putChild" /\ w.target \in Rev
  BY DEF ForkCall
<1>3. w \in AddCall \cup StampCall => w.at = "readRecord" /\ w.target \in Rev
  BY DEF AddCall, StampCall
<1>4. w \in RestampCall => w.at = "readRevision" /\ w.target \in Rev
  BY DEF RestampCall
<1>5. w \in PutRecordCall => w.at \in {"put", "reread"} /\ w.target \in Rev
  BY DEF PutRecordCall, RecordPut
<1>6. w \in PutRevisionCall => w.at \in {"put", "reread"} /\ w.target \in Rev
  BY DEF PutRevisionCall
<1>7. w \in UpdateCall => w.at = "hydrate" /\ w.target \in Rev
  BY DEF UpdateCall
<1>8. ASSUME NEW S \in SUBSET Field, NEW T \in SUBSET Field, w \in SaveCall(S, T)
       PROVE  w.at \in {"create", "overwrite"} /\ w.target \in Rev
  BY <1>8 DEF SaveCall
<1>9. Idle.at = "idle"
  BY DEF Idle
<1>. QED
  BY <1>1, <1>2, <1>3, <1>4, <1>5, <1>6, <1>7, <1>8, <1>9 DEF IsCall

LEMMA InitInv == Init => Inv
<1> SUFFICES ASSUME Init PROVE Inv
  OBVIOUS
<1>. USE Constants DEF Init
<1>0. \A c \in Client : call[c] = Idle /\ call[c].at = "idle"
  BY DEF Idle
<1>1. TypeOK
  <2>1. NoMap \in MapOrNone
    BY DEF NoMap, MapOrNone
  <2>2. rdoc \in [Rev -> [rev : Nat, parent : Rev \cup {None}, del : BOOLEAN,
                       avps : MapOrNone]]
    BY <2>1
  <2>3. adoc \in [Avp -> [rev : Nat, owner : Rev \cup {None}, data : Value \cup {None}]]
    OBVIOUS
  <2>4. rec \in [rev : Nat, heads : SUBSET Rev, revisions : SUBSET Rev]
    OBVIOUS
  <2>. QED
    BY <1>0, <2>2, <2>3, <2>4 DEF TypeOK
<1>2. ListedHeadsAreLeaves /\ BeginningOK
  BY <1>0 DEF ListedHeadsAreLeaves, BeginningOK
<1>3. NamedIsStored
  BY <1>0 DEF NamedIsStored, TargetsOK, Stored, IsRecordPut, IsAdd
<1>4. NewIsSecret /\ BodiesOK
  BY <1>0 DEF NewIsSecret, BodiesOK, BodyOK, IsRecordPut, IsAdd
<1>5. MapsOK
  BY <1>0 DEF MapsOK, MapOK, MapStored, NoMap
<1>. QED
  BY <1>1, <1>2, <1>3, <1>4, <1>5 DEF Inv

-----------------------------------------------------------------------------
(* A step of one client leaves the others where they are.                  *)
LEMMA Moves ==
  ASSUME DOMAIN call = Client, NEW c \in Client, NEW w, call' = [call EXCEPT ![c] = w]
  PROVE  /\ DOMAIN call' = Client /\ call'[c] = w
         /\ \A o \in Client \ {c} : call'[o] = call[o]
OBVIOUS

(* What has to be shown of a client's step for TypeOK.                     *)
LEMMA TypeMove ==
  ASSUME TypeOK, NEW c \in Client, NEW w, w = Idle \/ IsCall(w),
         call' = [call EXCEPT ![c] = w], overlap' = overlap,
         rec' \in [rev : Nat, heads : SUBSET Rev, revisions : SUBSET Rev],
         rdoc' \in [Rev -> [rev : Nat, parent : Rev \cup {None}, del : BOOLEAN,
                            avps : MapOrNone]],
         adoc' \in [Avp -> [rev : Nat, owner : Rev \cup {None}, data : Value \cup {None}]],
         \A a \in Avp : adoc'[a].rev > 0 => adoc'[a].owner # None /\ adoc'[a].data # None,
         calls' \in 0..MaxCalls, returned' \subseteq Rev, linked' \subseteq Avp
  PROVE  TypeOK'
<1>1. \A d \in Client : call'[d] = Idle \/ IsCall(call'[d])
  BY Moves DEF TypeOK
<1>2. \A d \in Client : (call[d] = Idle \/ IsCall(call[d]))' 
  BY <1>1 DEF IsCall, CreateCall, ForkCall, AddCall, StampCall, RestampCall, PutRecordCall, RecordPut,
     PutRevisionCall, UpdateCall, SaveCall, Idle
<1>. QED
  BY <1>2, Moves DEF TypeOK

(* The documents and the counts are as they were, or as TypeOK has them.   *)
LEMMA TypeUnchanged ==
  ASSUME TypeOK, NEW c \in Client, NEW w, w = Idle \/ IsCall(w),
         call' = [call EXCEPT ![c] = w], overlap' = overlap,
         UNCHANGED dbVars, calls' \in 0..MaxCalls, UNCHANGED <<returned, linked>>
  PROVE  TypeOK'
<1>1.         /\ rec' \in [rev : Nat, heads : SUBSET Rev, revisions : SUBSET Rev]
              /\ rdoc' \in [Rev -> [rev : Nat, parent : Rev \cup {None}, del : BOOLEAN,
                                    avps : MapOrNone]]
              /\ adoc' \in [Avp -> [rev : Nat, owner : Rev \cup {None},
                                    data : Value \cup {None}]]
              /\ \A a \in Avp : adoc'[a].rev > 0 => adoc'[a].owner # None /\ adoc'[a].data # None
              /\ returned' \subseteq Rev /\ linked' \subseteq Avp
  BY DEF TypeOK, dbVars
<1>. QED
  BY <1>1, TypeMove

(* A step that only reads goes on to a call of the right shape.            *)
LEMMA ReadersType ==
  ASSUME TypeOK, NEW c \in Client,
         \/ \E op \in {"fork", "delete"}, base \in Rev : Fork(c, op, base)
         \/ ReadRecord(c) \/ PutClash(c) \/ RereadRev(c)
         \/ \E r \in Rev, d \in FormData, bump \in Bumps : Update(c, r, d, bump)
         \/ \E r \in Rev : Stamp(c, r)
         \/ ReadRevision(c) \/ Crash(c)
  PROVE  TypeOK'
<1>. USE Constants
<1>0. calls \in 0..MaxCalls /\ (calls < MaxCalls => calls + 1 \in 0..MaxCalls)
  BY DEF TypeOK
<1>d. /\ \A r \in Rev : /\ rdoc[r].rev \in Nat /\ rdoc[r].avps \in MapOrNone
                        /\ rdoc[r] \in [rev : Nat, parent : Rev \cup {None}, del : BOOLEAN,
                                        avps : MapOrNone]
      /\ rec.rev \in Nat /\ rec.heads \subseteq Rev /\ rec.revisions \subseteq Rev
  BY DEF TypeOK
<1>c. call[c] = Idle \/ IsCall(call[c])
  BY DEF TypeOK
<1>1. ASSUME NEW op \in {"fork", "delete"}, NEW base \in Rev, Fork(c, op, base)
      PROVE  TypeOK'
  <2> DEFINE w == [op |-> op, at |-> "putChild", target |-> base, avps |-> rdoc[base].avps]
  <2>1. IsCall(w)
    BY <1>d DEF IsCall, ForkCall
  <2>. HIDE DEF w
  <2>. QED
    BY <1>0, <1>1, <2>1, TypeUnchanged DEF Fork, Start, w
<1>2. CASE ReadRecord(c)
  <2>1. call[c] \in AddCall \cup StampCall
    BY <1>2, <1>c, Shapes DEF ReadRecord
  <2>2. RecordBody(c) \in [heads : SUBSET Rev, revisions : SUBSET Rev]
    BY <1>d, <2>1 DEF RecordBody, HeadsAfter, AddCall, StampCall
  <2> DEFINE w == [op |-> call[c].op, at |-> "put", kind |-> "record",
              target |-> call[c].target,
              new |-> IF call[c].op \in {"fork", "delete"} THEN call[c].new ELSE None,
              rev |-> rec.rev, body |-> RecordBody(c), clashes |-> 0,
              then |-> "done"]
  <2>3. w \in PutRecordCall
    BY <1>d, <2>1, <2>2 DEF PutRecordCall, RecordPut, AddCall, StampCall
  <2>4. IsCall(w)
    BY <2>3 DEF IsCall
  <2>5. call' = [call EXCEPT ![c] = w]
    BY <1>2 DEF ReadRecord, Goto
  <2>. HIDE DEF w
  <2>. QED
    BY <1>0, <1>2, <2>4, <2>5, TypeUnchanged DEF ReadRecord, Goto
<1>3. CASE PutClash(c)
  <2>1. call[c] \in PutRecordCall \cup PutRevisionCall
    BY <1>3, <1>c, Shapes DEF PutClash
  <2>2. CASE call[c].clashes < MaxRetries
    <3> DEFINE w == [call[c] EXCEPT !.at = "reread", !.clashes = @ + 1]
    <3>1. ASSUME call[c] \in PutRecordCall PROVE w \in PutRecordCall
      <4>1. call[c].clashes + 1 \in Nat
        BY <3>1 DEF PutRecordCall, RecordPut
      <4>. QED
        BY <3>1, <4>1 DEF PutRecordCall, RecordPut
    <3>2. ASSUME call[c] \in PutRevisionCall PROVE w \in PutRevisionCall
      <4>1. call[c].clashes + 1 \in Nat
        BY <3>2 DEF PutRevisionCall
      <4>. QED
        BY <3>2, <4>1 DEF PutRevisionCall
    <3>3. IsCall(w)
      BY <2>1, <3>1, <3>2 DEF IsCall
    <3>. HIDE DEF w
    <3>. QED
      BY <1>0, <1>3, <2>2, <3>3, TypeUnchanged DEF PutClash, Goto, w
  <2>3. CASE ~(call[c].clashes < MaxRetries)
    BY <1>0, <1>3, <2>3, TypeUnchanged DEF PutClash, Finish, Goto
  <2>. QED
    BY <2>2, <2>3
<1>4. CASE RereadRev(c)
  <2>1. call[c] \in PutRecordCall \cup PutRevisionCall
    BY <1>4, <1>c, Shapes DEF RereadRev
  <2>2. StoredRev(c) \in Nat
    BY <1>d, <2>1 DEF StoredRev, PutRecordCall, RecordPut, PutRevisionCall
  <2> DEFINE w == [call[c] EXCEPT !.at = "put", !.rev = StoredRev(c)]
  <2>3. IsCall(w)
    BY <2>1, <2>2 DEF IsCall, PutRecordCall, RecordPut, PutRevisionCall
  <2>. HIDE DEF w
  <2>. QED
    BY <1>0, <1>4, <2>3, TypeUnchanged DEF RereadRev, Goto, w
<1>5. ASSUME NEW r \in Rev, NEW d \in FormData, NEW bump \in Bumps, Update(c, r, d, bump)
      PROVE  TypeOK'
  <2> DEFINE w == [op |-> "update", at |-> "hydrate", target |-> r, data |-> d,
                   bump |-> bump, cur |-> rdoc[r]]
  <2>1. IsCall(w)
    BY <1>d DEF IsCall, UpdateCall
  <2>. HIDE DEF w
  <2>. QED
    BY <1>0, <1>5, <2>1, TypeUnchanged DEF Update, Start, w
<1>6. ASSUME NEW r \in Rev, Stamp(c, r)
      PROVE  TypeOK'
  <2> DEFINE w == [op |-> "stamp", at |-> "readRevision", target |-> r,
                   then |-> "stampRecord"]
  <2>1. IsCall(w)
    BY DEF IsCall, RestampCall
  <2>. HIDE DEF w
  <2>. QED
    BY <1>0, <1>6, <2>1, TypeUnchanged DEF Stamp, Start, w
<1>7. CASE ReadRevision(c)
  <2>1. call[c] \in RestampCall
    BY <1>7, <1>c, Shapes DEF ReadRevision
  <2> DEFINE w == [op |-> "stamp", at |-> "put", kind |-> "revision",
              target |-> call[c].target, rev |-> rdoc[call[c].target].rev,
              body |-> rdoc[call[c].target].avps, clashes |-> 0,
              then |-> call[c].then]
  <2>2. IsCall(w)
    BY <1>d, <2>1 DEF IsCall, RestampCall, PutRevisionCall
  <2>. HIDE DEF w
  <2>. QED
    BY <1>0, <1>7, <2>2, TypeUnchanged DEF ReadRevision, Goto, w
<1>8. CASE Crash(c)
  BY <1>0, <1>8, TypeUnchanged DEF Crash, Finish, Goto
<1>. QED
  BY <1>1, <1>2, <1>3, <1>4, <1>5, <1>6, <1>7, <1>8

(* Hydrate finds for each field it saves a value, and for each AVP it is   *)
(* to overwrite an id.                                                     *)
LEMMA HydrateType ==
  ASSUME TypeOK, NEW c \in Client, Hydrate(c)
  PROVE  TypeOK'
<1>. USE Constants
<1> DEFINE w == call[c]
           cur == w.cur.avps
           hyd == rdoc[w.target].avps
           up == IF w.cur.parent = None THEN NoMap ELSE rdoc[w.cur.parent].avps
           over == InPlace(w.target, cur, hyd, up, w.data)
           map == [f \in Field |->
                    IF f \in Kept(hyd, w.data) \cup over THEN cur[f]
                    ELSE IF f \in Reverted(hyd, up, w.data) THEN up[f] ELSE None]
           make == Created(w.target, cur, hyd, up, w.data)
           changed == \/ make # {} \/ Reverted(hyd, up, w.data) # {}
                      \/ \E f \in Field : cur[f] # None /\ w.data[f] = None
           next == [op |-> "update", at |-> "create", target |-> w.target,
               bump |-> w.bump, rev |-> w.cur.rev, map |-> map,
               make |-> [f \in make |-> w.data[f]],
               over |-> [f \in over |-> [rev |-> adoc[cur[f]].rev, data |-> w.data[f]]],
               changed |-> changed]
<1>1. w \in UpdateCall
  BY Shapes DEF TypeOK, Hydrate
<1>2. /\ w.target \in Rev /\ w.data \in FormData /\ w.bump \in Bumps
      /\ w.cur.rev \in Nat /\ w.cur.parent \in Rev \cup {None} /\ cur \in MapOrNone
  BY <1>1 DEF UpdateCall
<1>3. up \in MapOrNone
  BY <1>2 DEF TypeOK, NoMap, MapOrNone
<1>4. map \in MapOrNone
  BY <1>2, <1>3 DEF MapOrNone
<1>5. over \subseteq Field /\ make \subseteq Field
  BY DEF InPlace, Created
<1>6. \A f \in over \cup make : w.data[f] \in Value
  BY <1>2 DEF InPlace, Created, FormData
<1>7. ASSUME \A f \in over : cur[f] # None
      PROVE  [f \in over |-> [rev |-> adoc[cur[f]].rev, data |-> w.data[f]]]
               \in [over -> [rev : Nat, data : Value]]
  <2>1. \A f \in over : cur[f] \in Avp /\ adoc[cur[f]].rev \in Nat
    BY <1>2, <1>5, <1>7 DEF TypeOK, MapOrNone
  <2>. QED
    BY <1>6, <2>1
<1>8. [f \in make |-> w.data[f]] \in [make -> Value]
  BY <1>6
<1>9. changed \in BOOLEAN
  OBVIOUS
<1>10. ASSUME \A f \in over : cur[f] # None PROVE IsCall(next)
  <2>1. next \in SaveCall(make, over)
    BY <1>2, <1>4, <1>7, <1>8, <1>9, <1>10 DEF SaveCall
  <2>. QED
    BY <1>5, <2>1 DEF IsCall
<1>11. /\ UNCHANGED <<dbVars, returned, linked, calls, overlap>>
       /\ IF \E f \in over : cur[f] = None THEN call' = [call EXCEPT ![c] = Idle]
          ELSE call' = [call EXCEPT ![c] = next]
  BY DEF Hydrate, Finish, Goto
<1>. HIDE DEF next, over, cur
<1>12. calls' \in 0..MaxCalls
  BY <1>11 DEF TypeOK
<1>. QED
  BY <1>10, <1>11, <1>12, TypeUnchanged

LEMMA CreateRecordType ==
  ASSUME TypeOK, NEW c \in Client, NEW r \in Rev, CreateRecord(c, r)
  PROVE  TypeOK'
<1>. USE Constants
<1> DEFINE w == [op |-> "create", at |-> "putFirst", target |-> r]
<1>1. IsCall(w)
  BY DEF IsCall, CreateCall
<1>2. /\ calls' \in 0..MaxCalls /\ overlap' = overlap /\ call' = [call EXCEPT ![c] = w]
  BY DEF TypeOK, CreateRecord, Start
<1>3. /\ rec' \in [rev : Nat, heads : SUBSET Rev, revisions : SUBSET Rev]
      /\ UNCHANGED <<rdoc, adoc, returned, linked>>
  BY DEF CreateRecord
<1>. HIDE DEF w
<1>. QED
  BY <1>1, <1>2, <1>3, TypeMove DEF TypeOK

LEMMA PutFirstRevisionType ==
  ASSUME TypeOK, NEW c \in Client, PutFirstRevision(c)
  PROVE  TypeOK'
<1>1. call[c].target \in Rev
  BY Shapes DEF TypeOK, PutFirstRevision, CreateCall
<1>2. rdoc' \in [Rev -> [rev : Nat, parent : Rev \cup {None}, del : BOOLEAN,
                         avps : MapOrNone]]
  BY <1>1 DEF TypeOK, PutFirstRevision
<1>3. call' = [call EXCEPT ![c] = Idle]
      /\ UNCHANGED <<overlap, calls, rec, adoc, returned, linked>>
  BY DEF PutFirstRevision, Finish, Goto
<1>. QED
  BY <1>2, <1>3, TypeMove DEF TypeOK

LEMMA PutChildType ==
  ASSUME TypeOK, NEW c \in Client, NEW new \in Rev, PutChild(c, new)
  PROVE  TypeOK'
<1>1. call[c] \in ForkCall
  BY Shapes DEF TypeOK, PutChild
<1> DEFINE w == [op |-> call[c].op, at |-> "readRecord", target |-> call[c].target,
                 new |-> new]
<1>2. IsCall(w)
  BY <1>1 DEF ForkCall, AddCall, IsCall
<1>3. rdoc' \in [Rev -> [rev : Nat, parent : Rev \cup {None}, del : BOOLEAN,
                         avps : MapOrNone]]
  BY <1>1 DEF TypeOK, PutChild, ForkCall
<1>4. call' = [call EXCEPT ![c] = w]
      /\ UNCHANGED <<overlap, calls, rec, adoc, returned, linked>>
  BY DEF PutChild, Goto
<1>. HIDE DEF w
<1>. QED
  BY <1>2, <1>3, <1>4, TypeMove DEF TypeOK

(* What an accepted put stores.                                            *)
LEMMA PutOkStores ==
  ASSUME TypeOK, NEW c \in Client, PutOk(c)
  PROVE  \/ /\ call[c] \in PutRecordCall /\ IsRecordPut(call[c])
            /\ rec' = [rev |-> rec.rev + 1, heads |-> call[c].body.heads,
                       revisions |-> call[c].body.revisions]
            /\ UNCHANGED <<rdoc, adoc, linked>>
            /\ call' = [call EXCEPT ![c] = Idle]
            /\ returned' = IF call[c].op \in {"fork", "delete"}
                           THEN returned \cup {call[c].new} ELSE returned
         \/ /\ call[c] \in PutRevisionCall /\ ~IsRecordPut(call[c])
            /\ rdoc' = [rdoc EXCEPT ![call[c].target].rev = @ + 1,
                                    ![call[c].target].avps = call[c].body]
            /\ linked' = linked \cup (Range(call[c].body) \ {None})
            /\ \/ call' = [call EXCEPT ![c] = Idle]
               \/ call' = [call EXCEPT ![c] =
                    [op |-> "stamp", at |-> "readRecord", target |-> call[c].target]]
            /\ UNCHANGED <<rec, adoc, returned>>
<1>1. call[c] \in PutRecordCall \cup PutRevisionCall
  BY Shapes DEF TypeOK, PutOk
<1>2. CASE call[c] \in PutRecordCall
  <2>1. call[c].kind = "record" /\ call[c].then = "done" /\ IsRecordPut(call[c])
    BY <1>2 DEF PutRecordCall, RecordPut, IsRecordPut
  <2>. QED
    BY <1>2, <2>1 DEF PutOk, Store, Finish, Goto
<1>3. CASE call[c] \in PutRevisionCall
  <2>1. call[c].kind # "record" /\ call[c].op \notin {"fork", "delete"}
        /\ ~IsRecordPut(call[c])
    BY <1>3 DEF PutRevisionCall, IsRecordPut
  <2>. QED
    BY <1>3, <2>1 DEF PutOk, Store, Finish, Goto
<1>. QED
  BY <1>1, <1>2, <1>3

LEMMA PutOkType ==
  ASSUME TypeOK, NEW c \in Client, PutOk(c)
  PROVE  TypeOK'
<1>. USE Constants
<1>0. UNCHANGED <<calls, overlap>>
  BY DEF PutOk, Goto, Finish
<1>1. CASE call[c] \in PutRecordCall /\ IsRecordPut(call[c])
  <2>1. /\ rec' = [rev |-> rec.rev + 1, heads |-> call[c].body.heads,
                       revisions |-> call[c].body.revisions]
        /\ UNCHANGED <<rdoc, adoc, linked>>
        /\ call' = [call EXCEPT ![c] = Idle]
        /\ returned' = IF call[c].op \in {"fork", "delete"}
                           THEN returned \cup {call[c].new} ELSE returned
    BY <1>1, PutOkStores
  <2>2. rec' \in [rev : Nat, heads : SUBSET Rev, revisions : SUBSET Rev]
    BY <1>1, <2>1 DEF TypeOK, PutRecordCall, RecordPut
  <2>3. returned' \subseteq Rev
    <3>1. call[c].op \in {"fork", "delete"} => call[c].new \in Rev
      BY <1>1 DEF PutRecordCall, RecordPut
    <3>. QED
      BY <2>1, <3>1 DEF TypeOK
  <2>. QED
    BY <1>0, <2>1, <2>2, <2>3, TypeMove DEF TypeOK
<1>2. CASE call[c] \in PutRevisionCall /\ ~IsRecordPut(call[c])
  <2> DEFINE w == [op |-> "stamp", at |-> "readRecord", target |-> call[c].target]
  <2>1. IsCall(w)
    BY <1>2 DEF IsCall, StampCall, PutRevisionCall
  <2>2. rdoc' \in [Rev -> [rev : Nat, parent : Rev \cup {None}, del : BOOLEAN,
                           avps : MapOrNone]]
    <3>1. rdoc' = [rdoc EXCEPT ![call[c].target].rev = @ + 1,
                               ![call[c].target].avps = call[c].body]
      BY <1>2, PutOkStores
    <3>2. call[c].target \in Rev /\ call[c].body \in MapOrNone
      BY <1>2 DEF PutRevisionCall
    <3>. QED
      BY <3>1, <3>2 DEF TypeOK
  <2>3. linked' \subseteq Avp
    <3>1. call[c].body \in MapOrNone
      BY <1>2 DEF PutRevisionCall
    <3>2. Range(call[c].body) \ {None} \subseteq Avp
      BY <3>1 DEF Range, MapOrNone
    <3>3. linked' = linked \cup (Range(call[c].body) \ {None})
      BY <1>2, PutOkStores
    <3>. QED
      BY <3>2, <3>3 DEF TypeOK
  <2>4. UNCHANGED <<rec, adoc, returned>>
    BY <1>2, PutOkStores
  <2>5. call' = [call EXCEPT ![c] = Idle] \/ call' = [call EXCEPT ![c] = w]
    BY <1>2, PutOkStores
  <2>. HIDE DEF w
  <2>. QED
    BY <1>0, <2>1, <2>2, <2>3, <2>4, <2>5, TypeMove DEF TypeOK
<1>. QED
  BY <1>1, <1>2, PutOkStores

(* bulkPutAvps of new AVPs: what it was given is stored under new ids,     *)
(* which the map of the call then names.                                   *)
LEMMA PutNewAvpsStores ==
  ASSUME TypeOK, NEW c \in Client, PutNewAvps(c), NEW S, NEW T, call[c] \in SaveCall(S, T)
  PROVE  /\ adoc' \in [Avp -> [rev : Nat, owner : Rev \cup {None}, data : Value \cup {None}]]
         /\ \A a \in Avp :
              \/ adoc'[a] = adoc[a]
              \/ adoc[a].rev = 0 /\ adoc'[a].owner \in Rev /\ adoc'[a].data \in Value
         /\ \E map \in MapOrNone :
              /\ \A f \in Field : \/ map[f] = call[c].map[f]
                                  \/ map[f] \in Avp /\ adoc'[map[f]].rev = 1
              /\ call' = [call EXCEPT ![c] = [call[c] EXCEPT !.at = "overwrite", !.map = map]]
<1>1. call[c].target \in Rev /\ call[c].make \in [S -> Value]
  BY DEF SaveCall
<1>2. PICK ids \in Injection(DOMAIN call[c].make, {a \in Avp : adoc[a].rev = 0}) :
        /\ adoc' = StoreNewAvps(call[c], ids)
        /\ Goto(c, [call[c] EXCEPT !.at = "overwrite", !.map = [f \in Field |->
                     IF f \in DOMAIN ids THEN ids[f] ELSE call[c].map[f]]])
  BY DEF PutNewAvps
<1>3. ids \in [S -> {a \in Avp : adoc[a].rev = 0}]
  BY <1>1 DEF Injection
<1> DEFINE map == [f \in Field |-> IF f \in DOMAIN ids THEN ids[f] ELSE call[c].map[f]]
<1>4. call' = [call EXCEPT ![c] = [call[c] EXCEPT !.at = "overwrite", !.map = map]]
  BY <1>2 DEF Goto
<1>5. ASSUME NEW a \in Avp, \E f \in S : ids[f] = a
      PROVE  /\ adoc[a].rev = 0 /\ adoc'[a].rev = 1
             /\ adoc'[a].owner \in Rev /\ adoc'[a].data \in Value
             /\ adoc'[a] \in [rev : Nat, owner : Rev \cup {None}, data : Value \cup {None}]
  <2> DEFINE d == call[c].make[CHOOSE f \in DOMAIN ids : ids[f] = a]
  <2>1. d \in Value
    BY <1>1, <1>3, <1>5
  <2>2. adoc'[a] = [rev |-> 1, owner |-> call[c].target, data |-> d]
    BY <1>2, <1>3, <1>5 DEF StoreNewAvps
  <2>3. adoc[a].rev = 0
    BY <1>3, <1>5
  <2>. HIDE DEF d
  <2>. QED
    BY <1>1, <2>1, <2>2, <2>3
<1>6. ASSUME NEW a \in Avp, ~ \E f \in S : ids[f] = a
      PROVE  adoc'[a] = adoc[a]
  BY <1>2, <1>3, <1>6 DEF StoreNewAvps
<1>7. adoc' \in [Avp -> [rev : Nat, owner : Rev \cup {None}, data : Value \cup {None}]]
  <2>1. \A a \in Avp :
          adoc'[a] \in [rev : Nat, owner : Rev \cup {None}, data : Value \cup {None}]
    <3>1. \A a \in Avp : adoc[a] \in [rev : Nat, owner : Rev \cup {None}, data : Value \cup {None}]
      BY DEF TypeOK
    <3>. QED
      BY <1>5, <1>6, <3>1
  <2>2. adoc' = [a \in Avp |-> adoc'[a]]
    BY <1>2 DEF StoreNewAvps
  <2>. QED
    BY <2>1, <2>2
<1>8. \A a \in Avp : \/ adoc'[a] = adoc[a]
                     \/ adoc[a].rev = 0 /\ adoc'[a].owner \in Rev /\ adoc'[a].data \in Value
  BY <1>5, <1>6
<1>9. \A f \in Field : \/ map[f] = call[c].map[f]
                       \/ map[f] \in Avp /\ adoc'[map[f]].rev = 1
  <2>1. \A f \in S : ids[f] \in Avp /\ adoc'[ids[f]].rev = 1
    BY <1>3, <1>5
  <2>2. \A f \in Field : map[f] = IF f \in S THEN ids[f] ELSE call[c].map[f]
    BY <1>3
  <2>3. ASSUME NEW f \in Field, f \in S PROVE map[f] \in Avp /\ adoc'[map[f]].rev = 1
    <3>1. map[f] = ids[f]
      BY <2>2, <2>3
    <3>. HIDE DEF map
    <3>. QED
      BY <2>1, <2>3, <3>1
  <2>4. ASSUME NEW f \in Field, f \notin S PROVE map[f] = call[c].map[f]
    BY <2>2, <2>4
  <2>. HIDE DEF map
  <2>. QED
    BY <2>3, <2>4
<1>10. map \in MapOrNone
  BY <1>3 DEF SaveCall, MapOrNone
<1>. HIDE DEF map
<1>. QED
  BY <1>4, <1>7, <1>8, <1>9, <1>10

LEMMA PutNewAvpsType ==
  ASSUME TypeOK, NEW c \in Client, PutNewAvps(c)
  PROVE  TypeOK'
<1>. USE Constants
<1>1. PICK S \in SUBSET Field, T \in SUBSET Field : call[c] \in SaveCall(S, T)
  BY Shapes DEF TypeOK, PutNewAvps
<1>2. PICK map \in MapOrNone :
        call' = [call EXCEPT ![c] = [call[c] EXCEPT !.at = "overwrite", !.map = map]]
  BY <1>1, PutNewAvpsStores
<1> DEFINE w == [call[c] EXCEPT !.at = "overwrite", !.map = map]
<1>3. \A a \in Avp : \/ adoc'[a] = adoc[a]
                     \/ adoc[a].rev = 0 /\ adoc'[a].owner \in Rev /\ adoc'[a].data \in Value
  BY <1>1, PutNewAvpsStores
<1>4. adoc' \in [Avp -> [rev : Nat, owner : Rev \cup {None}, data : Value \cup {None}]]
  BY <1>1, PutNewAvpsStores
<1>5. w \in SaveCall(S, T)
  BY <1>1 DEF SaveCall
<1>6. IsCall(w)
  BY <1>5 DEF IsCall
<1>7. call' = [call EXCEPT ![c] = w] /\ UNCHANGED <<overlap, calls, rec, rdoc, returned, linked>>
  BY <1>2 DEF PutNewAvps, Goto
<1>8. \A a \in Avp : adoc'[a].rev > 0 => adoc'[a].owner # None /\ adoc'[a].data # None
  BY <1>3 DEF TypeOK
<1>. HIDE DEF w
<1>. QED
  BY <1>4, <1>6, <1>7, <1>8, TypeMove DEF TypeOK

(* bulkPutAvps of overwritten AVPs: it changes data, never an owner, and   *)
(* no AVP that was not stored.                                             *)
LEMMA PutOverwritesStores ==
  ASSUME TypeOK, MapsOK, NEW c \in Client, PutOverwrites(c)
  PROVE  /\ adoc' \in [Avp -> [rev : Nat, owner : Rev \cup {None}, data : Value \cup {None}]]
         /\ \A a \in Avp :
              \/ adoc'[a] = adoc[a]
              \/ /\ adoc[a].rev > 0 /\ adoc'[a].rev > 0
                 /\ adoc'[a].owner = adoc[a].owner /\ adoc'[a].data \in Value
<1>1. PICK S \in SUBSET Field, T \in SUBSET Field : call[c] \in SaveCall(S, T)
  BY Shapes DEF TypeOK, PutOverwrites
<1>2. /\ call[c].map \in MapOrNone /\ call[c].over \in [T -> [rev : Nat, data : Value]]
      /\ MapStored(call[c].map)
  BY <1>1 DEF SaveCall, MapsOK, MapOK
<1> DEFINE hit(f, a) == call[c].map[f] = a /\ call[c].over[f].rev = adoc[a].rev
<1>3. adoc' = [a \in Avp |->
          IF \E f \in DOMAIN call[c].over : hit(f, a)
          THEN [adoc[a] EXCEPT !.rev = @ + 1,
                  !.data = call[c].over[CHOOSE f \in DOMAIN call[c].over : hit(f, a)].data]
          ELSE adoc[a]]
  BY DEF PutOverwrites
<1>4. ASSUME NEW a \in Avp, ~ \E f \in T : hit(f, a)
      PROVE  adoc'[a] = adoc[a]
  BY <1>2, <1>3, <1>4
<1>5. ASSUME NEW a \in Avp, \E f \in T : hit(f, a)
      PROVE  /\ adoc[a].rev > 0 /\ adoc'[a].rev = adoc[a].rev + 1
             /\ adoc'[a].owner = adoc[a].owner
             /\ adoc'[a].data \in Value
             /\ adoc'[a] \in [rev : Nat, owner : Rev \cup {None}, data : Value \cup {None}]
  <2> DEFINE g == CHOOSE f \in T : hit(f, a)
  <2>1. g \in T /\ hit(g, a)
    BY <1>5
  <2>2. call[c].over[g].data \in Value
    BY <1>2, <2>1
  <2>3. adoc[a].rev > 0
    BY <1>2, <2>1, Constants DEF MapStored
  <2>4. adoc'[a] = [adoc[a] EXCEPT !.rev = @ + 1, !.data = call[c].over[g].data]
    BY <1>2, <1>3, <1>5
  <2>5. adoc[a] \in [rev : Nat, owner : Rev \cup {None}, data : Value \cup {None}]
    BY DEF TypeOK
  <2> DEFINE d == call[c].over[g].data
  <2>6. d \in Value /\ adoc'[a] = [adoc[a] EXCEPT !.rev = @ + 1, !.data = d]
    BY <2>2, <2>4
  <2>. HIDE DEF d, g
  <2>7. adoc[a].rev \in Nat /\ adoc[a].owner \in Rev \cup {None}
    BY <2>5
  <2>8. adoc'[a] = [rev |-> adoc[a].rev + 1, owner |-> adoc[a].owner, data |-> d]
    BY <2>5, <2>6
  <2>9. adoc'[a] \in [rev : Nat, owner : Rev \cup {None}, data : Value \cup {None}]
    <3>1. adoc[a].rev + 1 \in Nat
      BY <2>7
    <3>. QED
      BY <2>6, <2>7, <2>8, <3>1
  <2>. QED
    BY <2>3, <2>6, <2>8, <2>9
<1>6. \A a \in Avp : adoc'[a] \in [rev : Nat, owner : Rev \cup {None}, data : Value \cup {None}]
  BY <1>4, <1>5 DEF TypeOK
<1>7. adoc' \in [Avp -> [rev : Nat, owner : Rev \cup {None}, data : Value \cup {None}]]
  BY <1>3, <1>6
<1>8. \A a \in Avp : adoc[a].rev \in Nat
  BY DEF TypeOK
<1>. HIDE DEF hit
<1>9. ASSUME NEW a \in Avp
      PROVE  \/ adoc'[a] = adoc[a]
             \/ /\ adoc[a].rev > 0 /\ adoc'[a].rev > 0
                /\ adoc'[a].owner = adoc[a].owner /\ adoc'[a].data \in Value
  <2>1. CASE \E f \in T : hit(f, a)
    BY <1>5, <1>8, <2>1
  <2>2. CASE ~ \E f \in T : hit(f, a)
    BY <1>4, <2>2
  <2>. QED
    BY <2>1, <2>2
<1>. QED
  BY <1>7, <1>9, Zenon

LEMMA PutOverwritesType ==
  ASSUME TypeOK, MapsOK, NEW c \in Client, PutOverwrites(c)
  PROVE  TypeOK'
<1>. USE Constants
<1>1. PICK S \in SUBSET Field, T \in SUBSET Field : call[c] \in SaveCall(S, T)
  BY Shapes DEF TypeOK, PutOverwrites
<1>2. IsCall(AfterAvps(call[c]))
  BY <1>1 DEF IsCall, AfterAvps, SaveCall, PutRevisionCall, RestampCall, StampCall
<1>3. call' = [call EXCEPT ![c] = AfterAvps(call[c])]
      /\ UNCHANGED <<overlap, calls, rec, rdoc, returned, linked>>
  BY DEF PutOverwrites, Goto
<1>4. \A a \in Avp : adoc'[a].rev > 0 => adoc'[a].owner # None /\ adoc'[a].data # None
  BY PutOverwritesStores DEF TypeOK
<1>. QED
  BY <1>2, <1>3, <1>4, PutOverwritesStores, TypeMove DEF TypeOK

LEMMA TypeStep ==
  ASSUME TypeOK, MapsOK, [Next]_vars
  PROVE  TypeOK'
<1>1. CASE UNCHANGED vars
  BY <1>1 DEF TypeOK, vars, dbVars, IsCall, CreateCall, ForkCall, AddCall, StampCall,
       RestampCall, PutRecordCall, RecordPut, PutRevisionCall, UpdateCall, SaveCall, Idle
<1>2. CASE Next
  BY <1>2, ReadersType, HydrateType, CreateRecordType, PutFirstRevisionType, PutChildType,
     PutOkType, PutNewAvpsType, PutOverwritesType DEF Next
<1>. QED
  BY <1>1, <1>2

-----------------------------------------------------------------------------
(* No step removes an AVP.                                                 *)
LEMMA AvpsStay ==
  ASSUME TypeOK, MapsOK, [Next]_vars
  PROVE  \A a \in Avp : adoc[a].rev > 0 => adoc'[a].rev > 0
<1>1. ASSUME NEW c \in Client, PutNewAvps(c)
      PROVE  \A a \in Avp : adoc[a].rev > 0 => adoc'[a].rev > 0
  <2>1. PICK S \in SUBSET Field, T \in SUBSET Field : call[c] \in SaveCall(S, T)
    BY <1>1, Shapes DEF TypeOK, PutNewAvps
  <2>2. \A a \in Avp : adoc'[a] = adoc[a] \/ adoc[a].rev = 0
    BY <1>1, <2>1, PutNewAvpsStores
  <2>. QED
    BY <2>2
<1>2. ASSUME NEW c \in Client, PutOverwrites(c)
      PROVE  \A a \in Avp : adoc[a].rev > 0 => adoc'[a].rev > 0
  BY <1>2, PutOverwritesStores
<1>3. ASSUME NEW c \in Client, PutOk(c)
      PROVE  adoc' = adoc
  BY <1>3, PutOkStores
<1>4. (\E c \in Client : PutNewAvps(c) \/ PutOverwrites(c)) \/ adoc' = adoc
  <2>1. CASE UNCHANGED vars
    BY <2>1 DEF vars, dbVars
  <2>2. CASE Next
    BY <2>2, <1>3 DEF Next, CreateRecord, PutFirstRevision, Fork, PutChild, ReadRecord,
       PutClash, RereadRev, Update, Hydrate, Stamp, ReadRevision, Crash, dbVars
  <2>. QED
    BY <2>1, <2>2
<1>. QED
  BY <1>1, <1>2, <1>4

(* Three steps write a revision document.                                  *)
LEMMA RdocMove ==
  ASSUME [Next]_vars
  PROVE  \/ rdoc' = rdoc
         \/ \E c \in Client : PutOk(c) \/ PutFirstRevision(c)
         \/ \E c \in Client, new \in Rev : PutChild(c, new)
<1>1. CASE UNCHANGED vars
  BY <1>1 DEF vars, dbVars
<1>2. CASE Next
  BY <1>2 DEF Next, CreateRecord, Fork, ReadRecord, PutClash, RereadRev, Update, Hydrate,
     PutNewAvps, PutOverwrites, Stamp, ReadRevision, Crash, dbVars
<1>. QED
  BY <1>1, <1>2

(* No step removes a revision, or gives a stored one another parent.        *)
LEMMA RevsStay ==
  ASSUME TypeOK, [Next]_vars
  PROVE  \A r \in Rev : rdoc[r].rev > 0 =>
           rdoc'[r].rev > 0 /\ rdoc'[r].parent = rdoc[r].parent
<1>1. ASSUME NEW c \in Client, PutOk(c), rdoc' # rdoc
      PROVE  /\ rdoc' = [rdoc EXCEPT ![call[c].target].rev = @ + 1,
                                     ![call[c].target].avps = call[c].body]
             /\ call[c].target \in Rev
  BY <1>1, PutOkStores DEF PutRevisionCall
<1>2. ASSUME NEW c \in Client, PutFirstRevision(c)
      PROVE  rdoc' = [rdoc EXCEPT ![call[c].target].rev = 1] /\ call[c].target \in Rev
  BY <1>2, Shapes DEF TypeOK, PutFirstRevision, CreateCall
<1>3. ASSUME NEW c \in Client, NEW new \in Rev, PutChild(c, new)
      PROVE  \A r \in Rev : rdoc[r].rev > 0 => rdoc'[r] = rdoc[r]
  BY <1>3 DEF PutChild, TypeOK
<1>5. ASSUME NEW c \in Client, PutOk(c), NEW r \in Rev, rdoc[r].rev > 0
      PROVE  rdoc'[r].rev > 0 /\ rdoc'[r].parent = rdoc[r].parent
  <2>1. rdoc[r].rev \in Nat /\ r \in DOMAIN rdoc
        /\ rdoc[r] \in [rev : Nat, parent : Rev \cup {None}, del : BOOLEAN, avps : MapOrNone]
    BY DEF TypeOK
  <2>2. CASE rdoc' = rdoc
    BY <1>5, <2>2
  <2>3. CASE rdoc' # rdoc /\ r = call[c].target
    <3>1. rdoc'[r].rev = rdoc[r].rev + 1 /\ rdoc'[r].parent = rdoc[r].parent
      <4>1. rdoc' = [rdoc EXCEPT ![r].rev = @ + 1, ![r].avps = call[c].body]
        BY <1>1, <1>5, <2>3
      <4>. QED
        BY <2>1, <4>1
    <3>. QED
      BY <1>5, <2>1, <3>1
  <2>4. CASE rdoc' # rdoc /\ r # call[c].target
    BY <1>1, <1>5, <2>1, <2>4
  <2>. QED
    BY <2>2, <2>3, <2>4
<1>6. ASSUME NEW c \in Client, PutFirstRevision(c), NEW r \in Rev, rdoc[r].rev > 0
      PROVE  rdoc'[r].rev > 0 /\ rdoc'[r].parent = rdoc[r].parent
  <2>1. r \in DOMAIN rdoc
        /\ rdoc[r] \in [rev : Nat, parent : Rev \cup {None}, del : BOOLEAN, avps : MapOrNone]
    BY DEF TypeOK
  <2>2. CASE r = call[c].target
    <3>1. rdoc' = [rdoc EXCEPT ![r].rev = 1]
      BY <1>2, <1>6, <2>2
    <3>. QED
      BY <2>1, <3>1
  <2>3. CASE r # call[c].target
    BY <1>2, <1>6, <2>1, <2>3
  <2>. QED
    BY <2>2, <2>3
<1>. QED
  BY <1>3, <1>5, <1>6, RdocMove

(* The map that a step gives to a revision is one a call holds.            *)
LEMMA NewMaps ==
  ASSUME TypeOK, MapsOK, [Next]_vars, NEW r \in Rev
  PROVE  rdoc'[r].avps \in MapOrNone /\ MapStored(rdoc'[r].avps)
<1>0. rdoc[r].avps \in MapOrNone /\ MapStored(rdoc[r].avps)
      /\ rdoc[r] \in [rev : Nat, parent : Rev \cup {None}, del : BOOLEAN, avps : MapOrNone]
  BY DEF TypeOK, MapsOK
<1>1. CASE rdoc' = rdoc
  BY <1>0, <1>1
<1>2. ASSUME NEW c \in Client, PutOk(c), rdoc' # rdoc
      PROVE  rdoc'[r].avps \in MapOrNone /\ MapStored(rdoc'[r].avps)
  <2>1. /\ rdoc' = [rdoc EXCEPT ![call[c].target].rev = @ + 1,
                                ![call[c].target].avps = call[c].body]
        /\ call[c].target \in Rev /\ call[c] \in PutRevisionCall
    BY <1>2, PutOkStores DEF PutRevisionCall
  <2>2. MapStored(call[c].body) /\ call[c].body \in MapOrNone
    BY <2>1 DEF MapsOK, MapOK, PutRevisionCall
  <2>3. CASE r = call[c].target
    <3>1. rdoc' = [rdoc EXCEPT ![r].rev = @ + 1, ![r].avps = call[c].body]
      BY <2>1, <2>3
    <3>2. rdoc'[r].avps = call[c].body
      BY <1>0, <3>1 DEF TypeOK
    <3>. QED
      BY <2>2, <3>2
  <2>4. CASE r # call[c].target
    <3>1. rdoc'[r] = rdoc[r]
      BY <2>1, <2>4 DEF TypeOK
    <3>. QED
      BY <1>0, <3>1
  <2>. QED
    BY <2>3, <2>4
<1>3. ASSUME NEW c \in Client, PutFirstRevision(c)
      PROVE  rdoc'[r].avps \in MapOrNone /\ MapStored(rdoc'[r].avps)
  <2>1. rdoc'[r].avps = rdoc[r].avps
    <3>1. rdoc' = [rdoc EXCEPT ![call[c].target].rev = 1]
      BY <1>3 DEF PutFirstRevision
    <3>2. CASE r = call[c].target
      BY <1>0, <3>1, <3>2 DEF TypeOK
    <3>3. CASE r # call[c].target
      BY <1>0, <3>1, <3>3 DEF TypeOK
    <3>. QED
      BY <3>2, <3>3
  <2>. QED
    BY <1>0, <2>1
<1>4. ASSUME NEW c \in Client, NEW new \in Rev, PutChild(c, new)
      PROVE  rdoc'[r].avps \in MapOrNone /\ MapStored(rdoc'[r].avps)
  <2>1. call[c] \in ForkCall
    BY <1>4, Shapes DEF TypeOK, PutChild
  <2>2. MapStored(call[c].avps) /\ call[c].avps \in MapOrNone
    BY <2>1 DEF MapsOK, MapOK, ForkCall
  <2>3. rdoc'[r].avps = IF r = new THEN call[c].avps ELSE rdoc[r].avps
    BY <1>4 DEF PutChild, TypeOK
  <2>. QED
    BY <1>0, <2>2, <2>3
<1>. QED
  BY <1>1, <1>2, <1>3, <1>4, RdocMove

(* What has to be shown of a client's step for MapsOK: a map that was all  *)
(* stored still is.                                                        *)
LEMMA MapsMove ==
  ASSUME TypeOK, MapsOK, [Next]_vars, NEW c \in Client,
         \A o \in Client \ {c} : call'[o] = call[o], MapOK(call[c])'
  PROVE  MapsOK'
<1>1. ASSUME NEW map \in MapOrNone, MapStored(map)
      PROVE  MapStored(map)'
  BY <1>1, AvpsStay DEF MapStored, MapOrNone
<1>2. \A r \in Rev : MapStored(rdoc[r].avps)'
  BY <1>1, NewMaps
<1>3. ASSUME NEW o \in Client, o # c
      PROVE  MapOK(call[o])'
  <2>1. call'[o] = call[o]
    BY <1>3
  <2>2. MapOK(call[o])
    BY DEF MapsOK
  <2> DEFINE v == call[o]
  <2>3. v = Idle \/ IsCall(v)
    BY DEF TypeOK
  <2>4. v.at = "putChild" => v.avps \in MapOrNone
    BY <2>3, Shapes DEF ForkCall
  <2>5. v.at = "hydrate" => v.cur.avps \in MapOrNone
    BY <2>3, Shapes DEF UpdateCall
  <2>6. v.at \in {"create", "overwrite"} => v.map \in MapOrNone
    BY <2>3, Shapes DEF SaveCall
  <2>7. v.at \in {"put", "reread"} /\ v.kind = "revision" => v.body \in MapOrNone
    BY <2>3, Shapes DEF PutRevisionCall, PutRecordCall, RecordPut
  <2>. QED
    BY <1>1, <2>1, <2>2, <2>4, <2>5, <2>6, <2>7 DEF MapOK
<1>. QED
  BY <1>2, <1>3 DEF MapsOK

(* What a client's call becomes; the others keep theirs.                   *)
LEMMA ForkMove ==
  ASSUME TypeOK, NEW c \in Client, NEW op, NEW base, Fork(c, op, base)
  PROVE  /\ call'[c].op = op /\ call'[c].at = "putChild" /\ call'[c].target = base
         /\ call'[c].avps = rdoc[base].avps
         /\ \A o \in Client \ {c} : call'[o] = call[o]
BY DEF TypeOK, Fork, Start

LEMMA UpdateMove ==
  ASSUME TypeOK, NEW c \in Client, NEW r, NEW d, NEW bump, Update(c, r, d, bump)
  PROVE  /\ call'[c].op = "update" /\ call'[c].at = "hydrate" /\ call'[c].target = r
         /\ call'[c].data = d /\ call'[c].bump = bump /\ call'[c].cur = rdoc[r]
         /\ \A o \in Client \ {c} : call'[o] = call[o]
BY DEF TypeOK, Update, Start

LEMMA StampMove ==
  ASSUME TypeOK, NEW c \in Client, NEW r, Stamp(c, r)
  PROVE  /\ call'[c].op = "stamp" /\ call'[c].at = "readRevision"
         /\ call'[c].target = r /\ call'[c].then = "stampRecord"
         /\ \A o \in Client \ {c} : call'[o] = call[o]
BY DEF TypeOK, Stamp, Start

LEMMA ReadRevisionMove ==
  ASSUME TypeOK, NEW c \in Client, ReadRevision(c)
  PROVE  /\ call'[c].op = "stamp" /\ call'[c].at = "put" /\ call'[c].kind = "revision"
         /\ call'[c].target = call[c].target
         /\ call'[c].rev = rdoc[call[c].target].rev
         /\ call'[c].body = rdoc[call[c].target].avps /\ call'[c].clashes = 0
         /\ call'[c].then = call[c].then
         /\ \A o \in Client \ {c} : call'[o] = call[o]
BY DEF TypeOK, ReadRevision, Goto

LEMMA ReadRecordMove ==
  ASSUME TypeOK, NEW c \in Client, ReadRecord(c)
  PROVE  /\ call'[c].op = call[c].op /\ call'[c].at = "put"
         /\ call'[c].kind = "record" /\ call'[c].target = call[c].target
         /\ call'[c].new = (IF call[c].op \in {"fork", "delete"} THEN call[c].new ELSE None)
         /\ call'[c].rev = rec.rev /\ call'[c].body = RecordBody(c)
         /\ call'[c].clashes = 0 /\ call'[c].then = "done"
         /\ \A o \in Client \ {c} : call'[o] = call[o]
BY DEF TypeOK, ReadRecord, Goto

LEMMA CrashMove ==
  ASSUME TypeOK, NEW c \in Client, Crash(c)
  PROVE  /\ call'[c] = Idle
         /\ \A o \in Client \ {c} : call'[o] = call[o]
BY DEF TypeOK, Crash, Finish, Goto

(* A put that clashed is repeated with what it was to store, or given up.  *)
LEMMA RetriesMove ==
  ASSUME TypeOK, NEW c \in Client, PutClash(c) \/ RereadRev(c)
  PROVE  /\ \A o \in Client \ {c} : call'[o] = call[o]
         /\ call[c] \in PutRecordCall \cup PutRevisionCall
         /\ call[c].at \in {"put", "reread"}
         /\ \/ call'[c] = Idle
            \/ /\ call'[c].at \in {"put", "reread"} /\ call'[c].kind = call[c].kind
               /\ call'[c].op = call[c].op /\ call'[c].target = call[c].target
               /\ call'[c].body = call[c].body
               /\ call[c].kind = "record" => call'[c].new = call[c].new
<1>1. call[c] \in PutRecordCall \cup PutRevisionCall /\ call[c].at \in {"put", "reread"}
  BY Shapes DEF TypeOK, PutClash, RereadRev
<1>2. DOMAIN call = Client
  BY DEF TypeOK
<1>3. /\ \A o \in Client \ {c} : call'[o] = call[o]
      /\ \/ call'[c] = Idle
         \/ call'[c] = [call[c] EXCEPT !.at = "reread", !.clashes = @ + 1]
         \/ call'[c] = [call[c] EXCEPT !.at = "put", !.rev = StoredRev(c)]
  BY <1>2 DEF PutClash, RereadRev, Finish, Goto
<1> DEFINE v == call'[c]
<1>4. CASE call[c] \in PutRecordCall
  <2>1. v = Idle \/ /\ v.at \in {"put", "reread"} /\ v.kind = call[c].kind
                    /\ v.op = call[c].op /\ v.target = call[c].target
                    /\ v.body = call[c].body /\ v.new = call[c].new
    BY <1>3, <1>4 DEF PutRecordCall, RecordPut
  <2>. QED
    BY <1>1, <1>3, <2>1
<1>5. CASE call[c] \in PutRevisionCall
  <2>1. v = Idle \/ /\ v.at \in {"put", "reread"} /\ v.kind = call[c].kind
                    /\ v.op = call[c].op /\ v.target = call[c].target
                    /\ v.body = call[c].body
    BY <1>3, <1>5 DEF PutRevisionCall
  <2>2. call[c].kind = "revision"
    BY <1>5 DEF PutRevisionCall
  <2>. QED
    BY <1>1, <1>3, <2>1, <2>2
<1>. QED
  BY <1>1, <1>4, <1>5

LEMMA CreateRecordMove ==
  ASSUME TypeOK, NEW c \in Client, NEW r, CreateRecord(c, r)
  PROVE  /\ call'[c].op = "create" /\ call'[c].at = "putFirst" /\ call'[c].target = r
         /\ \A o \in Client \ {c} : call'[o] = call[o]
BY DEF TypeOK, CreateRecord, Start

LEMMA PutFirstRevisionMove ==
  ASSUME TypeOK, NEW c \in Client, PutFirstRevision(c)
  PROVE  /\ call'[c] = Idle
         /\ \A o \in Client \ {c} : call'[o] = call[o]
BY DEF TypeOK, PutFirstRevision, Finish, Goto

LEMMA PutChildMove ==
  ASSUME TypeOK, NEW c \in Client, NEW new, PutChild(c, new)
  PROVE  /\ call[c] \in ForkCall
         /\ call'[c].op = call[c].op /\ call'[c].at = "readRecord"
         /\ call'[c].target = call[c].target /\ call'[c].new = new
         /\ \A o \in Client \ {c} : call'[o] = call[o]
BY Shapes DEF TypeOK, PutChild, Goto

LEMMA PutOkMove ==
  ASSUME TypeOK, NEW c \in Client, PutOk(c)
  PROVE  /\ \/ call'[c] = Idle
            \/ /\ call[c] \in PutRevisionCall /\ call'[c].op = "stamp"
               /\ call'[c].at = "readRecord" /\ call'[c].target = call[c].target
         /\ \A o \in Client \ {c} : call'[o] = call[o]
<1> DEFINE stamp == [op |-> "stamp", at |-> "readRecord", target |-> call[c].target]
<1>1. DOMAIN call = Client
  BY DEF TypeOK
<1>2. \/ call' = [call EXCEPT ![c] = Idle]
      \/ call[c] \in PutRevisionCall /\ call' = [call EXCEPT ![c] = stamp]
  BY PutOkStores
<1>3. stamp.op = "stamp" /\ stamp.at = "readRecord" /\ stamp.target = call[c].target
  OBVIOUS
<1>. HIDE DEF stamp
<1>. QED
  BY <1>1, <1>2, <1>3

(* The calls of a save, from the hydration to the puts of its AVPs.        *)
LEMMA SavesMove ==
  ASSUME TypeOK, MapsOK, NEW c \in Client,
         Hydrate(c) \/ PutNewAvps(c) \/ PutOverwrites(c)
  PROVE  /\ \A o \in Client \ {c} : call'[o] = call[o]
         /\ call[c].at \in {"hydrate", "create", "overwrite"}
         /\ \/ call'[c] = Idle
            \/ /\ call'[c].target = call[c].target /\ ~IsAdd(call'[c])
               /\ call'[c].at \notin {"putFirst", "putChild", "hydrate"}
               /\ ~IsRecordPut(call'[c])
               /\ \/ call'[c].at \in {"create", "overwrite"} /\ MapStored(call[c].map)'
                  \/ call'[c].at = "put" /\ call'[c].kind = "revision" /\ MapStored(call[c].body)'
                  \/ call'[c].at \in {"readRevision", "readRecord"}
<1>. USE Constants
<1>0. DOMAIN call = Client
  BY DEF TypeOK
<1>1. CASE Hydrate(c)
  <2> DEFINE w == call[c]
             cur == w.cur.avps
             hyd == rdoc[w.target].avps
             up == IF w.cur.parent = None THEN NoMap ELSE rdoc[w.cur.parent].avps
             over == InPlace(w.target, cur, hyd, up, w.data)
             map == [f \in Field |->
                      IF f \in Kept(hyd, w.data) \cup over THEN cur[f]
                      ELSE IF f \in Reverted(hyd, up, w.data) THEN up[f] ELSE None]
  <2>1. w \in UpdateCall
    BY <1>1, Shapes DEF TypeOK, Hydrate
  <2>2. w.cur.parent \in Rev \cup {None}
    BY <2>1 DEF UpdateCall
  <2>3. MapStored(cur) /\ MapStored(up)
    BY <2>1, <2>2 DEF MapsOK, MapOK, UpdateCall, MapStored, NoMap
  <2>4. MapStored(map)
    BY <2>3 DEF MapStored
  <2>5. adoc' = adoc
    BY <1>1 DEF Hydrate, dbVars
  <2> DEFINE make == Created(w.target, cur, hyd, up, w.data)
             changed == \/ make # {} \/ Reverted(hyd, up, w.data) # {}
                        \/ \E f \in Field : cur[f] # None /\ w.data[f] = None
             news == [f \in make |-> w.data[f]]
             olds == [f \in over |-> [rev |-> adoc[cur[f]].rev, data |-> w.data[f]]]
             next == [op |-> "update", at |-> "create", target |-> w.target,
                      bump |-> w.bump, rev |-> w.cur.rev, map |-> map,
                      make |-> news, over |-> olds, changed |-> changed]
  <2>a. call' = [call EXCEPT ![c] = Idle] \/ call' = [call EXCEPT ![c] = next]
    BY <1>1 DEF Hydrate, Finish, Goto
  <2>b. next.target = w.target /\ next.at = "create" /\ next.map = map
    <3>. HIDE DEF map, news, olds, changed
    <3>. QED
      OBVIOUS
  <2>6. /\ \A o \in Client \ {c} : call'[o] = call[o]
        /\ \/ call'[c] = Idle
           \/ /\ call'[c].target = call[c].target /\ call'[c].at = "create"
              /\ call'[c].map = map
    <3>. HIDE DEF next, map
    <3>. QED
      BY <1>0, <2>a, <2>b
  <2>. HIDE DEF map
  <2>7. call'[c].map = map => MapStored(call[c].map)'
    BY <2>4, <2>5 DEF MapStored
  <2>8. call[c].at = "hydrate"
    BY <1>1 DEF Hydrate
  <2>. QED
    BY <2>6, <2>7, <2>8 DEF IsAdd, IsRecordPut
<1>2. CASE PutNewAvps(c)
  <2>1. PICK S \in SUBSET Field, T \in SUBSET Field : call[c] \in SaveCall(S, T)
    BY <1>2, Shapes DEF TypeOK, PutNewAvps
  <2>2. PICK map \in MapOrNone :
          /\ \A f \in Field : \/ map[f] = call[c].map[f]
                              \/ map[f] \in Avp /\ adoc'[map[f]].rev = 1
          /\ call' = [call EXCEPT ![c] = [call[c] EXCEPT !.at = "overwrite", !.map = map]]
    BY <1>2, <2>1, PutNewAvpsStores
  <2>3. MapStored(call[c].map) /\ call[c].map \in MapOrNone
    BY <2>1 DEF MapsOK, MapOK, SaveCall
  <2>4. \A a \in Avp : adoc[a].rev > 0 => adoc'[a].rev > 0
    <3>1. \A a \in Avp : adoc'[a] = adoc[a] \/ adoc[a].rev = 0
      BY <1>2, <2>1, PutNewAvpsStores
    <3>. QED
      BY <3>1
  <2>5. ASSUME NEW f \in Field, map[f] # None PROVE adoc'[map[f]].rev > 0
    <3>1. CASE map[f] = call[c].map[f]
      BY <2>3, <2>4, <2>5, <3>1 DEF MapStored, MapOrNone
    <3>2. CASE adoc'[map[f]].rev = 1
      BY <3>2
    <3>. QED
      BY <2>2, <3>1, <3>2
  <2>6. /\ \A o \in Client \ {c} : call'[o] = call[o]
        /\ call'[c] = [call[c] EXCEPT !.at = "overwrite", !.map = map]
    BY <1>0, <2>2
  <2>7. /\ call'[c].target = call[c].target /\ call'[c].at = "overwrite"
        /\ call'[c].map = map
    BY <2>1, <2>6 DEF SaveCall
  <2>8. MapStored(call[c].map)'
    BY <2>5, <2>7 DEF MapStored
  <2>9. call[c].at = "create"
    BY <1>2 DEF PutNewAvps
  <2>. QED
    BY <2>6, <2>7, <2>8, <2>9 DEF IsAdd, IsRecordPut
<1>3. CASE PutOverwrites(c)
  <2>1. PICK S \in SUBSET Field, T \in SUBSET Field : call[c] \in SaveCall(S, T)
    BY <1>3, Shapes DEF TypeOK, PutOverwrites
  <2>2. MapStored(call[c].map) /\ call[c].map \in MapOrNone
    BY <2>1 DEF MapsOK, MapOK, SaveCall
  <2>3. \A a \in Avp : adoc[a].rev > 0 => adoc'[a].rev > 0
    BY <1>3, PutOverwritesStores
  <2>4. \A f \in Field : call[c].map[f] # None => adoc'[call[c].map[f]].rev > 0
    BY <2>2, <2>3 DEF MapStored, MapOrNone
  <2>5. /\ \A o \in Client \ {c} : call'[o] = call[o]
        /\ call'[c] = AfterAvps(call[c])
    BY <1>0, <1>3 DEF PutOverwrites, Goto
  <2>6. /\ call'[c].target = call[c].target
        /\ \/ /\ call'[c].at = "put" /\ call'[c].kind = "revision"
              /\ call'[c].body = call[c].map
           \/ /\ call'[c].at \in {"readRevision", "readRecord"} /\ call'[c].op = "stamp"
    BY <2>5 DEF AfterAvps
  <2>7. call'[c].body = call[c].map => MapStored(call[c].body)'
    BY <2>4 DEF MapStored
  <2>8. call[c].at = "overwrite"
    BY <1>3 DEF PutOverwrites
  <2>. QED
    BY <2>5, <2>6, <2>7, <2>8 DEF IsAdd, IsRecordPut
<1>. QED
  BY <1>1, <1>2, <1>3

LEMMA MapsStep ==
  ASSUME TypeOK, MapsOK, [Next]_vars
  PROVE  MapsOK'
<1>0. \A r \in Rev : MapStored(rdoc[r].avps) /\ rdoc[r].avps \in MapOrNone
  BY DEF TypeOK, MapsOK
<1>1. CASE UNCHANGED vars
  BY <1>1 DEF MapsOK, MapOK, MapStored, vars, dbVars
<1>2. ASSUME NEW c \in Client, call'[c] = Idle, \A o \in Client \ {c} : call'[o] = call[o]
      PROVE  MapsOK'
  <2>1. MapOK(call[c])'
    BY <1>2 DEF MapOK, Idle
  <2>. QED
    BY <1>2, <2>1, MapsMove
<1>3. ASSUME NEW c \in Client, NEW op \in {"fork", "delete"}, NEW base \in Rev,
             Fork(c, op, base)
      PROVE  MapsOK'
  <2>1. adoc' = adoc
    BY <1>3 DEF Fork, dbVars
  <2>2. call'[c].at = "putChild" /\ call'[c].avps = rdoc[base].avps
        /\ \A o \in Client \ {c} : call'[o] = call[o]
    BY <1>3, ForkMove
  <2>3. MapOK(call[c])'
    BY <1>0, <2>1, <2>2 DEF MapOK, MapStored
  <2>. QED
    BY <2>2, <2>3, MapsMove
<1>4. ASSUME NEW c \in Client, NEW r \in Rev, NEW d \in FormData, NEW bump \in Bumps,
             Update(c, r, d, bump)
      PROVE  MapsOK'
  <2>1. adoc' = adoc
    BY <1>4 DEF Update, dbVars
  <2>2. call'[c].at = "hydrate" /\ call'[c].cur = rdoc[r]
        /\ \A o \in Client \ {c} : call'[o] = call[o]
    BY <1>4, UpdateMove
  <2>3. MapOK(call[c])'
    BY <1>0, <2>1, <2>2 DEF MapOK, MapStored
  <2>. QED
    BY <2>2, <2>3, MapsMove
<1>5. ASSUME NEW c \in Client, ReadRevision(c)
      PROVE  MapsOK'
  <2>1. adoc' = adoc
    BY <1>5 DEF ReadRevision, dbVars
  <2>2. call[c].target \in Rev
    BY <1>5, Shapes DEF TypeOK, ReadRevision, RestampCall
  <2>3. call'[c].at = "put" /\ call'[c].body = rdoc[call[c].target].avps
        /\ \A o \in Client \ {c} : call'[o] = call[o]
    BY <1>5, ReadRevisionMove
  <2>4. MapOK(call[c])'
    BY <1>0, <2>1, <2>2, <2>3 DEF MapOK, MapStored
  <2>. QED
    BY <2>3, <2>4, MapsMove
<1>6. ASSUME NEW c \in Client, PutClash(c) \/ RereadRev(c), call'[c] # Idle
      PROVE  MapsOK'
  <2>1. adoc' = adoc
    BY <1>6 DEF PutClash, RereadRev, dbVars
  <2>2. /\ call'[c].at \in {"put", "reread"} /\ call'[c].kind = call[c].kind
        /\ call'[c].body = call[c].body /\ call[c].at \in {"put", "reread"}
        /\ \A o \in Client \ {c} : call'[o] = call[o]
    BY <1>6, RetriesMove
  <2>3. MapOK(call[c])
    BY DEF MapsOK
  <2>4. MapOK(call[c])'
    BY <2>1, <2>2, <2>3 DEF MapOK, MapStored
  <2>. QED
    BY <2>2, <2>4, MapsMove
<1>7. ASSUME NEW c \in Client, Hydrate(c) \/ PutNewAvps(c) \/ PutOverwrites(c), call'[c] # Idle
      PROVE  MapsOK'
  <2>1. MapOK(call[c])'
    BY <1>7, SavesMove DEF MapOK
  <2>. QED
    BY <1>7, <2>1, SavesMove, MapsMove
<1>8. ASSUME NEW c \in Client,
             \A o \in Client \ {c} : call'[o] = call[o],
             \/ call'[c].at \in {"putFirst", "readRecord", "readRevision"}
             \/ call'[c].at = "put" /\ call'[c].kind = "record"
      PROVE  MapsOK'
  <2>1. MapOK(call[c])'
    BY <1>8 DEF MapOK
  <2>. QED
    BY <1>8, <2>1, MapsMove
<1>9. ASSUME NEW c \in Client, NEW r \in Rev, CreateRecord(c, r) \/ Stamp(c, r)
      PROVE  MapsOK'
  BY <1>8, <1>9, StampMove, CreateRecordMove
<1>10. ASSUME NEW c \in Client, NEW new \in Rev, PutChild(c, new)
       PROVE  MapsOK'
  BY <1>8, <1>10, PutChildMove
<1>11. ASSUME NEW c \in Client, ReadRecord(c) \/ PutFirstRevision(c) \/ PutOk(c) \/ Crash(c)
       PROVE  MapsOK'
  BY <1>2, <1>8, <1>11, ReadRecordMove, PutFirstRevisionMove, PutOkMove, CrashMove
<1>12. ASSUME NEW c \in Client, PutClash(c) \/ RereadRev(c)
       PROVE  MapsOK'
  BY <1>2, <1>6, <1>12, RetriesMove
<1>13. ASSUME NEW c \in Client, Hydrate(c) \/ PutNewAvps(c) \/ PutOverwrites(c)
       PROVE  MapsOK'
  BY <1>2, <1>7, <1>13, SavesMove
<1>. QED
  BY <1>1, <1>3, <1>4, <1>5, <1>9, <1>10, <1>11, <1>12, <1>13 DEF Next

-----------------------------------------------------------------------------
(* Only the step that stores a revision gives it a parent.                 *)
LEMMA NewParents ==
  ASSUME TypeOK, [Next]_vars, NEW r \in Rev
  PROVE  \/ rdoc'[r].parent = rdoc[r].parent
         \/ \E c \in Client : PutChild(c, r) /\ rdoc'[r].parent = call[c].target
<1>0. rdoc[r] \in [rev : Nat, parent : Rev \cup {None}, del : BOOLEAN, avps : MapOrNone]
  BY DEF TypeOK
<1>1. CASE rdoc' = rdoc
  BY <1>1
<1>2. ASSUME NEW c \in Client, PutOk(c), rdoc' # rdoc
      PROVE  rdoc'[r].parent = rdoc[r].parent
  <2>1. /\ rdoc' = [rdoc EXCEPT ![call[c].target].rev = @ + 1,
                                ![call[c].target].avps = call[c].body]
        /\ call[c].target \in Rev
    BY <1>2, PutOkStores DEF PutRevisionCall
  <2>2. CASE r = call[c].target
    <3>1. rdoc' = [rdoc EXCEPT ![r].rev = @ + 1, ![r].avps = call[c].body]
      BY <2>1, <2>2
    <3>. QED
      BY <1>0, <3>1 DEF TypeOK
  <2>3. CASE r # call[c].target
    BY <2>1, <2>3 DEF TypeOK
  <2>. QED
    BY <2>2, <2>3
<1>3. ASSUME NEW c \in Client, PutFirstRevision(c)
      PROVE  rdoc'[r].parent = rdoc[r].parent
  <2>1. rdoc' = [rdoc EXCEPT ![call[c].target].rev = 1]
    BY <1>3 DEF PutFirstRevision
  <2>2. CASE r = call[c].target
    BY <1>0, <2>1, <2>2 DEF TypeOK
  <2>3. CASE r # call[c].target
    BY <2>1, <2>3 DEF TypeOK
  <2>. QED
    BY <2>2, <2>3
<1>4. ASSUME NEW c \in Client, NEW new \in Rev, PutChild(c, new)
      PROVE  IF r = new THEN PutChild(c, r) /\ rdoc'[r].parent = call[c].target
             ELSE rdoc'[r].parent = rdoc[r].parent
  <2>1. CASE r = new
    <3>1. PutChild(c, r)
      BY <1>4, <2>1
    <3>2. rdoc'[r].parent = call[c].target
      BY <3>1 DEF PutChild, TypeOK
    <3>. QED
      BY <2>1, <3>1, <3>2
  <2>2. CASE r # new
    BY <1>4, <2>2 DEF PutChild, TypeOK
  <2>. QED
    BY <2>1, <2>2
<1>. QED
  BY <1>1, <1>2, <1>3, <1>4, RdocMove

(* Stored revisions keep their leaves.                                     *)
LEMMA LeavesStay ==
  ASSUME TypeOK, [Next]_vars, NEW S \in SUBSET Rev, Stored(S)
  PROVE  Stored(S)' /\ Leaves(S)' = Leaves(S)
BY RevsStay DEF Stored, Leaves

(* Once a call other than the first goes on, every listed revision is      *)
(* stored.                                                                 *)
LEMMA ListedIsStored ==
  ASSUME TypeOK, BeginningOK, NEW c \in Client, call[c].at \notin {"idle", "putFirst"}
  PROVE  Stored(rec.revisions) /\ rec.rev > 0
<1>1. call[c] # Idle /\ call[c] \notin CreateCall
  BY DEF Idle, CreateCall
<1>2. rec.rev \in Nat
  BY DEF TypeOK
<1>3. rec.rev # 0
  BY <1>1 DEF BeginningOK
<1>4. Stored(rec.revisions)
  <2>1. ASSUME NEW r \in rec.revisions, rdoc[r].rev = 0 PROVE FALSE
    BY <1>1, <2>1 DEF BeginningOK
  <2>2. \A r \in rec.revisions : rdoc[r].rev \in Nat
    BY DEF TypeOK
  <2>. QED
    BY <2>1, <2>2 DEF Stored
<1>. QED
  BY <1>2, <1>3, <1>4

(* A revision that a client can name shows that the record has begun.      *)
LEMMA KnownIsStored ==
  ASSUME TypeOK, BeginningOK, NEW r \in Known
  PROVE  r \in Rev /\ rdoc[r].rev > 0 /\ Stored(rec.revisions) /\ rec.rev > 0
<1>1. r \in Rev /\ rdoc[r].rev > 0 /\ rec.rev \in Nat
  BY DEF Known, TypeOK
<1>2. ~(rec.rev = 0 \/ ~Stored(rec.revisions))
  BY <1>1 DEF BeginningOK
<1>. QED
  BY <1>1, <1>2

(* The ids that forks and deletes return are those of puts of the record.  *)
LEMMA ReturnedMove ==
  ASSUME TypeOK, [Next]_vars
  PROVE  \/ returned' = returned
         \/ \E c \in Client :
              /\ PutOk(c) /\ IsRecordPut(call[c]) /\ call[c].op \in {"fork", "delete"}
              /\ returned' = returned \cup {call[c].new}
<1>1. CASE UNCHANGED vars
  BY <1>1 DEF vars
<1>2. ASSUME NEW c \in Client, PutOk(c)
      PROVE  \/ returned' = returned
             \/ /\ PutOk(c) /\ IsRecordPut(call[c]) /\ call[c].op \in {"fork", "delete"}
                /\ returned' = returned \cup {call[c].new}
  BY <1>2, PutOkStores
<1>3. CASE Next /\ ~\E c \in Client : PutOk(c)
  BY <1>3 DEF Next, CreateRecord, PutFirstRevision, Fork, PutChild, ReadRecord,
     PutClash, RereadRev, Update, Hydrate, PutNewAvps, PutOverwrites, Stamp,
     ReadRevision, Crash, dbVars
<1>. QED
  BY <1>1, <1>2, <1>3

(* What has to be shown of a client's step for the calls' documents: those *)
(* the other calls name stay.                                              *)
LEMMA TargetsMove ==
  ASSUME TypeOK, NamedIsStored, [Next]_vars, NEW c \in Client,
         \A o \in Client \ {c} : call'[o] = call[o], TargetsOK(call[c])'
  PROVE  \A o \in Client : TargetsOK(call[o])'
<1> SUFFICES ASSUME NEW o \in Client, o # c PROVE TargetsOK(call[o])'
  OBVIOUS
<1> DEFINE v == call[o]
<1>1. call'[o] = v /\ TargetsOK(v) /\ (v = Idle \/ IsCall(v))
  BY DEF NamedIsStored, TypeOK
<1>2. v.at \notin {"idle", "putFirst"} => v.target \in Rev
  <2>1. v = Idle => v.at = "idle"
    BY DEF Idle
  <2>. QED
    BY <1>1, <2>1, Shapes
<1>3. IsRecordPut(v) => v.body.revisions \subseteq Rev
  <2>1. v \in PutRecordCall => v.body.revisions \subseteq Rev
    BY DEF PutRecordCall, RecordPut
  <2>2. v \in PutRevisionCall => v.kind = "revision"
    BY DEF PutRevisionCall
  <2>. QED
    BY <1>1, <2>1, <2>2, Shapes DEF IsRecordPut
<1>4. IsAdd(v) => v.new \in Rev
  <2>1. IsAdd(v) => v \in AddCall
    BY <1>1, Shapes DEF IsAdd, StampCall
  <2>. QED
    BY <2>1 DEF AddCall
<1>5. v.at \notin {"idle", "putFirst"} => rdoc'[v.target].rev > 0
  BY <1>1, <1>2, RevsStay DEF TargetsOK
<1>6. IsRecordPut(v) => \A r \in v.body.revisions : rdoc'[r].rev > 0
  BY <1>1, <1>3, RevsStay DEF TargetsOK, Stored
<1>7. IsAdd(v) => rdoc'[v.new].rev > 0
  BY <1>1, <1>4, RevsStay DEF TargetsOK
<1>. QED
  BY <1>1, <1>5, <1>6, <1>7 DEF TargetsOK, Stored, IsRecordPut, IsAdd

LEMMA NamedStep ==
  ASSUME TypeOK, BeginningOK, NamedIsStored, BodiesOK, MapsOK, [Next]_vars
  PROVE  NamedIsStored'
<1>1. Stored(returned)'
  <2>1. CASE returned' = returned
    BY <2>1, RevsStay DEF NamedIsStored, Stored, TypeOK
  <2>2. ASSUME NEW c \in Client, PutOk(c), IsRecordPut(call[c]),
               call[c].op \in {"fork", "delete"}, returned' = returned \cup {call[c].new}
        PROVE  Stored(returned)'
    <3>1. call[c] \in PutRecordCall
      BY <2>2, PutOkStores
    <3>2. call[c].body.revisions \subseteq Rev
      BY <3>1 DEF PutRecordCall, RecordPut
    <3>3. call[c].new \in call[c].body.revisions /\ Stored(call[c].body.revisions)
      BY <2>2 DEF BodiesOK, BodyOK, NamedIsStored, TargetsOK
    <3>4. Stored(returned) /\ returned \subseteq Rev
      BY DEF NamedIsStored, TypeOK
    <3>. QED
      BY <2>2, <3>2, <3>3, <3>4, RevsStay DEF Stored
  <2>. QED
    BY <2>1, <2>2, ReturnedMove
<1>2. ASSUME NEW r \in Rev, rdoc'[r].parent # None
      PROVE  rdoc'[rdoc'[r].parent].rev > 0
  <2>1. CASE rdoc'[r].parent = rdoc[r].parent
    <3>1. rdoc[r].parent \in Rev \cup {None}
      BY DEF TypeOK
    <3>. QED
      BY <1>2, <2>1, <3>1, RevsStay DEF NamedIsStored
  <2>2. ASSUME NEW c \in Client, PutChild(c, r), rdoc'[r].parent = call[c].target
        PROVE  rdoc'[rdoc'[r].parent].rev > 0
    <3>1. call[c].target \in Rev /\ call[c].at = "putChild"
      BY <2>2, PutChildMove DEF ForkCall
    <3>2. rdoc[call[c].target].rev > 0
      BY <3>1 DEF NamedIsStored, TargetsOK
    <3>. QED
      BY <2>2, <3>1, <3>2, RevsStay
  <2>. QED
    BY <2>1, <2>2, NewParents
<1>3. \A o \in Client : TargetsOK(call[o])'
  <2>1. CASE UNCHANGED vars
    BY <2>1 DEF vars, dbVars, NamedIsStored, TargetsOK, Stored, IsRecordPut, IsAdd
  <2>2. ASSUME NEW c \in Client, call'[c] = Idle, \A o \in Client \ {c} : call'[o] = call[o]
        PROVE  \A o \in Client : TargetsOK(call[o])'
    <3>1. TargetsOK(call[c])'
      BY <2>2 DEF TargetsOK, IsRecordPut, IsAdd, Idle
    <3>. QED
      BY <2>2, <3>1, TargetsMove
  <2>3. ASSUME NEW c \in Client, NEW r \in Known, call'[c].target = r,
               ~IsAdd(call[c])', ~IsRecordPut(call[c])',
               \A o \in Client \ {c} : call'[o] = call[o]
        PROVE  \A o \in Client : TargetsOK(call[o])'
    <3>1. TargetsOK(call[c])'
      BY <2>3, KnownIsStored, RevsStay DEF TargetsOK
    <3>. QED
      BY <2>3, <3>1, TargetsMove
  <2>4. ASSUME NEW c \in Client, call[c].at \notin {"idle", "putFirst"},
               call'[c].target = call[c].target,
               ~IsAdd(call[c])', ~IsRecordPut(call[c])',
               \A o \in Client \ {c} : call'[o] = call[o]
        PROVE  \A o \in Client : TargetsOK(call[o])'
    <3>1. call[c].target \in Rev /\ rdoc[call[c].target].rev > 0
      BY <2>4, Shapes DEF NamedIsStored, TargetsOK, TypeOK, Idle
    <3>2. TargetsOK(call[c])'
      BY <2>4, <3>1, RevsStay DEF TargetsOK
    <3>. QED
      BY <2>4, <3>2, TargetsMove
  <2>5. ASSUME NEW c \in Client, NEW r \in Rev, CreateRecord(c, r)
        PROVE  \A o \in Client : TargetsOK(call[o])'
    <3>1. TargetsOK(call[c])'
      BY <2>5, CreateRecordMove DEF TargetsOK, IsRecordPut, IsAdd
    <3>. QED
      BY <2>5, <3>1, CreateRecordMove, TargetsMove
  <2>6. ASSUME NEW c \in Client, NEW op \in {"fork", "delete"}, NEW base \in Rev,
               Fork(c, op, base)
        PROVE  \A o \in Client : TargetsOK(call[o])'
    <3>1. base \in Known
      BY <2>6 DEF Fork
    <3>. QED
      BY <2>3, <2>6, <3>1, ForkMove DEF IsRecordPut, IsAdd
  <2>7. ASSUME NEW c \in Client, NEW r \in Rev, NEW d \in FormData, NEW bump \in Bumps,
               Update(c, r, d, bump)
        PROVE  \A o \in Client : TargetsOK(call[o])'
    <3>1. r \in Known
      BY <2>7 DEF Update
    <3>. QED
      BY <2>3, <2>7, <3>1, UpdateMove DEF IsRecordPut, IsAdd
  <2>8. ASSUME NEW c \in Client, NEW r \in Rev, Stamp(c, r)
        PROVE  \A o \in Client : TargetsOK(call[o])'
    <3>1. r \in Known
      BY <2>8 DEF Stamp
    <3>. QED
      BY <2>3, <2>8, <3>1, StampMove DEF IsRecordPut, IsAdd
  <2>9. ASSUME NEW c \in Client, NEW new \in Rev, PutChild(c, new)
        PROVE  \A o \in Client : TargetsOK(call[o])'
    <3>1. /\ call[c] \in ForkCall
          /\ call'[c].op = call[c].op /\ call'[c].at = "readRecord"
          /\ call'[c].target = call[c].target /\ call'[c].new = new
          /\ \A o \in Client \ {c} : call'[o] = call[o]
      BY <2>9, PutChildMove
    <3>2. call[c].at = "putChild" /\ call[c].target \in Rev
      BY <3>1 DEF ForkCall
    <3>3. rdoc[call[c].target].rev > 0
      BY <3>2 DEF NamedIsStored, TargetsOK
    <3>4. rdoc'[new].rev > 0
      BY <2>9 DEF PutChild, TypeOK
    <3>5. TargetsOK(call[c])'
      BY <3>1, <3>2, <3>3, <3>4, RevsStay DEF TargetsOK, IsRecordPut
    <3>. QED
      BY <3>1, <3>5, TargetsMove
  <2>10. ASSUME NEW c \in Client, ReadRecord(c)
         PROVE  \A o \in Client : TargetsOK(call[o])'
    <3>1. call[c].at = "readRecord" /\ rdoc' = rdoc
      BY <2>10 DEF ReadRecord, dbVars
    <3>2. call[c].target \in Rev /\ TargetsOK(call[c])
      BY <3>1, Shapes DEF TypeOK, NamedIsStored, Idle
    <3>3. Stored(rec.revisions)
      BY <3>1, ListedIsStored
    <3>4. call[c].op \in {"fork", "delete"} => rdoc[call[c].new].rev > 0
      BY <3>1, <3>2 DEF TargetsOK, IsAdd
    <3>5. Stored(RecordBody(c).revisions)
      BY <3>3, <3>4 DEF RecordBody, Stored
    <3>6. rdoc[call[c].target].rev > 0
      BY <3>1, <3>2 DEF TargetsOK
    <3>7. /\ call'[c].at = "put" /\ call'[c].target = call[c].target
          /\ call'[c].body = RecordBody(c)
          /\ \A o \in Client \ {c} : call'[o] = call[o]
      BY <2>10, ReadRecordMove
    <3>8. TargetsOK(call[c])'
      BY <3>1, <3>5, <3>6, <3>7 DEF TargetsOK, IsAdd, Stored
    <3>. QED
      BY <3>7, <3>8, TargetsMove
  <2>11. ASSUME NEW c \in Client, ReadRevision(c)
         PROVE  \A o \in Client : TargetsOK(call[o])'
    BY <2>4, <2>11, ReadRevisionMove DEF ReadRevision, IsAdd, IsRecordPut
  <2>12. ASSUME NEW c \in Client, PutOk(c)
         PROVE  \A o \in Client : TargetsOK(call[o])'
    <3>1. call[c].at = "put"
      BY <2>12 DEF PutOk
    <3>. QED
      BY <2>2, <2>4, <2>12, <3>1, PutOkMove DEF IsAdd, IsRecordPut
  <2>13. ASSUME NEW c \in Client, PutClash(c) \/ RereadRev(c), call'[c] # Idle
         PROVE  \A o \in Client : TargetsOK(call[o])'
    <3>1. /\ call[c].at \in {"put", "reread"} /\ call'[c].at \in {"put", "reread"}
          /\ call'[c].kind = call[c].kind /\ call'[c].target = call[c].target
          /\ call'[c].body = call[c].body
          /\ \A o \in Client \ {c} : call'[o] = call[o]
      BY <2>13, RetriesMove
    <3>2. rdoc' = rdoc /\ TargetsOK(call[c])
      BY <2>13 DEF PutClash, RereadRev, dbVars, NamedIsStored
    <3>3. TargetsOK(call[c])'
      BY <3>1, <3>2 DEF TargetsOK, IsAdd, IsRecordPut, Stored
    <3>. QED
      BY <3>1, <3>3, TargetsMove
  <2>14. ASSUME NEW c \in Client, PutClash(c) \/ RereadRev(c)
         PROVE  \A o \in Client : TargetsOK(call[o])'
    BY <2>2, <2>13, <2>14, RetriesMove
  <2>15. ASSUME NEW c \in Client, Hydrate(c) \/ PutNewAvps(c) \/ PutOverwrites(c)
         PROVE  \A o \in Client : TargetsOK(call[o])'
    BY <2>2, <2>4, <2>15, SavesMove DEF IsAdd, IsRecordPut
  <2>16. ASSUME NEW c \in Client, PutFirstRevision(c) \/ Crash(c)
         PROVE  \A o \in Client : TargetsOK(call[o])'
    BY <2>2, <2>16, PutFirstRevisionMove, CrashMove
  <2>. QED
    BY <2>1, <2>5, <2>6, <2>7, <2>8, <2>9, <2>10, <2>11, <2>12, <2>14, <2>15, <2>16 DEF Next
<1>. QED
  BY <1>1, <1>2, <1>3 DEF NamedIsStored

(* The record document is written when it is created and by accepted puts. *)
LEMMA RecMove ==
  ASSUME TypeOK, [Next]_vars
  PROVE  \/ rec' = rec
         \/ \E c \in Client, r \in Rev : CreateRecord(c, r)
         \/ \E c \in Client :
              /\ PutOk(c) /\ call[c] \in PutRecordCall /\ IsRecordPut(call[c])
              /\ rec' = [rev |-> rec.rev + 1, heads |-> call[c].body.heads,
                         revisions |-> call[c].body.revisions]
<1>1. CASE UNCHANGED vars
  BY <1>1 DEF vars, dbVars
<1>2. ASSUME NEW c \in Client, PutOk(c), rec' # rec
      PROVE  /\ PutOk(c) /\ call[c] \in PutRecordCall /\ IsRecordPut(call[c])
             /\ rec' = [rev |-> rec.rev + 1, heads |-> call[c].body.heads,
                        revisions |-> call[c].body.revisions]
  BY <1>2, PutOkStores
<1>3. CASE Next /\ ~(\E c \in Client : PutOk(c))
           /\ ~(\E c \in Client, r \in Rev : CreateRecord(c, r))
  BY <1>3 DEF Next, PutFirstRevision, Fork, PutChild, ReadRecord,
     PutClash, RereadRev, Update, Hydrate, PutNewAvps, PutOverwrites, Stamp,
     ReadRevision, Crash, dbVars
<1>. QED
  BY <1>1, <1>2, <1>3

LEMMA BeginningStep ==
  ASSUME TypeOK, BeginningOK, NamedIsStored, [Next]_vars
  PROVE  BeginningOK'
<1>0. /\ rec.rev \in Nat /\ rec.revisions \subseteq Rev
      /\ rdoc \in [Rev -> [rev : Nat, parent : Rev \cup {None}, del : BOOLEAN,
                           avps : MapOrNone]]
      /\ DOMAIN call = Client
  BY DEF TypeOK
<1>1. CASE UNCHANGED vars
  BY <1>1 DEF vars, dbVars, BeginningOK, Stored
<1>2. CASE rec.rev = 0 /\ Next
  <2>1. /\ rec.revisions = {} /\ \A c \in Client : call[c] = Idle
        /\ returned = {} /\ \A r \in Rev : rdoc[r].rev = 0
    BY <1>2 DEF BeginningOK
  <2>2. Known = {}
    BY <2>1 DEF Known
  <2>3. \A c \in Client : call[c].at = "idle"
    BY <2>1 DEF Idle
  <2>4. PICK c \in Client, r \in Rev : CreateRecord(c, r)
    <3>1. \A c \in Client : /\ ~PutFirstRevision(c) /\ ~ReadRecord(c) /\ ~PutOk(c)
                            /\ ~PutClash(c) /\ ~RereadRev(c) /\ ~Hydrate(c)
                            /\ ~PutNewAvps(c) /\ ~PutOverwrites(c) /\ ~ReadRevision(c)
                            /\ ~Crash(c) /\ \A new \in Rev : ~PutChild(c, new)
      BY <2>1, <2>3 DEF PutFirstRevision, ReadRecord, PutOk, PutClash, RereadRev, Hydrate,
         PutNewAvps, PutOverwrites, ReadRevision, Crash, PutChild
    <3>2. \A c \in Client, r \in Rev : /\ ~Stamp(c, r)
                                       /\ \A op \in {"fork", "delete"} : ~Fork(c, op, r)
                                       /\ \A d \in FormData, bump \in Bumps : ~Update(c, r, d, bump)
      BY <2>2 DEF Stamp, Fork, Update
    <3>. QED
      BY <1>2, <3>1, <3>2 DEF Next
  <2>5. /\ rec' = [rev |-> 1, heads |-> {r}, revisions |-> {r}]
        /\ rdoc' = rdoc /\ returned' = returned
        /\ call' = [call EXCEPT ![c] = [op |-> "create", at |-> "putFirst", target |-> r]]
    BY <2>4 DEF CreateRecord, Start
  <2>6. rec'.rev = 1 /\ rec'.revisions = {r}
    BY <2>5
  <2>7. \A o \in Client : call'[o] # Idle => call'[o] \in CreateCall /\ call'[o].target = r
    BY <1>0, <2>1, <2>5 DEF CreateCall
  <2>. QED
    BY <2>1, <2>5, <2>6, <2>7 DEF BeginningOK, Stored
<1>3. CASE rec.rev # 0 /\ ~Stored(rec.revisions) /\ Next
  <2>1. PICK r \in rec.revisions : rdoc[r].rev = 0
    BY <1>0, <1>3 DEF Stored
  <2>2. /\ rec.revisions = {r} /\ r \in Rev
        /\ \A c \in Client : call[c] # Idle => call[c] \in CreateCall /\ call[c].target = r
        /\ returned = {} /\ \A q \in Rev : rdoc[q].rev = 0
    BY <1>0, <1>3, <2>1 DEF BeginningOK
  <2>3. Known = {}
    BY <1>0, <2>2 DEF Known
  <2>4. \A c \in Client : call[c].at \in {"idle", "putFirst"}
    BY <2>2 DEF Idle, CreateCall
  <2>5. PICK c \in Client : PutFirstRevision(c) \/ Crash(c)
    <3>1. \A c \in Client : /\ ~ReadRecord(c) /\ ~PutOk(c)
                            /\ ~PutClash(c) /\ ~RereadRev(c) /\ ~Hydrate(c)
                            /\ ~PutNewAvps(c) /\ ~PutOverwrites(c) /\ ~ReadRevision(c)
                            /\ \A new \in Rev : ~PutChild(c, new)
      BY <2>4 DEF ReadRecord, PutOk, PutClash, RereadRev, Hydrate,
         PutNewAvps, PutOverwrites, ReadRevision, PutChild
    <3>2. \A c \in Client, q \in Rev : /\ ~Stamp(c, q) /\ ~CreateRecord(c, q)
                                       /\ \A op \in {"fork", "delete"} : ~Fork(c, op, q)
                                       /\ \A d \in FormData, bump \in Bumps : ~Update(c, q, d, bump)
      BY <1>3, <2>3 DEF Stamp, Fork, Update, CreateRecord
    <3>. QED
      BY <1>3, <3>1, <3>2 DEF Next
  <2>6. /\ rec' = rec /\ returned' = returned
        /\ call'[c] = Idle /\ \A o \in Client \ {c} : call'[o] = call[o]
    BY <2>5, PutFirstRevisionMove, CrashMove DEF PutFirstRevision, Crash, dbVars
  <2>7. CASE PutFirstRevision(c)
    <3>1. call[c].target = r
      <4>1. call[c] # Idle
        BY <2>7 DEF PutFirstRevision, Idle
      <4>. QED
        BY <2>2, <4>1
    <3>2. rdoc' = [rdoc EXCEPT ![r].rev = 1]
      BY <2>7, <3>1 DEF PutFirstRevision
    <3>3. rdoc'[r].rev = 1
      BY <1>0, <2>2, <3>2
    <3>. QED
      BY <1>3, <2>2, <2>6, <3>3 DEF BeginningOK, Stored
  <2>8. CASE Crash(c)
    <3>1. rdoc' = rdoc
      BY <2>8 DEF Crash, dbVars
    <3>2. \A o \in Client : call'[o] # Idle => call'[o] \in CreateCall /\ call'[o].target = r
      BY <2>2, <2>6
    <3>. QED
      BY <1>3, <2>2, <2>6, <3>1, <3>2 DEF BeginningOK, Stored
  <2>. QED
    BY <2>5, <2>7, <2>8
<1>4. CASE rec.rev # 0 /\ Stored(rec.revisions)
  <2>1. rec'.rev # 0 /\ Stored(rec'.revisions) /\ rec'.revisions \subseteq Rev
    <3>1. CASE rec' = rec
      BY <1>0, <1>4, <3>1
    <3>2. ASSUME NEW c \in Client, NEW r \in Rev, CreateRecord(c, r)
          PROVE  FALSE
      BY <1>4, <3>2 DEF CreateRecord
    <3>3. ASSUME NEW c \in Client, call[c] \in PutRecordCall, IsRecordPut(call[c]),
                 rec' = [rev |-> rec.rev + 1, heads |-> call[c].body.heads,
                         revisions |-> call[c].body.revisions]
          PROVE  rec'.rev # 0 /\ Stored(rec'.revisions) /\ rec'.revisions \subseteq Rev
      <4>1. call[c].body.revisions \subseteq Rev /\ Stored(call[c].body.revisions)
        BY <3>3 DEF PutRecordCall, RecordPut, NamedIsStored, TargetsOK
      <4>. QED
        BY <1>0, <3>3, <4>1
    <3>. QED
      BY <3>1, <3>2, <3>3, RecMove
  <2>2. \A r \in rec'.revisions : rdoc'[r].rev > 0
    BY <2>1, RevsStay DEF Stored
  <2>. QED
    BY <2>1, <2>2 DEF BeginningOK, Stored
<1>. QED
  BY <1>1, <1>2, <1>3, <1>4

(* What a client whose call has changed may be doing now.                  *)
LEMMA Changes ==
  ASSUME TypeOK, MapsOK, [Next]_vars, NEW o \in Client, call'[o] # call[o]
  PROVE  \/ call'[o].at # "putChild" /\ ~IsAdd(call'[o]) /\ ~IsRecordPut(call'[o])
         \/ call'[o].at = "putChild" /\ call'[o].target \in Known
         \/ \E new \in Rev : PutChild(o, new)
         \/ ReadRecord(o)
         \/ /\ PutClash(o) \/ RereadRev(o)
            /\ IsRecordPut(call[o]) /\ call'[o].at \in {"put", "reread"}
            /\ call'[o].kind = "record" /\ call'[o].op = call[o].op
            /\ call'[o].body = call[o].body /\ call'[o].new = call[o].new
<1>1. CASE UNCHANGED vars
  BY <1>1 DEF vars
<1> DEFINE Plain(w) == w.at # "putChild" /\ ~IsAdd(w) /\ ~IsRecordPut(w)
<1>2. Plain(Idle)
  BY DEF Idle, IsAdd, IsRecordPut
<1>3. ASSUME NEW c \in Client, NEW r \in Rev, CreateRecord(c, r) \/ Stamp(c, r)
      PROVE  Plain(call'[c]) /\ \A b \in Client \ {c} : call'[b] = call[b]
  BY <1>3, CreateRecordMove, StampMove DEF IsAdd, IsRecordPut
<1>4. ASSUME NEW c \in Client,
             PutFirstRevision(c) \/ Crash(c) \/ ReadRevision(c) \/ PutOk(c)
      PROVE  Plain(call'[c]) /\ \A b \in Client \ {c} : call'[b] = call[b]
  BY <1>2, <1>4, PutFirstRevisionMove, CrashMove, ReadRevisionMove, PutOkMove
  DEF IsAdd, IsRecordPut
<1>5. ASSUME NEW c \in Client, Hydrate(c) \/ PutNewAvps(c) \/ PutOverwrites(c)
      PROVE  Plain(call'[c]) /\ \A b \in Client \ {c} : call'[b] = call[b]
  BY <1>2, <1>5, SavesMove DEF IsAdd, IsRecordPut
<1>6. ASSUME NEW c \in Client, NEW r \in Rev, NEW d \in FormData, NEW bump \in Bumps,
             Update(c, r, d, bump)
      PROVE  Plain(call'[c]) /\ \A b \in Client \ {c} : call'[b] = call[b]
  BY <1>6, UpdateMove DEF IsAdd, IsRecordPut
<1>7. ASSUME NEW c \in Client, NEW op \in {"fork", "delete"}, NEW base \in Rev,
             Fork(c, op, base)
      PROVE  /\ call'[c].at = "putChild" /\ call'[c].target \in Known
             /\ \A b \in Client \ {c} : call'[b] = call[b]
  BY <1>7, ForkMove DEF Fork
<1>8. ASSUME NEW c \in Client, NEW new \in Rev, PutChild(c, new)
      PROVE  \A b \in Client \ {c} : call'[b] = call[b]
  BY <1>8, PutChildMove
<1>9. ASSUME NEW c \in Client, ReadRecord(c)
      PROVE  \A b \in Client \ {c} : call'[b] = call[b]
  BY <1>9, ReadRecordMove
<1>10. ASSUME NEW c \in Client, PutClash(c) \/ RereadRev(c)
       PROVE  /\ \/ Plain(call'[c])
                 \/ /\ IsRecordPut(call[c]) /\ call'[c].at \in {"put", "reread"}
                    /\ call'[c].kind = "record" /\ call'[c].op = call[c].op
                    /\ call'[c].body = call[c].body /\ call'[c].new = call[c].new
              /\ \A b \in Client \ {c} : call'[b] = call[b]
  <2>1. CASE call'[c] = Idle
    BY <1>2, <1>10, <2>1, RetriesMove
  <2>2. CASE call'[c] # Idle
    BY <1>10, <2>2, RetriesMove DEF IsAdd, IsRecordPut
  <2>. QED
    BY <2>1, <2>2
<1>. QED
  BY <1>1, <1>3, <1>4, <1>5, <1>6, <1>7, <1>8, <1>9, <1>10 DEF Next

LEMMA SecretStep ==
  ASSUME TypeOK, BeginningOK, NamedIsStored, NewIsSecret, BodiesOK, MapsOK, [Next]_vars
  PROVE  NewIsSecret'
<1> DEFINE Secret(c, new) ==
      /\ new \notin rec'.revisions \cup returned'
      /\ rdoc'[new].parent = call'[c].target
      /\ \A q \in Rev : rdoc'[q].parent # new
      /\ \A other \in Client \ {c} :
           /\ call'[other].at = "putChild" => call'[other].target # new
           /\ IsAdd(call'[other]) => call'[other].new # new
           /\ IsRecordPut(call'[other]) => new \notin call'[other].body.revisions
<1>1. ASSUME NEW c \in Client, IsAdd(call[c]), call'[c] = call[c]
      PROVE  Secret(c, call[c].new)
  <2> DEFINE new == call[c].new
  <2>1. /\ new \notin rec.revisions \cup returned
        /\ rdoc[new].parent = call[c].target
        /\ \A q \in Rev : rdoc[q].parent # new
        /\ \A other \in Client \ {c} :
             /\ call[other].at = "putChild" => call[other].target # new
             /\ IsAdd(call[other]) => call[other].new # new
             /\ IsRecordPut(call[other]) => new \notin call[other].body.revisions
    BY <1>1 DEF NewIsSecret
  <2>2. call[c].at = "readRecord"
    BY <1>1 DEF IsAdd
  <2>3. new \in Rev /\ rdoc[new].rev > 0
    <3>1. call[c] \in AddCall
      BY <1>1, <2>2, Shapes DEF TypeOK, IsAdd, StampCall
    <3>. QED
      BY <1>1, <3>1 DEF AddCall, NamedIsStored, TargetsOK
  <2>4. new \notin Known
    BY <2>1 DEF Known
  <2>. HIDE DEF new
  <2>5. \A o \in Client : PutOk(o) /\ IsRecordPut(call[o]) => new \notin call[o].body.revisions
    BY <2>1, <2>2 DEF PutOk
  <2>6. new \notin rec'.revisions
    <3>1. rec.rev # 0
      <4>1. call[c] # Idle
        BY <2>2 DEF Idle
      <4>. QED
        BY <4>1 DEF BeginningOK
    <3>2. ASSUME NEW o \in Client, PutOk(o), IsRecordPut(call[o]),
                 rec' = [rev |-> rec.rev + 1, heads |-> call[o].body.heads,
                         revisions |-> call[o].body.revisions]
          PROVE  new \notin rec'.revisions
      <4>1. rec'.revisions = call[o].body.revisions
        BY <3>2
      <4>. QED
        BY <2>5, <3>2, <4>1
    <3>3. rec' = rec => new \notin rec'.revisions
      BY <2>1
    <3>4. \A o \in Client, r \in Rev : ~CreateRecord(o, r)
      BY <3>1 DEF CreateRecord
    <3>. QED
      BY <3>2, <3>3, <3>4, RecMove
  <2>7. new \notin returned'
    BY <2>1, <2>5, ReturnedMove DEF BodiesOK, BodyOK
  <2>8. rdoc'[new].parent = call'[c].target
    BY <1>1, <2>1, <2>3, RevsStay
  <2>9. \A q \in Rev : rdoc'[q].parent # new
    <3> SUFFICES ASSUME NEW q \in Rev PROVE rdoc'[q].parent # new
      OBVIOUS
    <3>1. ASSUME NEW o \in Client, PutChild(o, q), rdoc'[q].parent = call[o].target
          PROVE  rdoc'[q].parent # new
      <4>1. call[o].at = "putChild" /\ o # c
        BY <2>2, <3>1 DEF PutChild
      <4>. QED
        BY <2>1, <3>1, <4>1
    <3>. QED
      BY <2>1, <3>1, NewParents
  <2>10. ASSUME NEW o \in Client \ {c}
         PROVE  /\ call'[o].at = "putChild" => call'[o].target # new
                /\ IsAdd(call'[o]) => call'[o].new # new
                /\ IsRecordPut(call'[o]) => new \notin call'[o].body.revisions
    <3>1. CASE call'[o] = call[o]
      BY <2>1, <3>1
    <3>2. CASE call'[o].at = "putChild" /\ call'[o].target \in Known
      BY <2>4, <3>2 DEF IsAdd, IsRecordPut
    <3>3. ASSUME NEW n \in Rev, PutChild(o, n)
          PROVE  /\ call'[o].at = "readRecord" /\ call'[o].new # new
      <4>1. n # new
        BY <2>3, <3>3 DEF PutChild
      <4>. QED
        BY <3>3, <4>1, PutChildMove
    <3>4. CASE ReadRecord(o)
      <4>1. call'[o].at = "put" /\ call'[o].body = RecordBody(o) /\ call[o].at = "readRecord"
        BY <3>4, ReadRecordMove DEF ReadRecord
      <4>2. new \notin RecordBody(o).revisions
        BY <2>1, <4>1 DEF RecordBody, IsAdd
      <4>. QED
        BY <4>1, <4>2 DEF IsAdd
    <3>5. CASE /\ IsRecordPut(call[o]) /\ call'[o].at \in {"put", "reread"}
               /\ call'[o].body = call[o].body
      BY <2>1, <3>5 DEF IsAdd
    <3>. QED
      BY <3>1, <3>2, <3>3, <3>4, <3>5, Changes DEF IsRecordPut
  <2>. QED
    BY <2>6, <2>7, <2>8, <2>9, <2>10 DEF new
<1>2. ASSUME NEW c \in Client, NEW new \in Rev, PutChild(c, new)
      PROVE  Secret(c, new) /\ call'[c].new = new
  <2>1. /\ call[c] \in ForkCall /\ call'[c].target = call[c].target /\ call'[c].new = new
        /\ \A o \in Client \ {c} : call'[o] = call[o]
    BY <1>2, PutChildMove
  <2>2. /\ rdoc[new].rev = 0 /\ new \notin rec.revisions
        /\ rec' = rec /\ returned' = returned
        /\ rdoc'[new].parent = call[c].target
        /\ \A q \in Rev \ {new} : rdoc'[q] = rdoc[q]
    BY <1>2 DEF PutChild, TypeOK
  <2>3. new \notin returned
    BY <2>2 DEF NamedIsStored, Stored
  <2>4. call[c].target # new
    BY <2>1, <2>2 DEF ForkCall, NamedIsStored, TargetsOK
  <2>5. \A q \in Rev : rdoc'[q].parent # new
    BY <2>2, <2>4, NoneIsOther DEF NamedIsStored
  <2>6. ASSUME NEW o \in Client \ {c}
        PROVE  /\ call[o].at = "putChild" => call[o].target # new
               /\ IsAdd(call[o]) => call[o].new # new
               /\ IsRecordPut(call[o]) => new \notin call[o].body.revisions
    BY <2>2 DEF NamedIsStored, TargetsOK, Stored
  <2>. QED
    BY <2>1, <2>2, <2>3, <2>5, <2>6
<1>3. ASSUME NEW c \in Client, IsAdd(call'[c])
      PROVE  Secret(c, call'[c].new)
  <2>1. CASE call'[c] = call[c]
    BY <1>1, <1>3, <2>1
  <2>2. CASE call'[c] # call[c]
    <3>1. \E new \in Rev : PutChild(c, new)
      BY <1>3, <2>2, Changes, ReadRecordMove DEF IsAdd
    <3>. QED
      BY <1>2, <3>1
  <2>. QED
    BY <2>1, <2>2
<1>. HIDE DEF Secret
<1>4. \A c \in Client : IsAdd(call'[c]) => Secret(c, call'[c].new)
  BY <1>3
<1>. QED
  BY <1>4 DEF Secret, NewIsSecret, IsAdd, IsRecordPut

LEMMA BodiesStep ==
  ASSUME TypeOK, ListedHeadsAreLeaves, NamedIsStored, NewIsSecret, BodiesOK, MapsOK,
         [Next]_vars
  PROVE  BodiesOK'
<1> SUFFICES ASSUME NEW o \in Client, IsRecordPut(call'[o])
             PROVE  LET w == call'[o] IN
                    /\ w.body.heads = {r \in w.body.revisions :
                         \A q \in w.body.revisions : rdoc'[q].parent # r}
                    /\ w.op \in {"fork", "delete"} => w.new \in w.body.revisions
  BY DEF BodiesOK, BodyOK, IsRecordPut, Leaves
<1>1. ASSUME IsRecordPut(call[o]), call'[o].body = call[o].body,
             call'[o].op = call[o].op, call'[o].new = call[o].new
      PROVE  LET w == call'[o] IN
             /\ w.body.heads = {r \in w.body.revisions :
                  \A q \in w.body.revisions : rdoc'[q].parent # r}
             /\ w.op \in {"fork", "delete"} => w.new \in w.body.revisions
  <2> DEFINE S == call[o].body.revisions
  <2>1. call[o] \in PutRecordCall
    <3>1. call[o] \in PutRevisionCall => call[o].kind = "revision"
      BY DEF PutRevisionCall
    <3>. QED
      BY <1>1, <3>1, Shapes DEF TypeOK, IsRecordPut
  <2>2. S \subseteq Rev
    BY <2>1 DEF PutRecordCall, RecordPut
  <2>3. \A r \in S : rdoc[r].rev > 0
    BY <1>1 DEF NamedIsStored, TargetsOK, Stored
  <2>4. \A r \in S : rdoc'[r].parent = rdoc[r].parent
    BY <2>2, <2>3, RevsStay
  <2>5. /\ call[o].body.heads = {r \in S : \A q \in S : rdoc[q].parent # r}
        /\ call[o].op \in {"fork", "delete"} => call[o].new \in S
    BY <1>1 DEF BodiesOK, BodyOK, Leaves
  <2>. HIDE DEF S
  <2>6. {r \in S : \A q \in S : rdoc[q].parent # r} = {r \in S : \A q \in S : rdoc'[q].parent # r}
    BY <2>4
  <2>. QED
    BY <1>1, <2>5, <2>6 DEF S
<1>2. ASSUME ReadRecord(o)
      PROVE  LET w == call'[o] IN
             /\ w.body.heads = {r \in w.body.revisions :
                  \A q \in w.body.revisions : rdoc'[q].parent # r}
             /\ w.op \in {"fork", "delete"} => w.new \in w.body.revisions
  <2>1. /\ call'[o].op = call[o].op /\ call'[o].body = RecordBody(o)
        /\ call[o].op \in {"fork", "delete"} => call'[o].new = call[o].new
    BY <1>2, ReadRecordMove
  <2>2. call[o].at = "readRecord" /\ rdoc' = rdoc
    BY <1>2 DEF ReadRecord, dbVars
  <2>3. rec.heads = {r \in rec.revisions : \A q \in rec.revisions : rdoc[q].parent # r}
    BY DEF ListedHeadsAreLeaves
  <2>4. CASE call[o].op \in {"fork", "delete"}
    <3> DEFINE new == call[o].new
               S == rec.revisions \cup {new}
    <3>1. /\ new \notin rec.revisions /\ rdoc[new].parent = call[o].target
          /\ \A q \in Rev : rdoc[q].parent # new
      BY <2>2, <2>4 DEF NewIsSecret, IsAdd
    <3>2. rec.revisions \subseteq Rev /\ new \in Rev
      <4>1. call[o] \in AddCall
        BY <2>2, <2>4, Shapes DEF TypeOK, StampCall
      <4>. QED
        BY <4>1 DEF AddCall, TypeOK
    <3>3. RecordBody(o).revisions = S
          /\ RecordBody(o).heads = (rec.heads \cup {new}) \ {call[o].target}
      BY <2>4 DEF RecordBody, HeadsAfter
    <3>4. call[o].target # new
      BY <3>1, <3>2
    <3>. HIDE DEF new
    <3>5. (rec.heads \cup {new}) \ {call[o].target}
            = {r \in S : \A q \in S : rdoc[q].parent # r}
      BY <2>3, <3>1, <3>2, <3>4
    <3>. QED
      BY <2>1, <2>2, <2>4, <3>3, <3>5 DEF new
  <2>5. CASE call[o].op \notin {"fork", "delete"}
    <3>1. RecordBody(o).revisions = rec.revisions /\ RecordBody(o).heads = rec.heads
      BY <2>5 DEF RecordBody
    <3>. QED
      BY <2>1, <2>2, <2>3, <2>5, <3>1
  <2>. QED
    BY <2>4, <2>5
<1>3. ASSUME NEW new \in Rev, PutChild(o, new)
      PROVE  FALSE
  BY <1>3, PutChildMove DEF IsRecordPut
<1>. QED
  BY <1>1, <1>2, <1>3, Changes DEF IsRecordPut

(* The two lists of the record are those of one accepted put, and the      *)
(* revisions a put lists are stored, so their parents are settled.         *)
LEMMA ListedStep ==
  ASSUME TypeOK, ListedHeadsAreLeaves, BeginningOK, NamedIsStored, BodiesOK, [Next]_vars
  PROVE  ListedHeadsAreLeaves'
<1>0. rec.revisions \subseteq Rev
  BY DEF TypeOK
<1>1. CASE rec' = rec
  <2>1. ASSUME NEW r \in rec.revisions
        PROVE  rdoc'[r].parent = rdoc[r].parent
    <3>1. \A c \in Client : ~PutChild(c, r)
      BY DEF PutChild
    <3>. QED
      BY <1>0, <3>1, NewParents
  <2>. QED
    BY <1>1, <2>1 DEF ListedHeadsAreLeaves
<1>2. ASSUME NEW c \in Client, NEW r \in Rev, CreateRecord(c, r)
      PROVE  ListedHeadsAreLeaves'
  <2>1. /\ rec.rev = 0 /\ rdoc' = rdoc
        /\ rec' = [rev |-> 1, heads |-> {r}, revisions |-> {r}]
    BY <1>2 DEF CreateRecord
  <2>2. rdoc[r].parent # r
    <3>1. \A q \in Rev : rdoc[q].rev = 0
      BY <2>1 DEF BeginningOK
    <3>. QED
      BY <3>1, NoneIsOther DEF NamedIsStored
  <2>. QED
    BY <2>1, <2>2 DEF ListedHeadsAreLeaves
<1>3. ASSUME NEW c \in Client, call[c] \in PutRecordCall, IsRecordPut(call[c]),
             rec' = [rev |-> rec.rev + 1, heads |-> call[c].body.heads,
                     revisions |-> call[c].body.revisions]
      PROVE  ListedHeadsAreLeaves'
  <2> DEFINE S == call[c].body.revisions
  <2>1. S \subseteq Rev
    BY <1>3 DEF PutRecordCall, RecordPut
  <2>2. \A r \in S : rdoc[r].rev > 0
    BY <1>3 DEF NamedIsStored, TargetsOK, Stored
  <2>3. \A r \in S : rdoc'[r].parent = rdoc[r].parent
    BY <2>1, <2>2, RevsStay
  <2>4. call[c].body.heads = {r \in S : \A q \in S : rdoc[q].parent # r}
    BY <1>3 DEF BodiesOK, BodyOK, Leaves
  <2>5. rec'.heads = call[c].body.heads /\ rec'.revisions = S
    BY <1>3
  <2>. HIDE DEF S
  <2>. QED
    BY <2>3, <2>4, <2>5 DEF ListedHeadsAreLeaves
<1>. QED
  BY <1>1, <1>2, <1>3, RecMove

-----------------------------------------------------------------------------
(* A repeated put is known by its clashes.                                 *)
LEMMA RepeatsClash ==
  ASSUME TypeOK, PutsAreFresh, NEW c \in Client, IsRecordPut(call[c]),
         PutClash(c) \/ RereadRev(c), IsRecordPut(call'[c])
  PROVE  call'[c].clashes # 0
<1>1. call[c] \in PutRecordCall
  <2>1. call[c] \in PutRevisionCall => call[c].kind = "revision"
    BY DEF PutRevisionCall
  <2>. QED
    BY <2>1, Shapes DEF TypeOK, IsRecordPut
<1>2. call[c].clashes \in Nat
  BY <1>1 DEF PutRecordCall, RecordPut
<1>3. DOMAIN call = Client
  BY DEF TypeOK
<1>4. call'[c] # Idle
  BY DEF Idle, IsRecordPut
<1>5. CASE PutClash(c)
  <2>1. call'[c] = [call[c] EXCEPT !.at = "reread", !.clashes = @ + 1]
    BY <1>3, <1>4, <1>5 DEF PutClash, Finish, Goto
  <2>2. call'[c].clashes = call[c].clashes + 1
    BY <1>1, <2>1 DEF PutRecordCall, RecordPut
  <2>. QED
    BY <1>2, <2>2
<1>6. CASE RereadRev(c)
  <2>1. call'[c] = [call[c] EXCEPT !.at = "put", !.rev = StoredRev(c)]
    BY <1>3, <1>6 DEF RereadRev, Goto
  <2>2. call'[c].clashes = call[c].clashes
    BY <1>1, <2>1 DEF PutRecordCall, RecordPut
  <2>3. call[c].clashes # 0
    BY <1>6 DEF PutsAreFresh, PutIsFresh, RereadRev
  <2>. QED
    BY <2>2, <2>3
<1>. QED
  BY <1>5, <1>6

(* Every change of the record raises its `_rev`, so that a put which has   *)
(* read the record before it is refused.                                   *)
LEMMA FreshStep ==
  ASSUME TypeOK, BeginningOK, MapsOK, PutsAreFresh, [Next]_vars
  PROVE  PutsAreFresh'
<1> SUFFICES ASSUME NEW o \in Client, IsRecordPut(call'[o]), call'[o].clashes = 0
             PROVE  /\ call'[o].at = "put" /\ call'[o].rev <= rec'.rev
                    /\ call'[o].rev = rec'.rev => rec'.revisions \subseteq call'[o].body.revisions
  BY DEF PutsAreFresh, PutIsFresh, IsRecordPut
<1>0. rec.rev \in Nat
  BY DEF TypeOK
<1>1. CASE call'[o] = call[o]
  <2>1. /\ call[o].at = "put" /\ call[o].rev <= rec.rev
        /\ call[o].rev = rec.rev => rec.revisions \subseteq call[o].body.revisions
    BY <1>1 DEF PutsAreFresh, PutIsFresh, IsRecordPut
  <2>2. call[o] \in PutRecordCall
    <3>1. call[o] \in PutRevisionCall => call[o].kind = "revision"
      BY DEF PutRevisionCall
    <3>. QED
      BY <1>1, <3>1, Shapes DEF TypeOK, IsRecordPut
  <2>3. call[o].rev \in Nat
    BY <2>2 DEF PutRecordCall, RecordPut
  <2>4. rec' = rec \/ rec'.rev = rec.rev + 1
    <3>1. ASSUME NEW c \in Client, NEW r \in Rev, CreateRecord(c, r)
          PROVE  rec'.rev = rec.rev + 1
      BY <3>1 DEF CreateRecord
    <3>. QED
      BY <3>1, RecMove
  <2>. QED
    BY <1>0, <1>1, <2>1, <2>3, <2>4
<1>2. CASE call'[o] # call[o]
  <2>1. CASE ReadRecord(o)
    <3>1. /\ call'[o].at = "put" /\ call'[o].rev = rec.rev /\ rec' = rec
          /\ call'[o].body = RecordBody(o)
      BY <2>1, ReadRecordMove DEF ReadRecord, dbVars
    <3>2. rec.revisions \subseteq RecordBody(o).revisions
      BY DEF RecordBody
    <3>. QED
      BY <1>0, <3>1, <3>2
  <2>2. ASSUME NEW new \in Rev, PutChild(o, new)
        PROVE  FALSE
    BY <2>2, PutChildMove DEF IsRecordPut
  <2>3. CASE (PutClash(o) \/ RereadRev(o)) /\ IsRecordPut(call[o])
    BY <2>3, RepeatsClash
  <2>. QED
    BY <1>2, <2>1, <2>2, <2>3, Changes DEF IsRecordPut
<1>. QED
  BY <1>1, <1>2

(* The first accepted put of a call lists what the record lists.           *)
LEMMA FirstPutsKeep ==
  ASSUME TypeOK, BeginningOK, PutsAreFresh, [Next]_vars,
         NEW r \in rec.revisions, r \notin rec'.revisions
  PROVE  \E c \in Client : PutOk(c) /\ call[c].kind = "record" /\ call[c].clashes > 0
<1>1. rec' # rec
  OBVIOUS
<1>2. \A c \in Client, q \in Rev : ~CreateRecord(c, q)
  BY DEF CreateRecord, BeginningOK
<1>3. PICK c \in Client :
        /\ PutOk(c) /\ call[c] \in PutRecordCall /\ IsRecordPut(call[c])
        /\ rec' = [rev |-> rec.rev + 1, heads |-> call[c].body.heads,
                   revisions |-> call[c].body.revisions]
  BY <1>1, <1>2, RecMove
<1>4. call[c].kind = "record" /\ call[c].clashes \in Nat
  BY <1>3 DEF PutRecordCall, RecordPut
<1>5. call[c].clashes # 0
  <2>1. call[c].rev = rec.rev
    BY <1>3, <1>4 DEF PutOk, StoredRev
  <2>2. ~(rec.revisions \subseteq call[c].body.revisions)
    BY <1>3
  <2>. QED
    BY <1>3, <2>1, <2>2 DEF PutsAreFresh, PutIsFresh
<1>. QED
  BY <1>3, <1>4, <1>5

-----------------------------------------------------------------------------
LEMMA InvStep == Inv /\ [Next]_vars => Inv'
BY TypeStep, ListedStep, BeginningStep, NamedStep, SecretStep, BodiesStep, MapsStep DEF Inv

LEMMA Inductive == Spec => []Inv
<1>1. Inv /\ [Next]_vars => Inv'
  BY InvStep
<1>. QED
  BY InitInv, <1>1, PTL DEF Spec

(* Every document, and every call at every step of it, holds what its type *)
(* says, and a stored AVP has an owner and data (the interfaces of the     *)
(* documents, and the puts of createAvps with the owner and data they      *)
(* are given).                                                             *)
THEOREM TypeCorrect == Spec => []TypeOK
<1>1. Inv => TypeOK
  BY DEF Inv
<1>. QED
  BY Inductive, <1>1, PTL

(* The heads the record lists are the leaves among the revisions it lists, *)
(* however forks, deletes, saves and stamps of any number of clients       *)
(* interleave, clash and stop halfway (updateRecordHeads,                  *)
(* stampRecordUpdatedAt and updateDocument of engine.ts).                  *)
THEOREM HeadsCorrect == Spec => []ListedHeadsAreLeaves
<1>1. Inv => ListedHeadsAreLeaves
  BY DEF Inv
<1>. QED
  BY Inductive, <1>1, PTL

(* No document names one that is not stored, but for the record whose      *)
(* first revision is still to come: createRevision and updateRevision      *)
(* store what they name before they name it.                               *)
THEOREM IdsCorrect == Spec => []NoDanglingId
<1>1. Inv => NoDanglingId
  BY DEF Inv, BeginningOK, MapsOK, MapStored, NoDanglingId
<1>. QED
  BY Inductive, <1>1, PTL

(* A revision leaves the record's history only at a put repeated after a   *)
(* clash: whatever the other clients did between a call's read and its     *)
(* first put, that put takes nothing away (updateRecordHeads,              *)
(* stampRecordUpdatedAt and updateDocument of engine.ts).                  *)
THEOREM FirstPutsKeepHistory == Spec => HistoryLostToRepeatsOnly
<1>1. Init => PutsAreFresh
  BY DEF Init, PutsAreFresh, PutIsFresh, IsRecordPut, Idle
<1>2. Inv /\ PutsAreFresh /\ [Next]_vars => PutsAreFresh'
  BY FreshStep DEF Inv
<1>3. Inv /\ PutsAreFresh /\ [Next]_vars =>
        [\A r \in rec.revisions \ rec'.revisions :
           \E c \in Client : PutOk(c) /\ call[c].kind = "record" /\ call[c].clashes > 0]_vars
  BY FirstPutsKeep DEF Inv
<1>. QED
  BY Inductive, <1>1, <1>2, <1>3, PTL DEF Spec, HistoryLostToRepeatsOnly
=============================================================================
