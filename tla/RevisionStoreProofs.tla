------------------------- MODULE RevisionStoreProofs -------------------------
(***************************************************************************)
(* Theorems about RevisionStore, for any sets of revisions, AVPs, fields,  *)
(* values and sessions.  The first part holds for every interleaving of    *)
(* forms and API clients; the second is about behaviours in which the      *)
(* record is open in one form at a time (exclusive).                       *)
(***************************************************************************)
EXTENDS RevisionStore, TLAPS

USE NoneIsNew

(* What one save does to the documents: it may only rewrite the map of r,  *)
(* by keeping entries, taking the parent's or pointing at ids that were    *)
(* free; and it overwrites no AVP but one the parent's entry differs from. *)
LEMMA WriteEffect ==
  ASSUME TypeOK, NEW r \in Rev, NEW d \in FormData, WriteRevision(r, d)
  PROVE  /\ r \in revisions
         /\ UNCHANGED <<revisions, heads, parent, deleted>>
         /\ avps' \in [Rev -> MapOrNone]
         /\ owner' \in [Avp -> Rev \cup {None}]
         /\ val' \in [Avp -> Value \cup {None}]
         /\ \A q \in Rev \ {r} : avps'[q] = avps[q]
         /\ \A f \in Field : avps'[r][f] # None =>
              \/ avps'[r][f] = avps[r][f]
              \/ avps'[r][f] = ParentAvp(r, f)
              \/ owner[avps'[r][f]] = None /\ owner'[avps'[r][f]] = r
         /\ \A a \in Avp : owner[a] # None => owner'[a] = owner[a]
         /\ \A a \in Avp : val'[a] # val[a] =>
              \/ owner[a] = None
              \/ \E g \in Field : /\ avps[r][g] = a
                                  /\ parent[r] = None \/ a # ParentAvp(r, g)
<1> DEFINE K == Kept(r, d)
           R == Reverted(r, d)
           I == InPlace(r, d)
           C == Created(r, d)
<1>1. PICK alloc \in NewIds(r, d) :
        LET written == [f \in Field |->
              IF f \in K \cup I THEN avps[r][f]
              ELSE IF f \in R THEN ParentAvp(r, f)
              ELSE IF f \in C THEN alloc[f] ELSE None]
            target == [a \in Avp |-> {f \in I \cup C : written[f] = a}]
        IN /\ avps' = [avps EXCEPT ![r] = written]
           /\ owner' = [a \in Avp |->
                IF \E f \in C : alloc[f] = a THEN r ELSE owner[a]]
           /\ val' = [a \in Avp |->
                IF target[a] # {} THEN d[CHOOSE f \in target[a] : TRUE]
                ELSE val[a]]
  BY DEF WriteRevision
<1> DEFINE written == [f \in Field |->
              IF f \in K \cup I THEN avps[r][f]
              ELSE IF f \in R THEN ParentAvp(r, f)
              ELSE IF f \in C THEN alloc[f] ELSE None]
           target == [a \in Avp |-> {f \in I \cup C : written[f] = a}]
<1>2. /\ avps' = [avps EXCEPT ![r] = written]
      /\ owner' = [a \in Avp |->
           IF \E f \in C : alloc[f] = a THEN r ELSE owner[a]]
      /\ val' = [a \in Avp |->
           IF target[a] # {} THEN d[CHOOSE f \in target[a] : TRUE]
           ELSE val[a]]
  BY <1>1
<1>3. /\ r \in revisions
      /\ UNCHANGED <<revisions, heads, parent, deleted>>
  BY DEF WriteRevision
<1>4. alloc \in [C -> Free]
  BY DEF NewIds, Injection
<1>5. /\ K \subseteq Field /\ R \subseteq Field /\ I \subseteq Field
      /\ C \subseteq Field /\ I \cap C = {} /\ I \cap K = {} /\ I \cap R = {}
      /\ C \cap K = {} /\ C \cap R = {}
      /\ \A f \in I \cup C : d[f] # None
  BY DEF Kept, Reverted, InPlace, Created
<1>6. \A f \in Field : ParentAvp(r, f) \in Avp \cup {None}
  BY DEF TypeOK, ParentAvp, MapOrNone
<1>7. Free \subseteq Avp
  BY DEF Free
<1>8. avps[r] \in MapOrNone
  BY DEF TypeOK
<1>9. written \in MapOrNone
  <2> SUFFICES ASSUME NEW f \in Field PROVE written[f] \in Avp \cup {None}
    BY DEF MapOrNone
  <2> QED BY <1>4, <1>6, <1>7, <1>8 DEF MapOrNone
<1>10. avps' \in [Rev -> MapOrNone]
  BY <1>2, <1>9 DEF TypeOK
<1>11. owner' \in [Avp -> Rev \cup {None}]
  BY <1>2 DEF TypeOK
<1>12. \A a \in Avp : target[a] # {} =>
         (CHOOSE f \in target[a] : TRUE) \in I \cup C
  OBVIOUS
<1>13. val' \in [Avp -> Value \cup {None}]
  <2> HIDE DEF target
  <2> SUFFICES ASSUME NEW a \in Avp, target[a] # {}
               PROVE  d[CHOOSE f \in target[a] : TRUE] \in Value \cup {None}
    BY <1>2 DEF TypeOK
  <2> QED BY <1>12, <1>5 DEF FormData
<1>14. \A q \in Rev \ {r} : avps'[q] = avps[q]
  BY <1>2 DEF TypeOK
<1>15. avps'[r] = written
  BY <1>2 DEF TypeOK
<1>16. ASSUME NEW f \in Field, avps'[r][f] # None
       PROVE  \/ avps'[r][f] = avps[r][f]
              \/ avps'[r][f] = ParentAvp(r, f)
              \/ owner[avps'[r][f]] = None /\ owner'[avps'[r][f]] = r
  <2>1. avps'[r][f] = written[f]
    BY <1>15
  <2>2. CASE f \in K \cup I
    BY <2>1, <2>2
  <2>3. CASE f \in R \ (K \cup I)
    BY <2>1, <2>3
  <2>4. CASE f \in C \ (K \cup I \cup R)
    <3>1. written[f] = alloc[f]
      BY <2>4
    <3>2. alloc[f] \in Avp /\ owner[alloc[f]] = None
      BY <1>4, <2>4 DEF Free
    <3>3. owner'[alloc[f]] = r
      BY <1>2, <3>2, <2>4
    <3> QED BY <2>1, <3>1, <3>2, <3>3
  <2>5. CASE f \notin K \cup I \cup R \cup C
    BY <2>1, <2>5, <1>16
  <2> QED BY <2>2, <2>3, <2>4, <2>5
<1>17. ASSUME NEW a \in Avp, owner[a] # None
       PROVE  owner'[a] = owner[a]
  <2>1. \A f \in C : alloc[f] # a
    BY <1>4, <1>17 DEF Free
  <2> QED BY <2>1, <1>2
<1>18. ASSUME NEW a \in Avp, val'[a] # val[a], owner[a] # None
       PROVE  \E g \in Field : /\ avps[r][g] = a
                               /\ parent[r] = None \/ a # ParentAvp(r, g)
  <2>1. PICK g \in I \cup C : written[g] = a
    BY <1>2, <1>18
  <2>2. \A f \in C : written[f] = alloc[f]
    BY <1>5
  <2>3. g \in I
    BY <2>1, <2>2, <1>4, <1>18 DEF Free
  <2>4. avps[r][g] = a
    BY <2>1, <2>3, <1>5
  <2> QED BY <2>3, <2>4, <1>5 DEF InPlace
<1> QED BY <1>3, <1>10, <1>11, <1>13, <1>14, <1>16, <1>17, <1>18

-----------------------------------------------------------------------------
(* Any interleaving of forms and API clients.                              *)

(* The way the record is used never changes.                               *)
LEMMA NextKeepsMode == [Next]_vars => exclusive' = exclusive
BY DEF Next, CreateRecord, OpenRecord, CloseRecord, FirstEdit, DeleteRecord,
       Save, ApiCreateRevision, ApiUpdateRevision, vars

(* Appending a child to a revision changes no other revision's map.        *)
LEMMA AppendEffect ==
  ASSUME TypeOK, NEW base \in Rev, NEW new \in Rev, AppendRevision(base, new)
  PROVE  /\ base \in revisions \ deleted /\ new \notin revisions
         /\ revisions' = revisions \cup {new}
         /\ heads' = (heads \cup {new}) \ {base}
         /\ parent' \in [Rev -> Rev \cup {None}]
         /\ avps' \in [Rev -> MapOrNone]
         /\ parent'[new] = base /\ avps'[new] = avps[base]
         /\ \A q \in Rev \ {new} : parent'[q] = parent[q] /\ avps'[q] = avps[q]
         /\ UNCHANGED <<owner, val>>
BY DEF AppendRevision, Forkable, NewHistory, NewHeads, TypeOK

(* Every step is one of these kinds, with the parameters in their sets.    *)
LEMMA StepKinds ==
  ASSUME TypeOK, [Next]_vars
  PROVE  \/ \E s \in Session, r \in Rev : CreateRecord(s, r)
         \/ \E s \in Session, h \in Rev : OpenRecord(s, h)
         \/ \E s \in Session : CloseRecord(s)
         \/ \E s \in Session, new \in Rev : work[s] \in Rev /\ FirstEdit(s, new)
         \/ \E base, new \in Rev : DeleteRecord(base, new)
         \/ \E s \in Session, d \in FormData : work[s] \in Rev /\ Save(s, d)
         \/ \E base, new \in Rev : ApiCreateRevision(base, new)
         \/ \E r \in Rev, d \in FormData : ApiUpdateRevision(r, d)
         \/ UNCHANGED vars
<1>1. \A s \in Session, new \in Rev : FirstEdit(s, new) => work[s] \in Rev
  BY DEF FirstEdit, AppendRevision, Forkable, TypeOK
<1>2. \A s \in Session, d \in FormData : Save(s, d) => work[s] \in Rev
  BY DEF Save, WriteRevision, TypeOK
<1> QED BY <1>1, <1>2 DEF Next

(* The engine never stores a malformed document: heads are revisions of    *)
(* the history, maps hold AVP ids, every reference is to an id in use.     *)
THEOREM TypeCorrect == Spec => []TypeOK
<1>1. Init => TypeOK
  BY DEF Init, TypeOK, MapOrNone
<1>2. TypeOK /\ [Next]_vars => TypeOK'
  <2> SUFFICES ASSUME TypeOK, [Next]_vars PROVE TypeOK'
    OBVIOUS
  <2>1. CASE \E s \in Session, r \in Rev : CreateRecord(s, r)
    BY <2>1 DEF CreateRecord, TypeOK
  <2>2. CASE \E s \in Session, h \in Rev : OpenRecord(s, h)
    BY <2>2 DEF OpenRecord, docs, TypeOK
  <2>3. CASE \E s \in Session : CloseRecord(s)
    BY <2>3 DEF CloseRecord, docs, TypeOK
  <2>4. ASSUME NEW s \in Session, NEW new \in Rev, work[s] \in Rev,
               FirstEdit(s, new)
        PROVE  TypeOK'
    BY <2>4, AppendEffect DEF FirstEdit, TypeOK
  <2>5. ASSUME NEW base \in Rev, NEW new \in Rev, DeleteRecord(base, new)
        PROVE  TypeOK'
    BY <2>5, AppendEffect DEF DeleteRecord, TypeOK
  <2>6. ASSUME NEW s \in Session, NEW d \in FormData, work[s] \in Rev, Save(s, d)
        PROVE  TypeOK'
    BY <2>6, WriteEffect DEF Save, TypeOK
  <2>7. ASSUME NEW base \in Rev, NEW new \in Rev, ApiCreateRevision(base, new)
        PROVE  TypeOK'
    BY <2>7, AppendEffect DEF ApiCreateRevision, TypeOK
  <2>8. ASSUME NEW r \in Rev, NEW d \in FormData, ApiUpdateRevision(r, d)
        PROVE  TypeOK'
    BY <2>8, WriteEffect DEF ApiUpdateRevision, TypeOK
  <2>9. CASE UNCHANGED vars
    BY <2>9 DEF vars, docs, TypeOK
  <2> QED BY StepKinds, <2>1, <2>2, <2>3, <2>4, <2>5, <2>6, <2>7, <2>8, <2>9
<1> QED BY <1>1, <1>2, PTL DEF Spec

(* The part of the state the tree properties are about.                    *)
TreeInv == TreeOK /\ HeadsAreLeaves /\ TombstoneStaysHead

(* Appending a child keeps the forest, and turns its base from a leaf into *)
(* an inner node exactly as the head list does.                            *)
LEMMA AppendKeepsTree ==
  ASSUME TypeOK, TreeInv, NEW base \in Rev, NEW new \in Rev,
         AppendRevision(base, new), deleted' \in {deleted, deleted \cup {new}}
  PROVE  TreeInv'
<1> USE AppendEffect
<1>1. TreeOK'
  BY DEF TreeInv, TreeOK, TypeOK
<1>2. Leaves' = (Leaves \cup {new}) \ {base}
  <2>1. \A r \in Rev : parent[r] # new
    BY DEF TreeInv, TreeOK
  <2>2. base # new
    OBVIOUS
  <2>3. new \in Leaves' /\ base \notin Leaves'
    BY <2>1, <2>2 DEF Leaves, TypeOK
  <2>4. ASSUME NEW r \in revisions, r # base PROVE r \in Leaves' <=> r \in Leaves
    BY <2>4 DEF Leaves, TypeOK
  <2>5. Leaves \subseteq revisions /\ Leaves' \subseteq revisions \cup {new}
    BY DEF Leaves
  <2> QED BY <2>2, <2>3, <2>4, <2>5
<1>3. HeadsAreLeaves'
  BY <1>2 DEF TreeInv, HeadsAreLeaves
<1>4. TombstoneStaysHead'
  BY DEF TreeInv, TombstoneStaysHead
<1> QED BY <1>1, <1>3, <1>4 DEF TreeInv

(* Saving touches neither the forest nor the heads.                        *)
LEMMA WriteKeepsTree ==
  ASSUME TypeOK, TreeInv, NEW r \in Rev, NEW d \in FormData, WriteRevision(r, d)
  PROVE  TreeInv'
BY WriteEffect DEF TreeInv, TreeOK, HeadsAreLeaves, Leaves, TombstoneStaysHead, TypeOK

(* Every step keeps the forest and the heads (inductive form).             *)
THEOREM TreeInvariant == Spec => []TreeInv
<1>1. Init => TreeInv
  BY DEF Init, TreeInv, TreeOK, HeadsAreLeaves, Leaves, TombstoneStaysHead
<1>2. TypeOK /\ TreeInv /\ [Next]_vars => TreeInv'
  <2> SUFFICES ASSUME TypeOK, TreeInv, [Next]_vars PROVE TreeInv'
    OBVIOUS
  <2>1. ASSUME NEW s \in Session, NEW r \in Rev, CreateRecord(s, r)
        PROVE  TreeInv'
    BY <2>1 DEF CreateRecord, TreeInv, TreeOK, HeadsAreLeaves, Leaves,
                TombstoneStaysHead, TypeOK
  <2>2. CASE UNCHANGED docs
    BY <2>2 DEF docs, TreeInv, TreeOK, HeadsAreLeaves, Leaves, TombstoneStaysHead
  <2>3. ASSUME NEW s \in Session, NEW new \in Rev, work[s] \in Rev,
               FirstEdit(s, new)
        PROVE  TreeInv'
    BY <2>3, AppendKeepsTree DEF FirstEdit
  <2>4. ASSUME NEW base \in Rev, NEW new \in Rev, DeleteRecord(base, new)
        PROVE  TreeInv'
    BY <2>4, AppendKeepsTree DEF DeleteRecord
  <2>5. ASSUME NEW base \in Rev, NEW new \in Rev, ApiCreateRevision(base, new)
        PROVE  TreeInv'
    BY <2>5, AppendKeepsTree DEF ApiCreateRevision
  <2>6. ASSUME NEW s \in Session, NEW d \in FormData, work[s] \in Rev, Save(s, d)
        PROVE  TreeInv'
    BY <2>6, WriteKeepsTree DEF Save
  <2>7. ASSUME NEW r \in Rev, NEW d \in FormData, ApiUpdateRevision(r, d)
        PROVE  TreeInv'
    BY <2>7, WriteKeepsTree DEF ApiUpdateRevision
  <2> QED BY StepKinds, <2>1, <2>2, <2>3, <2>4, <2>5, <2>6, <2>7
          DEF OpenRecord, CloseRecord, vars
<1> QED BY <1>1, <1>2, TypeCorrect, PTL DEF Spec

(* Whatever clients fork, save or delete, and in whatever order: the heads *)
(* of the record are the leaves of its revision tree, no more and no less. *)
THEOREM TreeCorrect == Spec => []HeadsAreLeaves
<1>1. TreeInv => HeadsAreLeaves
  BY DEF TreeInv
<1> QED BY <1>1, TreeInvariant, PTL

(* A deletion is final: whatever is forked, saved or deleted after it, the *)
(* tombstone is never buried under a newer revision.                       *)
THEOREM DeletionsAreFinal == Spec => []TombstoneStaysHead
<1>1. TreeInv => TombstoneStaysHead
  BY DEF TreeInv
<1> QED BY <1>1, TreeInvariant, PTL

-----------------------------------------------------------------------------
(* Which AVPs the maps name, in any interleaving of forms and API clients. *)

(* Every AVP is named by one field only, and none that is free is named.   *)
AvpInv == AvpsAllocated /\ OneFieldPerAvp

(* A save names no AVP for two fields, no free AVP, and what is read of    *)
(* the revision afterwards is what was saved.                              *)
LEMMA WriteReads ==
  ASSUME TypeOK, TreeInv, AvpInv,
         NEW r \in Rev, NEW d \in FormData, WriteRevision(r, d)
  PROVE  AvpInv' /\ Content(r)' = d
<1> DEFINE K == Kept(r, d)
           R == Reverted(r, d)
           I == InPlace(r, d)
           C == Created(r, d)
<1>1. PICK alloc \in NewIds(r, d) :
        LET written == [f \in Field |->
              IF f \in K \cup I THEN avps[r][f]
              ELSE IF f \in R THEN ParentAvp(r, f)
              ELSE IF f \in C THEN alloc[f] ELSE None]
            target == [a \in Avp |-> {f \in I \cup C : written[f] = a}]
        IN /\ avps' = [avps EXCEPT ![r] = written]
           /\ owner' = [a \in Avp |->
                IF \E f \in C : alloc[f] = a THEN r ELSE owner[a]]
           /\ val' = [a \in Avp |->
                IF target[a] # {} THEN d[CHOOSE f \in target[a] : TRUE]
                ELSE val[a]]
  BY DEF WriteRevision
<1> DEFINE written == [f \in Field |->
              IF f \in K \cup I THEN avps[r][f]
              ELSE IF f \in R THEN ParentAvp(r, f)
              ELSE IF f \in C THEN alloc[f] ELSE None]
           target == [a \in Avp |-> {f \in I \cup C : written[f] = a}]
<1>2. /\ avps' = [avps EXCEPT ![r] = written]
      /\ owner' = [a \in Avp |->
           IF \E f \in C : alloc[f] = a THEN r ELSE owner[a]]
      /\ val' = [a \in Avp |->
           IF target[a] # {} THEN d[CHOOSE f \in target[a] : TRUE]
           ELSE val[a]]
  BY <1>1
<1>3. r \in revisions /\ UNCHANGED <<revisions, parent>>
  BY DEF WriteRevision
<1>4. /\ alloc \in [C -> Avp] /\ \A f \in C : owner[alloc[f]] = None
      /\ \A f, g \in C : alloc[f] = alloc[g] => f = g
  BY DEF NewIds, Injection, IsInjective, Free
<1>5. /\ K \subseteq Field /\ R \subseteq Field /\ I \subseteq Field
      /\ C \subseteq Field /\ I \cap C = {} /\ I \cap K = {} /\ I \cap R = {}
      /\ C \cap K = {} /\ C \cap R = {} /\ K \cap R = {}
      /\ \A f \in Field : d[f] # None <=> f \in K \cup R \cup I \cup C
  BY DEF Kept, Reverted, InPlace, Created
<1>6. \A f \in R : /\ ParentAvp(r, f) # None /\ parent[r] \in Rev
                   /\ ParentAvp(r, f) = avps[parent[r]][f]
                   /\ val[ParentAvp(r, f)] = d[f]
  BY DEF Reverted, ParentAvp, TypeOK
<1>7. \A f \in K : /\ avps[r][f] # None /\ val[avps[r][f]] = d[f]
  BY DEF Kept, Content
<1>8. \A f \in I : avps[r][f] # None
  BY DEF InPlace
<1>9. \A f \in Field : /\ f \in K \cup I => written[f] = avps[r][f]
                       /\ f \in R => written[f] = ParentAvp(r, f)
                       /\ f \in C => written[f] = alloc[f]
                       /\ d[f] = None => written[f] = None
  BY <1>5
<1>10. avps'[r] = written /\ \A q \in Rev \ {r} : avps'[q] = avps[q]
  BY <1>2 DEF TypeOK
<1>11. \A q \in Rev, f \in Field :
         avps[q][f] # None => /\ avps[q][f] \in Avp
                              /\ owner[avps[q][f]] \in revisions
                              /\ owner[avps[q][f]] # None
  BY DEF AvpInv, AvpsAllocated, TypeOK, MapOrNone
(* Which AVP an entry of r is: one that some map held for the same field,  *)
(* or a new one.                                                           *)
<1>12. ASSUME NEW f \in Field, written[f] # None
       PROVE  \/ \E p \in Rev : written[f] = avps[p][f]
              \/ f \in C /\ written[f] = alloc[f]
  <2>1. f \in K \cup R \cup I \cup C
    BY <1>5, <1>9, <1>12
  <2> QED BY <2>1, <1>6, <1>9
<1>13. \A f \in Field : written[f] \in Avp \cup {None}
  BY <1>4, <1>11, <1>12
(* No two fields of r's new map, or of r's and another's, name one AVP.    *)
<1>14. ASSUME NEW f \in Field, NEW g \in Field, NEW q \in Rev,
              written[f] # None, avps[q][g] = written[f]
       PROVE  f = g
  <2>1. f \notin C
    BY <1>4, <1>9, <1>11, <1>14
  <2>2. PICK p \in Rev : written[f] = avps[p][f]
    BY <1>12, <1>14, <2>1
  <2> QED BY <1>14, <2>2 DEF AvpInv, OneFieldPerAvp
<1>15. ASSUME NEW f \in Field, NEW g \in Field,
              written[f] # None, written[g] = written[f]
       PROVE  f = g
  <2> HIDE DEF written
  <2>1. CASE \E p \in Rev : written[g] = avps[p][g]
    BY <2>1, <1>14, <1>15
  <2>2. CASE \E p \in Rev : written[f] = avps[p][f]
    BY <2>2, <1>14, <1>15
  <2> QED BY <2>1, <2>2, <1>4, <1>12, <1>15
<1> HIDE DEF written
<1>16. OneFieldPerAvp'
  <2> SUFFICES ASSUME NEW q \in Rev, NEW p \in Rev, NEW f \in Field, NEW g \in Field,
                      avps'[q][f] # None, avps'[p][g] = avps'[q][f]
               PROVE  g = f
    BY DEF OneFieldPerAvp
  <2>1. CASE q = r /\ p = r
    BY <2>1, <1>10, <1>15
  <2>2. CASE q = r /\ p # r
    BY <2>2, <1>10, <1>14
  <2>3. CASE q # r /\ p = r
    BY <2>3, <1>10, <1>14
  <2>4. CASE q # r /\ p # r
    BY <2>4, <1>10 DEF AvpInv, OneFieldPerAvp
  <2> QED BY <2>1, <2>2, <2>3, <2>4
<1>17. AvpsAllocated'
  <2> SUFFICES ASSUME NEW q \in Rev, NEW f \in Field, avps'[q][f] # None
               PROVE  owner'[avps'[q][f]] \in revisions
    BY <1>3 DEF AvpsAllocated
  <2>1. ASSUME NEW p \in Rev, NEW g \in Field, avps[p][g] # None
        PROVE  owner'[avps[p][g]] \in revisions
    BY <2>1, <1>2, <1>3, <1>11
  <2>2. ASSUME NEW g \in C PROVE owner'[alloc[g]] = r
    BY <1>2, <1>4
  <2> QED BY <2>1, <2>2, <1>3, <1>10, <1>12
<1>18. ASSUME NEW f \in Field
       PROVE  (IF written[f] = None THEN None ELSE val'[written[f]]) = d[f]
  <2>1. CASE d[f] = None
    BY <2>1, <1>9
  <2>2. CASE f \in K \cup R
    <3>1. written[f] # None /\ val[written[f]] = d[f] /\ written[f] \in Avp
      BY <2>2, <1>6, <1>7, <1>9, <1>13
    <3>2. target[written[f]] = {}
      BY <2>2, <3>1, <1>5, <1>15
    <3> QED BY <3>1, <3>2, <1>2
  <2>3. CASE f \in I \cup C
    <3>1. written[f] # None /\ written[f] \in Avp
      BY <2>3, <1>4, <1>8, <1>9, <1>13
    <3>2. target[written[f]] = {f}
      BY <2>3, <3>1, <1>5, <1>15
    <3> QED BY <3>1, <3>2, <1>2
  <2> QED BY <2>1, <2>2, <2>3, <1>5
<1>19. Content(r)' = d
  <2>1. Content(r)' = [f \in Field |-> IF written[f] = None THEN None
                                      ELSE val'[written[f]]]
    BY <1>10 DEF Content
  <2>2. d = [f \in Field |-> d[f]]
    BY DEF FormData
  <2> QED BY <2>1, <2>2, <1>18
<1> QED BY <1>16, <1>17, <1>19 DEF AvpInv

(* A fork names the AVPs of its base, for the same fields.                 *)
LEMMA AppendKeepsAvps ==
  ASSUME TypeOK, AvpInv, NEW base \in Rev, NEW new \in Rev,
         AppendRevision(base, new)
  PROVE  AvpInv'
<1> USE AppendEffect
<1>1. \A q \in Rev : \E p \in Rev : avps'[q] = avps[p]
  OBVIOUS
<1>2. OneFieldPerAvp'
  BY <1>1 DEF AvpInv, OneFieldPerAvp
<1>3. AvpsAllocated'
  BY <1>1 DEF AvpInv, AvpsAllocated
<1> QED BY <1>2, <1>3 DEF AvpInv

(* In any interleaving, an AVP is named for one field only (inductive).    *)
THEOREM AvpInvariant == Spec => []AvpInv
<1>1. Init => AvpInv
  BY DEF Init, AvpInv, AvpsAllocated, OneFieldPerAvp
<1>2. TypeOK /\ TreeInv /\ AvpInv /\ [Next]_vars => AvpInv'
  <2> SUFFICES ASSUME TypeOK, TreeInv, AvpInv, [Next]_vars PROVE AvpInv'
    OBVIOUS
  <2>1. ASSUME NEW s \in Session, NEW r \in Rev, CreateRecord(s, r)
        PROVE  AvpInv'
    BY <2>1 DEF CreateRecord, AvpInv, AvpsAllocated, OneFieldPerAvp
  <2>2. CASE UNCHANGED docs
    BY <2>2 DEF docs, AvpInv, AvpsAllocated, OneFieldPerAvp
  <2>3. ASSUME NEW s \in Session, NEW new \in Rev, work[s] \in Rev,
               FirstEdit(s, new)
        PROVE  AvpInv'
    BY <2>3, AppendKeepsAvps DEF FirstEdit
  <2>4. ASSUME NEW base \in Rev, NEW new \in Rev, DeleteRecord(base, new)
        PROVE  AvpInv'
    BY <2>4, AppendKeepsAvps DEF DeleteRecord
  <2>5. ASSUME NEW base \in Rev, NEW new \in Rev, ApiCreateRevision(base, new)
        PROVE  AvpInv'
    BY <2>5, AppendKeepsAvps DEF ApiCreateRevision
  <2>6. ASSUME NEW s \in Session, NEW d \in FormData, work[s] \in Rev, Save(s, d)
        PROVE  AvpInv'
    BY <2>6, WriteReads DEF Save
  <2>7. ASSUME NEW r \in Rev, NEW d \in FormData, ApiUpdateRevision(r, d)
        PROVE  AvpInv'
    BY <2>7, WriteReads DEF ApiUpdateRevision
  <2> QED BY StepKinds, <2>1, <2>2, <2>3, <2>4, <2>5, <2>6, <2>7
          DEF OpenRecord, CloseRecord, vars
<1> QED BY <1>1, <1>2, TypeCorrect, TreeInvariant, PTL DEF Spec

(* What a form saved is what a read of its revision returns, field for     *)
(* field: kept, reverted, overwritten in place, new and dropped ones, even *)
(* if other forms and API clients work on the same revisions.              *)
THEOREM SavesTakeEffect == Spec => SaveTakesEffect
<1> DEFINE Takes == \A s \in Session, d \in FormData :
                      Save(s, d) => Content(work[s])' = d
<1>1. ASSUME TypeOK, TreeInv, AvpInv, NEW s \in Session, NEW d \in FormData,
             Save(s, d)
      PROVE  Content(work[s])' = d
  <2>1. work[s] \in Rev /\ WriteRevision(work[s], d) /\ work' = work
    BY <1>1 DEF Save, WriteRevision, TypeOK
  <2>2. PICK r \in Rev : r = work[s]
    BY <2>1
  <2>3. Content(r)' = d
    BY <1>1, <2>1, <2>2, WriteReads
  <2> QED BY <2>1, <2>2, <2>3
<1>2. TypeOK /\ TreeInv /\ AvpInv /\ [Next]_vars => [Takes]_vars
  BY <1>1
<1>3. Spec => [][Takes]_vars
  <2> HIDE DEF Takes
  <2> QED BY <1>2, TypeCorrect, TreeInvariant, AvpInvariant, PTL DEF Spec
<1> QED BY <1>3 DEF SaveTakesEffect

-----------------------------------------------------------------------------
(* The line of ancestors of a revision.                                    *)

(* M maps every revision to itself and, if it has a parent, what M maps    *)
(* its parent to: the equation that defines Line.                          *)
Follows(M) ==
  M = [r \in Rev |-> IF parent[r] = None THEN {r} ELSE {r} \cup M[parent[r]]]

(* The equation has a solution and only one, so that it defines Line.  It  *)
(* would have several if the parents formed a cycle.                       *)
OneLine == \E L : \A M : Follows(M) <=> M = L

(* Then Line is that solution.                                             *)
LEMMA LineFollows ==
  ASSUME OneLine
  PROVE  Follows(Line) /\ \A M : Follows(M) => M = Line
<1>1. PICK L : \A M : Follows(M) <=> M = L
  BY DEF OneLine
<1>2. Line = CHOOSE M : Follows(M)
  BY DEF Line, Follows
<1> QED BY <1>1, <1>2

(* What Line is, revision by revision.                                     *)
LEMMA LineUnfold ==
  ASSUME TypeOK, TreeInv, OneLine
  PROVE  \A r \in Rev : Line[r] = IF parent[r] = None THEN {r}
                                  ELSE {r} \cup Line[parent[r]]
BY LineFollows DEF Follows

(* A revision is on its line, and its parent's line is part of it.         *)
LEMMA LineContains ==
  ASSUME TypeOK, TreeInv, OneLine, NEW r \in Rev
  PROVE  /\ r \in Line[r]
         /\ parent[r] # None => Line[parent[r]] \subseteq Line[r]
<1>1. Line[r] = IF parent[r] = None THEN {r} ELSE {r} \cup Line[parent[r]]
  BY LineUnfold
<1> QED BY <1>1

(* The lines only depend on the parents.                                   *)
LEMMA SameParentsSameLines ==
  ASSUME OneLine, parent' = parent PROVE OneLine' /\ Line' = Line
<1>1. \A M : Follows(M)' <=> Follows(M)
  BY DEF Follows
<1>2. OneLine'
  <2>1. PICK L : \A M : Follows(M) <=> M = L
    BY DEF OneLine
  <2>2. \A M : Follows(M)' <=> M = L
    BY <1>1, <2>1
  <2> QED BY <2>2 DEF OneLine
<1>3. Line = (CHOOSE M : Follows(M)) /\ Line' = CHOOSE M : Follows(M)'
  BY DEF Line, Follows
<1> QED BY <1>1, <1>2, <1>3

(* A fork adds a line and changes no other.                                *)
LEMMA AppendExtendsLine ==
  ASSUME TypeOK, TreeInv, OneLine, NEW base \in Rev, NEW new \in Rev,
         AppendRevision(base, new)
  PROVE  /\ OneLine'
         /\ Line'[new] = {new} \cup Line[base]
         /\ \A q \in Rev \ {new} : Line'[q] = Line[q]
<1> USE AppendEffect
<1>1. base # new /\ base # None /\ new # None /\ parent[new] = None
  BY DEF TreeInv, TreeOK
<1>2. \A r \in Rev : parent[r] # new /\ (parent[r] # None => parent[r] \in Rev)
  BY DEF TreeInv, TreeOK, TypeOK
<1>3. /\ parent'[new] = base
      /\ \A q \in Rev \ {new} : parent'[q] = parent[q]
  OBVIOUS
<1> DEFINE Up(M, r) == IF parent[r] = None THEN {r} ELSE {r} \cup M[parent[r]]
           UpNew(M, r) == IF parent'[r] = None THEN {r} ELSE {r} \cup M[parent'[r]]
           N == [r \in Rev |-> IF r = new THEN {new} \cup Line[base] ELSE Line[r]]
<1>4. \A r \in Rev : Line[r] = Up(Line, r)
  BY LineUnfold
(* The old lines, with the new one added, solve the new equation ...       *)
<1>5. N = [r \in Rev |-> UpNew(N, r)]
  <2> SUFFICES ASSUME NEW r \in Rev PROVE N[r] = UpNew(N, r)
    <3>1. N = [r \in Rev |-> N[r]]
      OBVIOUS
    <3> HIDE DEF N, UpNew
    <3> QED BY <3>1
  <2>1. CASE r = new
    BY <2>1, <1>1, <1>3
  <2>2. CASE r # new
    <3>1. parent'[r] = parent[r] /\ N[r] = Up(Line, r)
      BY <2>2, <1>3, <1>4
    <3>2. parent[r] # None => N[parent[r]] = Line[parent[r]]
      BY <1>2
    <3> QED BY <3>1, <3>2
  <2> QED BY <2>1, <2>2
(* ... and a solution of the new equation, without the new line, solves    *)
(* the old one, which has no other solution.                               *)
<1>6. ASSUME NEW M, M = [r \in Rev |-> UpNew(M, r)] PROVE M = N
  <2> DEFINE O == [r \in Rev |-> IF r = new THEN {new} ELSE M[r]]
  <2>0. \A r \in Rev : M[r] = UpNew(M, r)
    BY <1>6
  <2>1. O = [r \in Rev |-> Up(O, r)]
    <3> SUFFICES ASSUME NEW r \in Rev PROVE O[r] = Up(O, r)
      <4>1. O = [r \in Rev |-> O[r]]
        OBVIOUS
      <4> HIDE DEF O, Up
      <4> QED BY <4>1
    <3>1. CASE r = new
      BY <3>1, <1>1
    <3>2. CASE r # new
      <4>1. O[r] = Up(M, r)
        BY <3>2, <1>3, <2>0
      <4>2. parent[r] # None => O[parent[r]] = M[parent[r]]
        BY <1>2
      <4> QED BY <4>1, <4>2
    <3> QED BY <3>1, <3>2
  <2>2. Follows(O)
    <3> HIDE DEF O
    <3> QED BY <2>1 DEF Follows
  <2>3. O = Line
    <3> HIDE DEF O
    <3> QED BY <2>2, LineFollows
  <2>4. \A r \in Rev \ {new} : M[r] = Line[r]
    BY <2>3
  <2>5. M[new] = {new} \cup Line[base]
    BY <2>0, <2>4, <1>1, <1>3
  <2>6. M = [r \in Rev |-> M[r]]
    <3> HIDE DEF UpNew
    <3> QED BY <1>6
  <2>7. \A r \in Rev : M[r] = N[r]
    BY <2>4, <2>5
  <2> QED BY <2>6, <2>7
<1>7. \A M : Follows(M)' <=> M = N
  <2> SUFFICES ASSUME NEW M PROVE Follows(M)' <=> M = N
    OBVIOUS
  <2>1. Follows(M)' <=> M = [r \in Rev |-> UpNew(M, r)]
    BY DEF Follows
  <2> HIDE DEF N, UpNew
  <2> QED BY <2>1, <1>5, <1>6
<1>8. OneLine'
  <2> HIDE DEF N
  <2> QED BY <1>7 DEF OneLine
<1>9. Line' = N
  <2>1. Line' = CHOOSE M : Follows(M)'
    BY DEF Line, Follows
  <2> HIDE DEF N
  <2> QED BY <2>1, <1>7
<1> QED BY <1>1, <1>8, <1>9

(* Every AVP a revision names was written for a revision of its line.      *)
OwnersOnLine ==
  \A r \in Rev, f \in Field : avps[r][f] # None => owner[avps[r][f]] \in Line[r]

LineInv == OneLine /\ OwnersOnLine

(* A fork names AVPs of its base's line, which is part of its own.         *)
LEMMA AppendKeepsOwners ==
  ASSUME TypeOK, TreeInv, LineInv, NEW base \in Rev, NEW new \in Rev,
         AppendRevision(base, new)
  PROVE  LineInv'
<1> USE AppendEffect
<1>1. /\ OneLine' /\ Line'[new] = {new} \cup Line[base]
      /\ \A q \in Rev \ {new} : Line'[q] = Line[q]
  BY AppendExtendsLine DEF LineInv
<1>2. base # new
  OBVIOUS
<1>3. \A f \in Field : avps'[new][f] # None => owner'[avps'[new][f]] \in Line'[new]
  BY <1>1, <1>2 DEF LineInv, OwnersOnLine
<1>4. \A q \in Rev \ {new}, f \in Field :
        avps'[q][f] # None => owner'[avps'[q][f]] \in Line'[q]
  BY <1>1 DEF LineInv, OwnersOnLine
<1>5. OwnersOnLine'
  BY <1>3, <1>4 DEF OwnersOnLine
<1> QED BY <1>1, <1>5 DEF LineInv

(* A save names AVPs of the revision, of its parent, or new ones.          *)
LEMMA WriteKeepsOwners ==
  ASSUME TypeOK, TreeInv, AvpInv, LineInv,
         NEW r \in Rev, NEW d \in FormData, WriteRevision(r, d)
  PROVE  LineInv'
<1> USE WriteEffect
<1>1. parent' = parent
  OBVIOUS
<1>2. OneLine' /\ Line' = Line
  BY <1>1, SameParentsSameLines DEF LineInv
<1>3. \A q \in Rev : q \in Line[q]
  BY LineContains DEF LineInv
<1>4. \A q \in Rev, f \in Field : avps[q][f] # None =>
        owner'[avps[q][f]] = owner[avps[q][f]]
  BY DEF AvpInv, AvpsAllocated, TypeOK, MapOrNone
<1>5. ASSUME NEW f \in Field, avps'[r][f] # None
      PROVE  owner'[avps'[r][f]] \in Line[r]
  <2>1. CASE avps'[r][f] = avps[r][f]
    BY <2>1, <1>4, <1>5 DEF LineInv, OwnersOnLine
  <2>2. CASE avps'[r][f] = ParentAvp(r, f)
    <3>1. parent[r] \in Rev /\ parent[r] # None /\ avps'[r][f] = avps[parent[r]][f]
      BY <2>2, <1>5 DEF ParentAvp, TypeOK
    <3>2. owner'[avps'[r][f]] \in Line[parent[r]]
      BY <3>1, <1>4, <1>5 DEF LineInv, OwnersOnLine
    <3> QED BY <3>1, <3>2, LineContains DEF LineInv
  <2>3. CASE owner[avps'[r][f]] = None /\ owner'[avps'[r][f]] = r
    BY <2>3, <1>3
  <2> QED BY <1>5, <2>1, <2>2, <2>3
<1>6. \A q \in Rev \ {r}, f \in Field :
        avps'[q][f] # None => owner'[avps'[q][f]] \in Line[q]
  BY <1>4 DEF LineInv, OwnersOnLine
<1>7. OwnersOnLine'
  BY <1>2, <1>5, <1>6 DEF OwnersOnLine
<1> QED BY <1>2, <1>7 DEF LineInv

(* The invariant on lines only looks at the parents, maps and owners.      *)
LEMMA LineInvUnchanged ==
  ASSUME LineInv, UNCHANGED <<parent, avps, owner>> PROVE LineInv'
<1>1. OneLine' /\ Line' = Line
  BY SameParentsSameLines DEF LineInv
<1> QED BY <1>1 DEF LineInv, OwnersOnLine

(* Whoever forks and saves, a revision names only AVPs written for it or   *)
(* for a revision it descends from, each for one field only: no value      *)
(* crosses from one branch of a conflict, or one field, into another.      *)
THEOREM NoValueCrossesBranches == Spec => []AvpsOfOwnLine
<1>1. ASSUME Init PROVE LineInv
  <2>1. \A M : Follows(M) <=> M = [r \in Rev |-> {r}]
    BY <1>1 DEF Init, Follows
  <2>2. OwnersOnLine
    BY <1>1 DEF Init, OwnersOnLine
  <2> QED BY <2>1, <2>2 DEF LineInv, OneLine
<1>2. TypeOK /\ TreeInv /\ AvpInv /\ LineInv /\ [Next]_vars => LineInv'
  <2> SUFFICES ASSUME TypeOK, TreeInv, AvpInv, LineInv, [Next]_vars PROVE LineInv'
    OBVIOUS
  <2>1. CASE UNCHANGED <<parent, avps, owner>>
    BY <2>1, LineInvUnchanged
  <2>2. ASSUME NEW s \in Session, NEW new \in Rev, work[s] \in Rev,
               FirstEdit(s, new)
        PROVE  LineInv'
    BY <2>2, AppendKeepsOwners DEF FirstEdit
  <2>3. ASSUME NEW base \in Rev, NEW new \in Rev, DeleteRecord(base, new)
        PROVE  LineInv'
    BY <2>3, AppendKeepsOwners DEF DeleteRecord
  <2>4. ASSUME NEW base \in Rev, NEW new \in Rev, ApiCreateRevision(base, new)
        PROVE  LineInv'
    BY <2>4, AppendKeepsOwners DEF ApiCreateRevision
  <2>5. ASSUME NEW s \in Session, NEW d \in FormData, work[s] \in Rev, Save(s, d)
        PROVE  LineInv'
    BY <2>5, WriteKeepsOwners DEF Save
  <2>6. ASSUME NEW r \in Rev, NEW d \in FormData, ApiUpdateRevision(r, d)
        PROVE  LineInv'
    BY <2>6, WriteKeepsOwners DEF ApiUpdateRevision
  <2> QED BY StepKinds, <2>1, <2>2, <2>3, <2>4, <2>5, <2>6
          DEF CreateRecord, OpenRecord, CloseRecord, docs, vars
<1>3. TypeOK /\ AvpInv /\ LineInv => AvpsOfOwnLine
  BY DEF TypeOK, AvpInv, OneFieldPerAvp, LineInv, OwnersOnLine, AvpsOfOwnLine
<1> QED BY <1>1, <1>2, <1>3, TypeCorrect, TreeInvariant, AvpInvariant, PTL DEF Spec

-----------------------------------------------------------------------------
(* A record open in one form at a time.                                    *)

(* When exclusive, a revision is appended to the only head, and by nobody  *)
(* but the one open form.                                                  *)
LEMMA ExclusiveAppend ==
  ASSUME TypeOK, TreeInv, ExclusiveInv, exclusive,
         NEW base \in heads, NEW new \in Rev, AppendRevision(base, new)
  PROVE  heads' = {new} /\ NoConflict' /\ OwnOrInherited'
<1> USE AppendEffect
<1>0. base \in Rev
  BY DEF TypeOK
<1>1. heads' = {new}
  BY <1>0 DEF ExclusiveInv, NoConflict
<1>2. ASSUME NEW r \in revisions, NEW f \in Field, avps'[r][f] # None
      PROVE  /\ owner'[avps'[r][f]] = r \/ avps'[r][f] = ParentAvp(r, f)'
             /\ owner'[avps'[r][f]] \in {r} \cup (revisions' \ heads')
  <2>1. r # new /\ avps'[r] = avps[r] /\ parent'[r] = parent[r]
    BY <1>0 DEF TypeOK
  <2>2. ParentAvp(r, f)' = ParentAvp(r, f)
    BY <1>0, <2>1 DEF ParentAvp, TreeInv, TreeOK, TypeOK
  <2> QED BY <1>0, <1>1, <1>2, <2>1, <2>2 DEF ExclusiveInv, OwnOrInherited
<1>3. ASSUME NEW f \in Field, avps'[new][f] # None
      PROVE  /\ avps'[new][f] = ParentAvp(new, f)'
             /\ owner'[avps'[new][f]] \in revisions' \ heads'
  <2>1. avps'[new][f] = avps[base][f] /\ parent'[new] = base /\ base # new
    BY <1>0
  <2>2. avps'[base] = avps[base] /\ base # None
    BY <1>0
  <2>3. ParentAvp(new, f)' = avps[base][f]
    BY <2>1, <2>2 DEF ParentAvp
  <2>4. owner[avps[base][f]] \in {base} \cup (revisions \ heads)
    BY <1>0, <1>3, <2>1 DEF ExclusiveInv, OwnOrInherited
  <2> QED BY <1>0, <1>1, <2>1, <2>3, <2>4
<1>4. OwnOrInherited'
  BY <1>0, <1>2, <1>3 DEF OwnOrInherited
<1> QED BY <1>1, <1>4 DEF NoConflict

(* A save of the head leaves it with its own AVPs and its parent's.        *)
LEMMA ExclusiveWrite ==
  ASSUME TypeOK, TreeInv, OwnOrInherited,
         NEW r \in heads, NEW d \in FormData, WriteRevision(r, d)
  PROVE  OwnOrInherited'
<1>0. r \in Rev
  BY DEF TypeOK
<1> USE <1>0, WriteEffect
<1>1. \A q \in revisions : parent[q] # r
  BY DEF TreeInv, HeadsAreLeaves, Leaves
<1>2. \A q \in revisions, f \in Field : ParentAvp(q, f)' = ParentAvp(q, f)
  BY <1>1 DEF ParentAvp, TypeOK
<1>3. \A q \in revisions, f \in Field :
        avps[q][f] # None => /\ avps[q][f] \in Avp
                             /\ owner[avps[q][f]] # None
  BY DEF OwnOrInherited, TypeOK, MapOrNone
<1>4. ASSUME NEW q \in revisions, NEW f \in Field, avps'[q][f] # None, q # r
      PROVE  /\ owner'[avps'[q][f]] = q \/ avps'[q][f] = ParentAvp(q, f)'
             /\ owner'[avps'[q][f]] \in {q} \cup (revisions' \ heads')
  <2>1. avps'[q] = avps[q]
    BY <1>4 DEF TypeOK
  <2> QED BY <1>2, <1>3, <1>4, <2>1 DEF OwnOrInherited
<1>5. ASSUME NEW f \in Field, avps'[r][f] # None
      PROVE  /\ owner'[avps'[r][f]] = r \/ avps'[r][f] = ParentAvp(r, f)'
             /\ owner'[avps'[r][f]] \in {r} \cup (revisions' \ heads')
  <2>1. CASE avps'[r][f] = avps[r][f]
    BY <1>2, <1>3, <1>5, <2>1 DEF OwnOrInherited
  <2>2. CASE avps'[r][f] = ParentAvp(r, f)
    <3>1. parent[r] \in revisions \ heads
      BY <1>5, <2>2 DEF ParentAvp, TreeInv, TreeOK, HeadsAreLeaves, Leaves
    <3>2. avps'[r][f] = avps[parent[r]][f]
      BY <3>1, <2>2 DEF ParentAvp, TypeOK
    <3>3. owner[avps'[r][f]] \in {parent[r]} \cup (revisions \ heads)
      BY <3>1, <3>2, <1>5 DEF OwnOrInherited
    <3>4. owner'[avps'[r][f]] = owner[avps'[r][f]]
      BY <1>3, <1>5, <3>1, <3>2
    <3> QED BY <1>2, <2>2, <3>1, <3>3, <3>4
  <2>3. CASE owner[avps'[r][f]] = None /\ owner'[avps'[r][f]] = r
    BY <2>3
  <2> QED BY <1>5, <2>1, <2>2, <2>3
<1> QED BY <1>4, <1>5 DEF OwnOrInherited

(* With a record open in one form at a time there is never a conflict, and *)
(* a head holds only AVPs its parent holds or that were written for it.    *)
THEOREM ExclusiveCorrect == Spec => []ExclusiveInv
<1>1. Init => TreeInv /\ ExclusiveInv
  BY DEF Init, TreeInv, TreeOK, HeadsAreLeaves, Leaves, TombstoneStaysHead,
         ExclusiveInv, NoConflict, OwnOrInherited, OneFormOnAHead
<1>2. TypeOK /\ TreeInv /\ ExclusiveInv /\ [Next]_vars => ExclusiveInv'
  <2> SUFFICES ASSUME TypeOK, TreeInv, ExclusiveInv, [Next]_vars, exclusive
               PROVE  ExclusiveInv'
    BY NextKeepsMode DEF ExclusiveInv
  <2>1. ASSUME NEW s \in Session, NEW r \in Rev, CreateRecord(s, r)
        PROVE  ExclusiveInv'
    BY <2>1 DEF CreateRecord, ExclusiveInv, NoConflict, OwnOrInherited,
                OneFormOnAHead, TreeInv, TreeOK, TypeOK
  <2>2. ASSUME NEW s \in Session, NEW h \in Rev, OpenRecord(s, h)
        PROVE  ExclusiveInv'
    BY <2>2 DEF OpenRecord, Alone, docs, ExclusiveInv, NoConflict,
                OwnOrInherited, ParentAvp, OneFormOnAHead, TypeOK
  <2>3. ASSUME NEW s \in Session, CloseRecord(s)
        PROVE  ExclusiveInv'
    BY <2>3 DEF CloseRecord, docs, ExclusiveInv, NoConflict,
                OwnOrInherited, ParentAvp, OneFormOnAHead, TypeOK
  <2>4. ASSUME NEW s \in Session, NEW new \in Rev, work[s] \in Rev,
               FirstEdit(s, new)
        PROVE  ExclusiveInv'
    <3>1. work[s] \in heads /\ AppendRevision(work[s], new)
      BY <2>4 DEF FirstEdit, ExclusiveInv, OneFormOnAHead
    <3>2. heads' = {new} /\ NoConflict' /\ OwnOrInherited'
      BY <3>1, ExclusiveAppend
    <3>3. OneFormOnAHead'
      BY <2>4, <3>2 DEF FirstEdit, ExclusiveInv, OneFormOnAHead, TypeOK
    <3> QED BY <3>2, <3>3 DEF ExclusiveInv
  <2>5. ASSUME NEW base \in Rev, NEW new \in Rev, DeleteRecord(base, new)
        PROVE  ExclusiveInv'
    <3>1. base \in heads /\ AppendRevision(base, new)
      BY <2>5 DEF DeleteRecord
    <3>2. heads' = {new} /\ NoConflict' /\ OwnOrInherited'
      BY <3>1, ExclusiveAppend
    <3>3. OneFormOnAHead'
      BY <2>5 DEF DeleteRecord, OneFormOnAHead
    <3> QED BY <3>2, <3>3 DEF ExclusiveInv
  <2>6. ASSUME NEW s \in Session, NEW d \in FormData, work[s] \in Rev, Save(s, d)
        PROVE  ExclusiveInv'
    <3>1. work[s] \in heads /\ WriteRevision(work[s], d)
      BY <2>6 DEF Save, ExclusiveInv, OneFormOnAHead
    <3>2. OwnOrInherited'
      BY <3>1, ExclusiveWrite DEF ExclusiveInv
    <3>3. NoConflict' /\ OneFormOnAHead'
      BY <2>6, <3>1, WriteEffect DEF Save, ExclusiveInv, NoConflict, OneFormOnAHead
    <3> QED BY <3>2, <3>3 DEF ExclusiveInv
  <2>7. CASE UNCHANGED vars
    BY <2>7 DEF vars, docs, ExclusiveInv, NoConflict, OwnOrInherited,
                ParentAvp, OneFormOnAHead
  <2> QED BY StepKinds, <2>1, <2>2, <2>3, <2>4, <2>5, <2>6, <2>7
          DEF ApiCreateRevision, ApiUpdateRevision
<1> QED BY <1>1, <1>2, TypeCorrect, TreeInvariant, PTL DEF Spec

(* With a record open in one form at a time, no step changes what any      *)
(* revision reads except the leaf being edited: history is frozen although *)
(* AVPs are shared between revisions and overwritten in place.             *)
THEOREM HistoryIsFrozen == Spec => OnlyEditedLeafChanges
<1> DEFINE Local == exclusive => \A r \in revisions : Content(r)' # Content(r) =>
              r \in heads /\ \E s \in Session : phase[s] = "editing" /\ work[s] = r
<1>1. ASSUME TypeOK, TreeInv, ExclusiveInv, [Next]_vars, exclusive PROVE Local
  <2> USE <1>1
  <2>1. ASSUME UNCHANGED <<avps, val>> PROVE Local
    BY <2>1 DEF Content
  <2>2. ASSUME NEW base \in Rev, NEW new \in Rev, AppendRevision(base, new)
        PROVE  Local
    BY <2>2, AppendEffect DEF Content, TypeOK
  <2>3. ASSUME NEW s \in Session, NEW d \in FormData, work[s] \in Rev, Save(s, d)
        PROVE  Local
    <3> DEFINE r == work[s]
    <3>1. r \in heads /\ phase[s] = "editing" /\ WriteRevision(r, d)
      BY <2>3 DEF Save, ExclusiveInv, OneFormOnAHead
    <3>2. ASSUME NEW q \in revisions, q # r, NEW f \in Field, avps[q][f] # None
          PROVE  val'[avps[q][f]] = val[avps[q][f]]
      <4> DEFINE a == avps[q][f]
      <4>1. a \in Avp /\ owner[a] \in revisions /\ owner[a] # r
        BY <3>1, <3>2 DEF ExclusiveInv, OwnOrInherited, TypeOK, MapOrNone
      <4>2. owner[a] # None
        BY <4>1 DEF TypeOK
      <4>3. ASSUME NEW g \in Field, avps[r][g] = a,
                   parent[r] = None \/ a # ParentAvp(r, g)
            PROVE  FALSE
        <5>1. owner[a] = r \/ a = ParentAvp(r, g)
          BY <3>1, <3>2, <4>3 DEF ExclusiveInv, OwnOrInherited, TypeOK
        <5>2. parent[r] = None /\ ParentAvp(r, g) = None
          BY <5>1, <4>1, <4>3 DEF ParentAvp
        <5> QED BY <5>1, <5>2, <4>1, <3>2
      <4> QED BY <2>3, <3>1, <4>1, <4>2, <4>3, WriteEffect
    <3>3. ASSUME NEW q \in revisions, q # r PROVE Content(q)' = Content(q)
      <4>1. avps'[q] = avps[q]
        BY <2>3, <3>1, <3>3, WriteEffect DEF TypeOK
      <4> QED BY <4>1, <3>2, <3>3 DEF Content
    <3> QED BY <3>1, <3>3
  <2> QED BY StepKinds, <2>1, <2>2, <2>3
          DEF CreateRecord, OpenRecord, CloseRecord, FirstEdit, DeleteRecord,
              ApiCreateRevision, ApiUpdateRevision, vars, docs
<1>2. TypeOK /\ TreeInv /\ ExclusiveInv /\ [Next]_vars => [Local]_vars
  BY <1>1
<1>3. Spec => []ExclusiveInv
  BY ExclusiveCorrect
<1>4. Spec => [][Local]_vars
  <2> HIDE DEF Local
  <2> QED BY <1>2, <1>3, TypeCorrect, TreeInvariant, PTL DEF Spec
<1> QED BY <1>4 DEF OnlyEditedLeafChanges
=============================================================================
