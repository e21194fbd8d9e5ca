------------------------ MODULE ContextualLayersProofs ------------------------
(***************************************************************************)
(* Theorems about ContextualLayers, for any sets of layers, contents,      *)
(* calls and clean-ups, any number of transfers at once and any number of  *)
(* restarts of the app.                                                    *)
(***************************************************************************)
EXTENDS ContextualLayers, FiniteSetTheorems, SequenceTheorems, TLAPS

USE NoneIsNew, NumbersAreNatural, TasksDiffer

-----------------------------------------------------------------------------
(* Taking one element out of a queue.                                      *)

(* The first of a queue leaves it: the others move up.                     *)
LEMMA RemoveHead ==
  ASSUME NEW S, NEW s \in Seq(S), s # <<>>, NEW e, Head(s) = e
  PROVE  RemoveFirst(s, e) = Tail(s)
<1> DEFINE I == {i \in 1..Len(s) : s[i] = e}
<1>1. 1 \in I
  OBVIOUS
<1>2. SelectInSeq(s, LAMBDA v : v = e) = 1
  <2>1. Min(I) = 1
    BY <1>1 DEF Min
  <2> QED BY <1>1, <2>1 DEF SelectInSeq
<1>3. RemoveFirst(s, e) = RemoveAt(s, 1)
  BY <1>1, <1>2 DEF RemoveFirst
<1>4. RemoveAt(s, 1) = Tail(s)
  BY DEF RemoveAt
<1> QED BY <1>3, <1>4

(* An element leaves a queue it stands in at most once: it is gone, the    *)
(* others are still there, once each.                                      *)
LEMMA RemoveOnly ==
  ASSUME NEW S, NEW s \in Seq(S), NEW e,
         \A i, j \in DOMAIN s : s[i] = s[j] => i = j
  PROVE  LET t == RemoveFirst(s, e)
         IN  /\ t \in Seq(S)
             /\ t # <<>> => s # <<>>
             /\ \A i \in DOMAIN t : t[i] # e /\ \E j \in DOMAIN s : s[j] = t[i]
             /\ \A i, j \in DOMAIN t : t[i] = t[j] => i = j
<1>1. CASE \A i \in 1..Len(s) : s[i] # e
  <2>1. RemoveFirst(s, e) = s
    BY <1>1 DEF RemoveFirst
  <2> QED BY <1>1, <2>1
<1>2. CASE \E i \in 1..Len(s) : s[i] = e
  <2>1. PICK k \in 1..Len(s) : s[k] = e
    BY <1>2
  <2> DEFINE I == {i \in 1..Len(s) : s[i] = e}
             t == RemoveAt(s, k)
  <2>2. I = {k}
    BY <2>1
  <2>3. SelectInSeq(s, LAMBDA v : v = e) = k
    <3>1. Min(I) = k
      BY <2>2 DEF Min
    <3> QED BY <2>2, <3>1 DEF SelectInSeq
  <2>4. RemoveFirst(s, e) = t
    BY <2>1, <2>3 DEF RemoveFirst
  <2>5. /\ t \in Seq(S) /\ Len(t) = Len(s) - 1
        /\ \A i \in 1..Len(t) : t[i] = IF i < k THEN s[i] ELSE s[i + 1]
    <3> DEFINE a == SubSeq(s, 1, k - 1)
               b == SubSeq(s, k + 1, Len(s))
    <3>1. /\ a \in Seq(S) /\ Len(a) = k - 1
          /\ \A i \in 1..(k - 1) : a[i] = s[i]
      BY SubSeqProperties
    <3>2. /\ b \in Seq(S) /\ Len(b) = Len(s) - k
          /\ \A i \in 1..(Len(s) - k) : b[i] = s[k + i]
      BY SubSeqProperties
    <3>3. t = a \o b
      BY DEF RemoveAt
    <3>4. Len(s) \in Nat /\ k \in Nat
      OBVIOUS
    <3> HIDE DEF a, b, t
    <3>5. /\ t \in Seq(S) /\ Len(t) = Len(s) - 1
          /\ \A i \in 1..(Len(s) - 1) : t[i] = IF i <= k - 1 THEN a[i] ELSE b[i - (k - 1)]
      <4>1. /\ t \in Seq(S) /\ Len(t) = Len(a) + Len(b)
            /\ \A i \in 1..(Len(a) + Len(b)) :
                 t[i] = IF i <= Len(a) THEN a[i] ELSE b[i - Len(a)]
        <5>1. a \in Seq(S) /\ b \in Seq(S)
          BY <3>1, <3>2
        <5>2. /\ a \o b \in Seq(S) /\ Len(a \o b) = Len(a) + Len(b)
              /\ \A i \in 1..(Len(a) + Len(b)) :
                   (a \o b)[i] = IF i <= Len(a) THEN a[i] ELSE b[i - Len(a)]
          BY <5>1
        <5> QED BY <3>3, <5>2
      <4>2. Len(a) + Len(b) = Len(s) - 1
        BY <3>1, <3>2, <3>4
      <4> QED BY <4>1, <4>2, <3>1
    <3>6. ASSUME NEW i \in 1..(Len(s) - 1)
          PROVE  t[i] = IF i < k THEN s[i] ELSE s[i + 1]
      <4>1. CASE i < k
        BY <4>1, <3>1, <3>4, <3>5
      <4>2. CASE i >= k
        <5>1. i - (k - 1) \in 1..(Len(s) - k) /\ k + (i - (k - 1)) = i + 1
          BY <4>2, <3>4
        <5>2. t[i] = b[i - (k - 1)]
          BY <3>4, <3>5, <4>2
        <5>3. b[i - (k - 1)] = s[k + (i - (k - 1))]
          BY <3>2, <5>1
        <5>4. ~(i < k)
          BY <3>4, <4>2
        <5> QED BY <5>1, <5>2, <5>3, <5>4
      <4> QED BY <4>1, <4>2, <3>4
    <3> QED BY <3>5, <3>6
  <2>6. \A i \in 1..Len(t) : t[i] # e /\ \E j \in 1..Len(s) : s[j] = t[i]
    <3>1. Len(s) \in Nat /\ k \in Nat /\ k <= Len(s) /\ DOMAIN s = 1..Len(s)
      OBVIOUS
    <3>2. s[k] = e
      BY <2>1
    <3> HIDE DEF t
    <3>3. ASSUME NEW i \in 1..Len(t)
          PROVE  \E j \in 1..Len(s) : j # k /\ t[i] = s[j]
      <4>1. i \in Nat /\ 1 <= i /\ i <= Len(s) - 1
        BY <2>5, <3>1, <3>3
      <4>2. CASE i < k
        <5>1. i \in 1..Len(s) /\ i # k /\ t[i] = s[i]
          BY <2>5, <3>1, <4>1, <4>2
        <5> QED BY <5>1
      <4>3. CASE ~(i < k)
        <5>1. i + 1 \in 1..Len(s) /\ i + 1 # k /\ t[i] = s[i + 1]
          BY <2>5, <3>1, <4>1, <4>3
        <5> QED BY <5>1
      <4> QED BY <4>2, <4>3
    <3> QED BY <3>1, <3>2, <3>3
  <2>7. \A i, j \in 1..Len(t) : t[i] = t[j] => i = j
    <3>1. Len(s) \in Nat /\ k \in Nat /\ DOMAIN s = 1..Len(s)
      OBVIOUS
    <3> HIDE DEF t
    <3> QED BY <2>5, <3>1
  <2>8. s # <<>>
    BY <2>1
  <2> HIDE DEF t
  <2>9. DOMAIN t = 1..Len(t) /\ DOMAIN s = 1..Len(s)
    BY <2>5
  <2> QED BY <2>4, <2>5, <2>6, <2>7, <2>8, <2>9
<1> QED BY <1>1, <1>2

-----------------------------------------------------------------------------
(* The invariant.                                                          *)

CallState ==
  [at : {"new", "chain", "slot", "grant", "transfer", "write", "undo",
         "fresh", "reuse", "ended"},
   asset : Asset \cup {None}, hash : Hash \cup {None}, cancelled : BOOLEAN,
   left : {"none", "running", "remove"}]

Transferring == {"grant", "transfer", "write", "undo"}

Holders == {d \in Download : dl[d].at \in Transferring}

SlotInv ==
  /\ IsFiniteSet(Holders) /\ active = Cardinality(Holders)
  /\ waiters # <<>> => active = MaxTransfers
  /\ WaitersWait

Inv ==
  /\ CallsOK /\ OneWorksOnAnAsset /\ SlotInv /\ HolderPurges
  /\ NamedWhenWritten /\ NeverTorn

(* A call that goes on leaves the chain of its asset if it is done, and it *)
(* is the first of that chain; nothing else changes in any chain.          *)
LEMMA LeaveEffect ==
  ASSUME TypeOK, NEW a \in Asset, NEW d \in Download, NEW state,
         IsFirst(d, chain[a]), Leave(a, d, state)
  PROVE  /\ chain' \in [Asset -> Seq(Download)]
         /\ \A b \in Asset \ {a} : chain'[b] = chain[b]
         /\ ~Finished(state) => chain'[a] = chain[a]
         /\ Finished(state) => chain'[a] = Tail(chain[a])
<1>1. RemoveFirst(chain[a], d) = Tail(chain[a])
  BY RemoveHead DEF TypeOK, IsFirst
<1> QED BY <1>1 DEF TypeOK, Leave, IsFirst

(* The slot a call gives back goes to the first waiter, or is free.        *)
LEMMA FreeSlotEffect ==
  ASSUME TypeOK, Inv, NEW d \in Holders, NEW state \in CallState,
         state.at \in {"fresh", "ended"}, FreeSlot(d, state)
  PROVE  /\ dl' \in [Download -> CallState] /\ dl'[d] = state
         /\ \A e \in Download \ {d} :
              \/ dl'[e] = dl[e]
              \/ dl[e].at = "slot" /\ dl'[e] = [dl[e] EXCEPT !.at = "grant"]
         /\ active' \in 0..MaxTransfers /\ waiters' \in Seq(Download)
         /\ SlotInv'
<1> DEFINE Target == IF waiters = <<>> THEN {} ELSE {Head(waiters)}
<1>0. /\ d \in Download /\ dl[d].at \in Transferring
      /\ dl \in [Download -> CallState]
  BY DEF Holders, TypeOK, CallState
<1>1. /\ dl' = [e \in Download |->
            IF e = d THEN state
            ELSE IF waiters # <<>> /\ e = Head(waiters) /\ dl[e].at = "slot"
            THEN [dl[e] EXCEPT !.at = "grant"] ELSE dl[e]]
      /\ active' = IF waiters = <<>> THEN active - 1 ELSE active
      /\ waiters' = IF waiters = <<>> THEN <<>> ELSE Tail(waiters)
  BY DEF FreeSlot, SlotsLeft
<1>2. \A e \in Download : [dl[e] EXCEPT !.at = "grant"] \in CallState
  BY <1>0 DEF CallState
<1>3. dl' \in [Download -> CallState] /\ dl'[d] = state
  BY <1>0, <1>1, <1>2
<1>4. \A e \in Download \ {d} :
        \/ dl'[e] = dl[e]
        \/ dl[e].at = "slot" /\ dl'[e] = [dl[e] EXCEPT !.at = "grant"]
  BY <1>0, <1>1
<1>5. waiters \in Seq(Download) /\ waiters' \in Seq(Download)
  BY <1>1 DEF TypeOK
<1>6. /\ \A i \in DOMAIN waiters : dl[waiters[i]].at = "slot"
      /\ \A i, j \in DOMAIN waiters : waiters[i] = waiters[j] => i = j
  BY DEF Inv, SlotInv, WaitersWait
<1>7. WaitersWait'
  <2>1. CASE waiters = <<>>
    BY <2>1, <1>1 DEF WaitersWait
  <2>2. CASE waiters # <<>>
    <3>1. /\ Len(waiters') = Len(waiters) - 1
          /\ \A i \in 1..Len(waiters') : waiters'[i] = waiters[i + 1]
      BY <2>2, <1>1, <1>5
    <3>2. \A i \in 1..Len(waiters') :
            /\ waiters'[i] \in Download /\ waiters'[i] # Head(waiters)
            /\ dl[waiters'[i]].at = "slot" /\ waiters'[i] # d
      <4> SUFFICES ASSUME NEW i \in 1..Len(waiters')
                   PROVE  /\ waiters'[i] \in Download /\ waiters'[i] # Head(waiters)
                          /\ dl[waiters'[i]].at = "slot" /\ waiters'[i] # d
        OBVIOUS
      <4>1. /\ waiters'[i] = waiters[i + 1] /\ i + 1 \in DOMAIN waiters
            /\ Head(waiters) = waiters[1] /\ 1 \in DOMAIN waiters /\ i + 1 # 1
        BY <2>2, <3>1, <1>5
      <4>2. waiters[i + 1] \in Download
        BY <4>1, <1>5
      <4> QED BY <4>1, <4>2, <1>0, <1>6 DEF Transferring
    <3>3. \A i \in 1..Len(waiters') : dl'[waiters'[i]] = dl[waiters'[i]]
      BY <3>2, <1>1
    <3>4. \A i, j \in 1..Len(waiters') : waiters'[i] = waiters'[j] => i = j
      BY <3>1, <1>5, <1>6
    <3> QED BY <3>2, <3>3, <3>4, <1>5 DEF WaitersWait
  <2> QED BY <2>1, <2>2
<1>8. Holders' = (Holders \ {d}) \cup Target
  <2>1. d \notin Holders'
    BY <1>3 DEF Holders, Transferring
  <2>2. ASSUME waiters # <<>>
        PROVE  Head(waiters) \in Download /\ dl[Head(waiters)].at = "slot"
               /\ dl'[Head(waiters)].at = "grant" /\ Head(waiters) # d
    <3>1. /\ Head(waiters) \in Download /\ dl[Head(waiters)].at = "slot"
          /\ Head(waiters) # d
      BY <2>2, <1>0, <1>5, <1>6 DEF Transferring
    <3>2. dl'[Head(waiters)] = [dl[Head(waiters)] EXCEPT !.at = "grant"]
      BY <2>2, <3>1, <1>1
    <3> QED BY <3>1, <3>2, <1>0 DEF CallState
  <2>3. ASSUME NEW e \in Download, e # d, e \notin Target
        PROVE  dl'[e] = dl[e]
    BY <2>3, <1>1
  <2> QED BY <2>1, <2>2, <2>3 DEF Holders, Transferring
<1>9. /\ IsFiniteSet(Holders) /\ active = Cardinality(Holders)
      /\ waiters # <<>> => active = MaxTransfers
      /\ active \in 0..MaxTransfers
  BY DEF Inv, SlotInv, TypeOK
<1>10. /\ IsFiniteSet(Holders \ {d})
       /\ Cardinality(Holders \ {d}) = Cardinality(Holders) - 1
  BY <1>9, FS_RemoveElement
<1>11. CASE waiters = <<>>
  <2>1. Holders' = Holders \ {d} /\ active' = active - 1 /\ waiters' = <<>>
    BY <1>11, <1>1, <1>8
  <2>2. active' = Cardinality(Holders') /\ IsFiniteSet(Holders')
    BY <2>1, <1>9, <1>10
  <2>3. active' \in 0..MaxTransfers
    BY <2>1, <2>2, <1>9, FS_CardinalityType
  <2> QED BY <2>1, <2>2, <2>3, <1>3, <1>4, <1>5, <1>7 DEF SlotInv
<1>12. CASE waiters # <<>>
  <2>1. Holders' = (Holders \ {d}) \cup {Head(waiters)} /\ active' = active
    BY <1>12, <1>1, <1>8
  <2>2. Head(waiters) \notin Holders
    BY <1>12, <1>5, <1>6 DEF Holders, Transferring
  <2>3. /\ IsFiniteSet(Holders')
        /\ Cardinality(Holders') = Cardinality(Holders \ {d}) + 1
    BY <2>1, <2>2, <1>10, FS_AddElement
  <2>4. active' = Cardinality(Holders')
    BY <2>1, <2>3, <1>9, <1>10
  <2> QED BY <1>12, <2>1, <2>3, <2>4, <1>3, <1>4, <1>5, <1>7, <1>9 DEF SlotInv
<1> QED BY <1>11, <1>12

(* When one call goes on, nobody else's turn on an asset is disturbed.     *)
LEMMA TurnsKept ==
  ASSUME TypeOK, OneWorksOnAnAsset, NEW d \in Download, dl[d].asset \in Asset,
         IsFirst(d, chain[dl[d].asset]),
         Leave(dl[d].asset, d, dl'[d]), dl'[d].asset = dl[d].asset,
         dl' \in [Download -> CallState], CallsOK,
         \A e \in Download \ {d} :
           dl'[e].asset = dl[e].asset /\ (Working(e)' => Working(e))
  PROVE  OneWorksOnAnAsset' /\ chain' \in [Asset -> Seq(Download)]
<1> DEFINE a == dl[d].asset
<1>1. /\ chain' \in [Asset -> Seq(Download)]
      /\ \A b \in Asset \ {a} : chain'[b] = chain[b]
      /\ ~Finished(dl'[d]) => chain'[a] = chain[a]
  BY LeaveEffect
<1>2. ASSUME NEW e \in Download \ {d}, Working(e)'
      PROVE  IsFirst(e, chain[dl[e].asset])'
  <2>1. Working(e) /\ dl'[e].asset = dl[e].asset
    BY <1>2
  <2>2. IsFirst(e, chain[dl[e].asset])
    BY <2>1 DEF OneWorksOnAnAsset
  <2>3. dl[e].asset \in Asset
    BY <2>1 DEF CallsOK, Working, New
  <2>4. dl[e].asset # a
    BY <2>2 DEF IsFirst
  <2> QED BY <1>1, <2>1, <2>2, <2>3, <2>4 DEF IsFirst
<1>3. ASSUME Working(d)' PROVE IsFirst(d, chain[dl[d].asset])'
  <2>1. ~Finished(dl'[d])
    BY <1>3 DEF Working, Finished
  <2> QED BY <1>1, <2>1 DEF IsFirst
<1> QED BY <1>1, <1>2, <1>3 DEF OneWorksOnAnAsset

(* Steps that neither take, hand on, give back nor wait for a slot.        *)
LEMMA SlotsKept ==
  ASSUME SlotInv, UNCHANGED <<active, waiters>>,
         \A e \in Download : /\ dl'[e].at \in Transferring <=> dl[e].at \in Transferring
                             /\ dl[e].at = "slot" => dl'[e].at = "slot",
         waiters \in Seq(Download)
  PROVE  SlotInv'
<1>1. Holders' = Holders
  BY DEF Holders
<1>2. WaitersWait'
  BY DEF SlotInv, WaitersWait
<1> QED BY <1>1, <1>2 DEF SlotInv

(* Steps that do not touch the index or what is deleted, and at most join  *)
(* the queue of the mutex.                                                 *)
LEMMA PurgesKept ==
  ASSUME TypeOK, HolderPurges, UNCHANGED <<index, purge>>,
         lock' = lock \/ \E t \in Task : lock' = Append(lock, t),
         \A d \in Download : dl[d].at \in {"fresh", "reuse"} => dl'[d].at \in {"fresh", "reuse"}
  PROVE  HolderPurges'
<1>1. ASSUME NEW t \in Task, HasLock(t) PROVE HasLock(t)'
  <2>1. lock \in Seq(Task) /\ lock # <<>> /\ Head(lock) = t
    BY <1>1 DEF HasLock, IsFirst, TypeOK
  <2>2. ASSUME NEW u \in Task PROVE Append(lock, u) # <<>> /\ Head(Append(lock, u)) = t
    BY <2>1
  <2> QED BY <2>1, <2>2 DEF HasLock, IsFirst
<1>2. \A a \in Asset : Named(a)' = Named(a)
  BY DEF Named
<1> QED BY <1>1, <1>2 DEF HolderPurges

(* No file the index names is taken away.                                  *)
Kept == \A a \in Asset : \A f \in Named(a) : disk[f] = "whole" => disk'[f] = "whole"

StepOK == TypeOK' /\ Inv' /\ Kept

LEMMA CallStep ==
  ASSUME TypeOK, Inv, NEW d \in Download, NEW a \in Asset, NEW h \in Hash, Call(d, a, h)
  PROVE  StepOK
<1> USE DEF Call, Inv
<1>0. /\ dl \in [Download -> CallState] /\ dl[d].at = "new" /\ dl[d].left = "none"
      /\ dl' = [dl EXCEPT ![d] = [New EXCEPT !.at = "chain", !.asset = a, !.hash = h]]
  BY DEF TypeOK, CallState, CallsOK, New
<1>1. /\ dl' \in [Download -> CallState]
      /\ dl'[d].at = "chain" /\ dl'[d].asset = a /\ dl'[d].hash = h /\ dl'[d].left = "none"
      /\ \A e \in Download \ {d} : dl'[e] = dl[e]
  <2> DEFINE called == [New EXCEPT !.at = "chain", !.asset = a, !.hash = h]
  <2>1. /\ called \in CallState /\ called.at = "chain" /\ called.asset = a
        /\ called.hash = h /\ called.left = "none"
    BY DEF New, CallState
  <2>2. dl' = [dl EXCEPT ![d] = called]
    BY <1>0
  <2> HIDE DEF called
  <2> QED BY <1>0, <2>1, <2>2
<1>2. /\ chain' \in [Asset -> Seq(Download)]
      /\ \A e \in Download, b \in Asset : IsFirst(e, chain[b]) => IsFirst(e, chain[b])'
  <2>1. chain \in [Asset -> Seq(Download)] /\ chain' = [chain EXCEPT ![a] = Append(@, d)]
    BY DEF TypeOK
  <2> HIDE DEF Call, Inv
  <2>2. /\ chain' \in [Asset -> Seq(Download)] /\ chain'[a] = Append(chain[a], d)
        /\ \A b \in Asset \ {a} : chain'[b] = chain[b]
    BY <2>1
  <2>3. ASSUME NEW e \in Download, NEW b \in Asset, IsFirst(e, chain[b])
        PROVE  IsFirst(e, chain[b])'
    <3>1. CASE b = a
      <4>1. chain[a] \in Seq(Download) /\ chain[a] # <<>> /\ Head(chain[a]) = e
        BY <2>1, <2>3, <3>1 DEF IsFirst
      <4>2. Append(chain[a], d) # <<>> /\ Head(Append(chain[a], d)) = e
        BY <4>1
      <4> QED BY <2>2, <3>1, <4>2 DEF IsFirst
    <3>2. CASE b # a
      BY <2>2, <2>3, <3>2 DEF IsFirst
    <3> QED BY <3>1, <3>2
  <2> QED BY <2>2, <2>3
<1>3. TypeOK'
  BY <1>1, <1>2 DEF TypeOK, CallState
<1>4. CallsOK'
  BY <1>1 DEF CallsOK
<1>5. OneWorksOnAnAsset'
  BY <1>1, <1>2 DEF OneWorksOnAnAsset, CallsOK, Working, New
<1>6. SlotInv'
  BY <1>0, <1>1, SlotsKept DEF Transferring, TypeOK
<1>7. HolderPurges'
  BY <1>0, <1>1, PurgesKept
<1>8. NamedWhenWritten'
  BY <1>0, <1>1 DEF NamedWhenWritten, FileOf
<1>9. NeverTorn' /\ Kept
  BY DEF NeverTorn, Named, Kept
<1> QED BY <1>3, <1>4, <1>5, <1>6, <1>7, <1>8, <1>9 DEF StepOK

(* A working call goes on in a step that touches no other call.            *)
LEMMA GoesEffect ==
  ASSUME TypeOK, Inv, NEW d \in Download, NEW state \in CallState,
         IsFirst(d, chain[dl[d].asset]), dl[d].at # "new",
         state.asset = dl[d].asset, state.hash = dl[d].hash,
         state.at # "new", state.left # "none" => state.at \in {"undo", "ended"},
         Goes(d, state)
  PROVE  /\ dl' \in [Download -> CallState] /\ dl'[d] = state
         /\ \A e \in Download \ {d} : dl'[e] = dl[e]
         /\ CallsOK' /\ OneWorksOnAnAsset' /\ chain' \in [Asset -> Seq(Download)]
<1>1. dl \in [Download -> CallState] /\ dl' = [dl EXCEPT ![d] = state]
  BY DEF TypeOK, CallState, Goes
<1>2. /\ dl' \in [Download -> CallState] /\ dl'[d] = state
      /\ \A e \in Download \ {d} : dl'[e] = dl[e]
  BY <1>1
<1>3. dl[d].asset \in Asset /\ dl[d].hash \in Hash
  BY DEF Inv, CallsOK
<1>4. CallsOK'
  BY <1>2, <1>3 DEF Inv, CallsOK
<1>5. Leave(dl[d].asset, d, dl'[d])
  BY <1>2 DEF Goes
<1>6. OneWorksOnAnAsset' /\ chain' \in [Asset -> Seq(Download)]
  BY <1>2, <1>3, <1>5, TurnsKept DEF Inv, Working
<1> QED BY <1>2, <1>4, <1>6

(* Whoever works on an asset is the first of its chain, so no one else     *)
(* works on it.                                                            *)
LEMMA WorkerIsAlone ==
  ASSUME Inv, NEW d \in Download, NEW e \in Download, Working(d), Working(e),
         dl[d].asset = dl[e].asset
  PROVE  d = e
BY DEF Inv, OneWorksOnAnAsset, IsFirst

(* A step of a working call d that writes or removes its file, which the   *)
(* index does not name: no named file, and nobody else's, is touched.      *)
LEMMA OwnFileOnly ==
  ASSUME TypeOK, Inv, NEW d \in Download, Working(d), index[dl[d].asset] # dl[d].hash,
         index' = index, \A f \in File : f # FileOf(d) => disk'[f] = disk[f],
         \A e \in Download \ {d} :
           /\ dl'[e].asset = dl[e].asset /\ dl'[e].hash = dl[e].hash
           /\ dl'[e].left = dl[e].left
           /\ \/ dl'[e].at = dl[e].at
              \/ dl[e].at = "slot" /\ dl'[e].at = "grant",
         dl'[d].asset = dl[d].asset, dl'[d].hash = dl[d].hash,
         dl'[d].at \in {"fresh", "reuse"} => disk'[FileOf(d)] # "partial"
  PROVE  NamedWhenWritten' /\ NeverTorn' /\ Kept
<1>1. dl[d].asset \in Asset /\ dl[d].hash \in Hash
  BY DEF Working, Inv, CallsOK, New
<1>2. \A a \in Asset : \A f \in Named(a) : f \in File /\ f # FileOf(d)
  BY <1>1 DEF Named, FileOf, File, TypeOK
<1>3. NeverTorn' /\ Kept
  BY <1>2 DEF NeverTorn, Kept, Named, Inv
<1>4. ASSUME NEW e \in Download \ {d}, dl'[e].at \in {"fresh", "reuse"}
      PROVE  disk'[FileOf(e)'] # "partial"
  <2>1. dl[e].at \in {"fresh", "reuse"} /\ FileOf(e)' = FileOf(e)
    BY <1>4 DEF FileOf
  <2>2. disk[FileOf(e)] # "partial"
    BY <2>1 DEF Inv, NamedWhenWritten
  <2>3. dl[e].asset # dl[d].asset
    BY <2>1, WorkerIsAlone DEF Working
  <2>4. FileOf(e) # FileOf(d)
    BY <2>3 DEF FileOf
  <2>5. FileOf(e) \in File
    BY <2>1 DEF Inv, CallsOK, FileOf, File
  <2> QED BY <2>1, <2>2, <2>4, <2>5
<1>5. NamedWhenWritten'
  <2>1. ASSUME NEW e \in Download,
               \/ dl'[e].at \in {"slot", "grant", "transfer", "write", "undo"}
               \/ dl'[e].left # "none"
        PROVE  index'[dl'[e].asset] # dl'[e].hash
    BY <2>1 DEF Inv, NamedWhenWritten
  <2>2. FileOf(d)' = FileOf(d)
    BY DEF FileOf
  <2> QED BY <1>4, <2>1, <2>2 DEF NamedWhenWritten
<1> QED BY <1>3, <1>5

(* The state of a call whose turn comes: not cancelled it may reuse the    *)
(* stored file, take a slot or wait for one.                               *)
LEMMA EnterStep ==
  ASSUME TypeOK, Inv, NEW d \in Download, Enter(d)
  PROVE  StepOK
<1> DEFINE To(at) == [dl[d] EXCEPT !.at = at]
<1>0. /\ dl \in [Download -> CallState] /\ dl[d].at = "chain" /\ dl[d].left = "none"
      /\ dl[d].asset \in Asset /\ dl[d].hash \in Hash
      /\ IsFirst(d, chain[dl[d].asset])
      /\ UNCHANGED <<native, index, disk, purge, restarts>>
  BY DEF Enter, TypeOK, CallState, Inv, CallsOK
<1>1. ASSUME NEW at \in {"ended", "reuse", "grant", "slot"}
      PROVE  /\ To(at) \in CallState /\ To(at).at = at /\ To(at).left = "none"
             /\ To(at).asset = dl[d].asset /\ To(at).hash = dl[d].hash
  BY <1>0 DEF CallState
<1> HIDE DEF To
<1>2. ASSUME NEW at \in {"ended", "reuse", "grant", "slot"}, Goes(d, To(at))
      PROVE  /\ dl' \in [Download -> CallState] /\ dl'[d] = To(at)
             /\ \A e \in Download \ {d} : dl'[e] = dl[e]
             /\ CallsOK' /\ OneWorksOnAnAsset' /\ chain' \in [Asset -> Seq(Download)]
  BY <1>0, <1>1, <1>2, GoesEffect
<1>3. ASSUME NEW at \in {"ended", "reuse", "grant", "slot"}, Goes(d, To(at)),
             lock' = lock \/ lock' = Append(lock, d),
             at \in {"grant", "slot"} => index[dl[d].asset] # dl[d].hash,
             at = "reuse" => index[dl[d].asset] = dl[d].hash,
             SlotInv', active' \in 0..MaxTransfers, waiters' \in Seq(Download)
      PROVE  StepOK
  <2>1. /\ dl' \in [Download -> CallState] /\ dl'[d] = To(at)
        /\ \A e \in Download \ {d} : dl'[e] = dl[e]
        /\ CallsOK' /\ OneWorksOnAnAsset' /\ chain' \in [Asset -> Seq(Download)]
    BY <1>2, <1>3
  <2>2. dl'[d].at = at /\ dl'[d].left = "none" /\ dl'[d].asset = dl[d].asset
        /\ dl'[d].hash = dl[d].hash
    BY <1>1, <2>1
  <2>3. HolderPurges'
    BY <1>0, <1>3, <2>1, PurgesKept DEF Inv, Task
  <2>4. NeverTorn' /\ Kept
    BY <1>0 DEF NeverTorn, Named, Kept, Inv
  <2>5. ASSUME at = "reuse" PROVE disk[FileOf(d)] # "partial"
    BY <1>0, <1>3, <2>5 DEF Inv, NeverTorn, Named, FileOf
  <2>6. NamedWhenWritten'
    <3>1. \A e \in Download \ {d} : FileOf(e)' = FileOf(e)
      BY <2>1 DEF FileOf
    <3>2. FileOf(d)' = FileOf(d)
      BY <2>2 DEF FileOf
    <3>3. NamedWhenWritten /\ UNCHANGED <<index, disk>>
      BY <1>0 DEF Inv
    <3>4. ASSUME NEW e \in Download
          PROVE  /\ dl'[e].at \in {"slot", "grant", "transfer", "write", "undo"}
                    \/ dl'[e].left # "none"  =>  index'[dl'[e].asset] # dl'[e].hash
                 /\ dl'[e].at \in {"fresh", "reuse"} => disk'[FileOf(e)'] # "partial"
      <4>1. CASE e = d
        BY <1>3, <2>2, <2>5, <3>2, <3>3, <4>1
      <4>2. CASE e # d
        BY <2>1, <3>1, <3>3, <4>2 DEF NamedWhenWritten
      <4> QED BY <4>1, <4>2
    <3> QED BY <3>4 DEF NamedWhenWritten
  <2>7. lock' \in Seq(Task)
    <3>1. lock \in Seq(Task) /\ d \in Task
      BY DEF TypeOK, Task
    <3> QED BY <1>3, <3>1
  <2>8. TypeOK'
    BY <1>0, <1>3, <2>1, <2>7 DEF TypeOK, CallState
  <2> QED BY <1>3, <2>1, <2>3, <2>4, <2>6, <2>8 DEF StepOK, Inv
<1>4. /\ active \in 0..MaxTransfers /\ waiters \in Seq(Download) /\ MaxTransfers \in Nat
      /\ SlotInv
  BY DEF TypeOK, Inv
<1>5. ASSUME NEW at \in {"ended", "reuse"}, Goes(d, To(at)), UNCHANGED <<active, waiters>>
      PROVE  SlotInv'
  <2>1. \A e \in Download : /\ dl'[e].at \in Transferring <=> dl[e].at \in Transferring
                            /\ dl[e].at = "slot" => dl'[e].at = "slot"
    BY <1>0, <1>1, <1>2, <1>5 DEF Transferring
  <2> QED BY <1>4, <1>5, <2>1, SlotsKept
<1>6. CASE dl[d].cancelled
  <2>1. Goes(d, To("ended")) /\ UNCHANGED <<active, waiters, lock>>
    BY <1>6 DEF Enter, To
  <2>2. SlotInv'
    BY <1>5, <2>1
  <2> QED BY <1>3, <1>4, <2>1, <2>2
<1>7. CASE ~dl[d].cancelled /\ index[dl[d].asset] = dl[d].hash
  <2>1. Goes(d, To("reuse")) /\ lock' = Append(lock, d) /\ UNCHANGED <<active, waiters>>
    BY <1>7 DEF Enter, To
  <2>2. SlotInv'
    BY <1>5, <2>1
  <2> QED BY <1>3, <1>4, <1>7, <2>1, <2>2
<1>8. CASE ~dl[d].cancelled /\ index[dl[d].asset] # dl[d].hash /\ active < MaxTransfers
  <2>1. /\ Goes(d, To("grant")) /\ active' = active + 1 /\ UNCHANGED <<waiters, lock>>
    BY <1>8 DEF Enter, To
  <2>2. /\ dl'[d].at = "grant" /\ \A e \in Download \ {d} : dl'[e] = dl[e]
    BY <1>1, <1>2, <2>1
  <2>3. Holders' = Holders \cup {d} /\ d \notin Holders
    BY <1>0, <2>2 DEF Holders, Transferring
  <2>4. IsFiniteSet(Holders') /\ Cardinality(Holders') = Cardinality(Holders) + 1
    BY <1>4, <2>3, FS_AddElement DEF SlotInv
  <2>5. waiters = <<>>
    BY <1>4, <1>8 DEF SlotInv
  <2>6. SlotInv'
    BY <1>4, <2>1, <2>4, <2>5 DEF SlotInv, WaitersWait
  <2> QED BY <1>3, <1>4, <1>8, <2>1, <2>6
<1>9. CASE ~dl[d].cancelled /\ index[dl[d].asset] # dl[d].hash /\ ~(active < MaxTransfers)
  <2>1. /\ Goes(d, To("slot")) /\ waiters' = Append(waiters, d) /\ UNCHANGED <<active, lock>>
    BY <1>9 DEF Enter, To
  <2>2. /\ dl'[d].at = "slot" /\ \A e \in Download \ {d} : dl'[e] = dl[e]
    BY <1>1, <1>2, <2>1
  <2>3. Holders' = Holders
    BY <1>0, <2>2 DEF Holders, Transferring
  <2>4. active = MaxTransfers
    BY <1>4, <1>9
  <2>5. WaitersWait'
    <3>1. /\ waiters' \in Seq(Download) /\ Len(waiters') = Len(waiters) + 1
          /\ \A i \in 1..Len(waiters) : waiters'[i] = waiters[i]
          /\ waiters'[Len(waiters) + 1] = d
      BY <1>4, <2>1
    <3>2. \A i \in 1..Len(waiters) : /\ waiters[i] \in Download /\ waiters[i] # d
                                     /\ dl[waiters[i]].at = "slot"
      BY <1>0, <1>4 DEF SlotInv, WaitersWait
    <3>3. \A i \in 1..Len(waiters') : dl'[waiters'[i]].at = "slot"
      BY <1>4, <2>2, <3>1, <3>2
    <3>4. \A i, j \in 1..Len(waiters') : waiters'[i] = waiters'[j] => i = j
      BY <1>4, <3>1, <3>2 DEF SlotInv, WaitersWait
    <3> QED BY <3>1, <3>3, <3>4 DEF WaitersWait
  <2>6. SlotInv'
    BY <1>4, <2>1, <2>3, <2>4, <2>5 DEF SlotInv
  <2> QED BY <1>3, <1>4, <1>9, <2>1, <2>6
<1> QED BY <1>6, <1>7, <1>8, <1>9

(* A step of a call that works on its asset and keeps its slot, if it has  *)
(* one: at most it changes its own file, which the index does not name.    *)
LEMMA WorkerStep ==
  ASSUME TypeOK, Inv, NEW d \in Download, NEW state \in CallState, Goes(d, state),
         dl[d].at \in Transferring \/ dl[d].left # "none",
         state.at \in Transferring <=> dl[d].at \in Transferring,
         state.at \in Transferring \cup {"ended"},
         state.left # "none" => state.at \in {"undo", "ended"},
         state.asset = dl[d].asset, state.hash = dl[d].hash,
         UNCHANGED <<native, index, active, waiters, lock, purge, restarts>>,
         disk' \in [File -> {"none", "partial", "whole"}],
         \A f \in File : f # FileOf(d) => disk'[f] = disk[f]
  PROVE  StepOK
<1>1. /\ dl[d].at # "new" /\ Working(d) /\ dl[d].at # "slot"
      /\ index[dl[d].asset] # dl[d].hash
      /\ dl[d].at \notin {"fresh", "reuse"}
      /\ state.at \notin {"new", "fresh", "reuse", "slot"}
  BY DEF Inv, CallsOK, New, Working, Transferring, NamedWhenWritten
<1>2. IsFirst(d, chain[dl[d].asset])
  BY <1>1 DEF Inv, OneWorksOnAnAsset
<1>3. /\ dl' \in [Download -> CallState] /\ dl'[d] = state
      /\ \A e \in Download \ {d} : dl'[e] = dl[e]
      /\ CallsOK' /\ OneWorksOnAnAsset' /\ chain' \in [Asset -> Seq(Download)]
  BY <1>1, <1>2, GoesEffect
<1>4. SlotInv'
  BY <1>1, <1>3, SlotsKept DEF Inv, TypeOK
<1>5. HolderPurges'
  BY <1>1, <1>3, PurgesKept DEF Inv
<1>6. NamedWhenWritten' /\ NeverTorn' /\ Kept
  <2>1. \A e \in Download \ {d} :
          /\ dl'[e].asset = dl[e].asset /\ dl'[e].hash = dl[e].hash
          /\ dl'[e].left = dl[e].left
          /\ \/ dl'[e].at = dl[e].at
             \/ dl[e].at = "slot" /\ dl'[e].at = "grant"
    BY <1>3
  <2>2. /\ dl'[d].asset = dl[d].asset /\ dl'[d].hash = dl[d].hash
        /\ dl'[d].at \notin {"fresh", "reuse"} /\ index' = index
    BY <1>1, <1>3
  <2> QED BY <1>1, <2>1, <2>2, OwnFileOnly
<1>7. TypeOK'
  BY <1>3 DEF TypeOK, CallState
<1> QED BY <1>3, <1>4, <1>5, <1>6, <1>7 DEF StepOK, Inv

LEMMA TransferSteps ==
  ASSUME TypeOK, Inv, NEW d \in Download,
         Granted(d) \/ BodyRead(d) \/ TransferFails(d)
         \/ LeftoverSettles(d) \/ LeftoverRemoved(d)
  PROVE  StepOK
<1>0. /\ dl \in [Download -> CallState] /\ dl[d] \in CallState
      /\ disk \in [File -> {"none", "partial", "whole"}]
      /\ dl[d].left # "none" => dl[d].at \in {"undo", "ended"}
  BY DEF TypeOK, CallState, Inv, CallsOK
<1>1. ASSUME NEW at \in Transferring
      PROVE  LET s == [dl[d] EXCEPT !.at = at]
             IN  /\ s \in CallState /\ s.at = at /\ s.left = dl[d].left
                 /\ s.asset = dl[d].asset /\ s.hash = dl[d].hash
  BY <1>0 DEF CallState, Transferring
<1>2. ASSUME NEW left \in {"none", "running", "remove"}
      PROVE  LET s == [dl[d] EXCEPT !.left = left]
             IN  /\ s \in CallState /\ s.at = dl[d].at /\ s.left = left
                 /\ s.asset = dl[d].asset /\ s.hash = dl[d].hash
  BY <1>0 DEF CallState
<1>3. ASSUME NEW found \in {"none", "partial", "whole"}
      PROVE  LET D == [disk EXCEPT ![FileOf(d)] = found]
             IN  /\ D \in [File -> {"none", "partial", "whole"}]
                 /\ \A f \in File : f # FileOf(d) => D[f] = disk[f]
  BY <1>0
<1>4. CASE Granted(d)
  <2> DEFINE s == [dl[d] EXCEPT !.at = "transfer"]
  <2>1. /\ dl[d].at = "grant" /\ Goes(d, s) /\ dl[d].left = "none"
        /\ disk' = IF native THEN [disk EXCEPT ![FileOf(d)] = "partial"] ELSE disk
        /\ UNCHANGED <<native, index, active, waiters, lock, purge, restarts>>
    BY <1>0, <1>4 DEF Granted
  <2>2. /\ s \in CallState /\ s.at = "transfer" /\ s.left = dl[d].left
        /\ s.asset = dl[d].asset /\ s.hash = dl[d].hash
    BY <1>1 DEF Transferring
  <2>3. /\ disk' \in [File -> {"none", "partial", "whole"}]
        /\ \A f \in File : f # FileOf(d) => disk'[f] = disk[f]
    BY <1>0, <1>3, <2>1
  <2> HIDE DEF s
  <2> QED BY <2>1, <2>2, <2>3, WorkerStep DEF Transferring
<1>5. CASE BodyRead(d)
  <2> DEFINE s == [dl[d] EXCEPT !.at = "write"]
  <2>1. /\ dl[d].at = "transfer" /\ Goes(d, s) /\ dl[d].left = "none"
        /\ disk' = [disk EXCEPT ![FileOf(d)] = "partial"]
        /\ UNCHANGED <<native, index, active, waiters, lock, purge, restarts>>
    BY <1>0, <1>5 DEF BodyRead
  <2>2. /\ s \in CallState /\ s.at = "write" /\ s.left = dl[d].left
        /\ s.asset = dl[d].asset /\ s.hash = dl[d].hash
    BY <1>1 DEF Transferring
  <2>3. /\ disk' \in [File -> {"none", "partial", "whole"}]
        /\ \A f \in File : f # FileOf(d) => disk'[f] = disk[f]
    BY <1>3, <2>1
  <2> HIDE DEF s
  <2> QED BY <2>1, <2>2, <2>3, WorkerStep DEF Transferring
<1>6. CASE TransferFails(d)
  <2> DEFINE s == [dl[d] EXCEPT !.at = "undo"]
  <2>1. /\ dl[d].at \in Transferring /\ Goes(d, s) /\ dl[d].left = "none"
        /\ UNCHANGED <<native, index, disk, active, waiters, lock, purge, restarts>>
    BY <1>0, <1>6 DEF TransferFails, Transferring
  <2>2. /\ s \in CallState /\ s.at = "undo" /\ s.left = dl[d].left
        /\ s.asset = dl[d].asset /\ s.hash = dl[d].hash
    BY <1>1 DEF Transferring
  <2> HIDE DEF s
  <2> QED BY <1>0, <2>1, <2>2, WorkerStep DEF Transferring
<1>7. CASE LeftoverSettles(d)
  <2> DEFINE s == [dl[d] EXCEPT !.left = "remove"]
  <2>1. /\ dl[d].left = "running" /\ Goes(d, s) /\ dl[d].at \in {"undo", "ended"}
        /\ UNCHANGED <<native, index, active, waiters, lock, purge, restarts>>
    BY <1>0, <1>7 DEF LeftoverSettles
  <2>2. /\ s \in CallState /\ s.at = dl[d].at /\ s.left = "remove"
        /\ s.asset = dl[d].asset /\ s.hash = dl[d].hash
    BY <1>2
  <2>3. FileOf(d) \in File
    BY <2>1 DEF Inv, CallsOK, FileOf, File
  <2>4. PICK found \in {"none", "partial", "whole"} :
          disk' = [disk EXCEPT ![FileOf(d)] = found]
    BY <1>0, <1>7, <2>3 DEF LeftoverSettles
  <2>5. /\ disk' \in [File -> {"none", "partial", "whole"}]
        /\ \A f \in File : f # FileOf(d) => disk'[f] = disk[f]
    BY <1>3, <2>4
  <2> HIDE DEF s
  <2> QED BY <2>1, <2>2, <2>5, WorkerStep DEF Transferring
<1>8. CASE LeftoverRemoved(d)
  <2> DEFINE s == [dl[d] EXCEPT !.left = "none"]
  <2>1. /\ dl[d].left = "remove" /\ Goes(d, s) /\ dl[d].at \in {"undo", "ended"}
        /\ disk' = [disk EXCEPT ![FileOf(d)] = "none"]
        /\ UNCHANGED <<native, index, active, waiters, lock, purge, restarts>>
    BY <1>0, <1>8 DEF LeftoverRemoved
  <2>2. /\ s \in CallState /\ s.at = dl[d].at /\ s.left = "none"
        /\ s.asset = dl[d].asset /\ s.hash = dl[d].hash
    BY <1>2
  <2>3. /\ disk' \in [File -> {"none", "partial", "whole"}]
        /\ \A f \in File : f # FileOf(d) => disk'[f] = disk[f]
    BY <1>3, <2>1
  <2> HIDE DEF s
  <2> QED BY <2>1, <2>2, <2>3, WorkerStep DEF Transferring
<1> QED BY <1>4, <1>5, <1>6, <1>7, <1>8

(* The last step of a transfer gives the slot back.                        *)
LEMMA FreeingStep ==
  ASSUME TypeOK, Inv, NEW d \in Download, dl[d].at \in Transferring,
         NEW state \in CallState, state.at \in {"fresh", "ended"},
         state.left # "none" => state.at = "ended",
         state.asset = dl[d].asset, state.hash = dl[d].hash,
         FreeSlot(d, state),
         UNCHANGED <<native, index, purge, restarts>>,
         lock' = lock \/ lock' = Append(lock, d),
         disk' \in [File -> {"none", "partial", "whole"}],
         \A f \in File : f # FileOf(d) => disk'[f] = disk[f],
         state.at = "fresh" => disk'[FileOf(d)] # "partial"
  PROVE  StepOK
<1>1. /\ d \in Holders /\ Working(d) /\ index[dl[d].asset] # dl[d].hash
      /\ dl[d].at \notin {"new", "fresh", "reuse", "slot"}
  BY DEF Holders, Transferring, Working, Inv, NamedWhenWritten
<1>2. dl[d].asset \in Asset /\ dl[d].hash \in Hash /\ IsFirst(d, chain[dl[d].asset])
  BY <1>1 DEF Inv, CallsOK, OneWorksOnAnAsset
<1>3. /\ dl' \in [Download -> CallState] /\ dl'[d] = state
      /\ \A e \in Download \ {d} :
           \/ dl'[e] = dl[e]
           \/ dl[e].at = "slot" /\ dl'[e] = [dl[e] EXCEPT !.at = "grant"]
      /\ active' \in 0..MaxTransfers /\ waiters' \in Seq(Download)
      /\ SlotInv'
  BY <1>1, FreeSlotEffect
<1>4. ASSUME NEW e \in Download \ {d}
      PROVE  /\ dl'[e].asset = dl[e].asset /\ dl'[e].hash = dl[e].hash
             /\ dl'[e].left = dl[e].left
             /\ \/ dl'[e].at = dl[e].at
                \/ dl[e].at = "slot" /\ dl'[e].at = "grant"
             /\ dl'[e].at = "new" => dl'[e] = dl[e]
  <2>1. dl[e] \in CallState
    BY DEF TypeOK, CallState
  <2>2. CASE dl'[e] = dl[e]
    BY <2>2
  <2>3. CASE dl[e].at = "slot" /\ dl'[e] = [dl[e] EXCEPT !.at = "grant"]
    BY <2>1, <2>3 DEF CallState
  <2> QED BY <1>3, <2>2, <2>3
<1>5. CallsOK'
  BY <1>2, <1>3, <1>4 DEF Inv, CallsOK
<1>6. Leave(dl[d].asset, d, dl'[d])
  BY <1>3 DEF FreeSlot
<1>7. OneWorksOnAnAsset' /\ chain' \in [Asset -> Seq(Download)]
  BY <1>2, <1>3, <1>4, <1>6, TurnsKept DEF Inv, Working
<1>8. HolderPurges'
  BY <1>1, <1>4, PurgesKept DEF Inv, Task
<1>9. NamedWhenWritten' /\ NeverTorn' /\ Kept
  BY <1>1, <1>3, <1>4, OwnFileOnly
<1>10. lock' \in Seq(Task)
  <2>1. lock \in Seq(Task) /\ d \in Task
    BY DEF TypeOK, Task
  <2> QED BY <2>1
<1>11. TypeOK'
  BY <1>3, <1>7, <1>10 DEF TypeOK, CallState
<1> QED BY <1>3, <1>5, <1>7, <1>8, <1>9, <1>11 DEF StepOK, Inv

LEMMA WrittenStep ==
  ASSUME TypeOK, Inv, NEW d \in Download, Written(d) \/ Undo(d)
  PROVE  StepOK
<1>0. /\ dl[d] \in CallState /\ disk \in [File -> {"none", "partial", "whole"}]
      /\ dl[d].left # "none" => dl[d].at \in {"undo", "ended"}
  BY DEF TypeOK, CallState, Inv, CallsOK
<1>1. ASSUME NEW at \in {"fresh", "ended"}
      PROVE  LET s == [dl[d] EXCEPT !.at = at]
             IN  /\ s \in CallState /\ s.at = at /\ s.left = dl[d].left
                 /\ s.asset = dl[d].asset /\ s.hash = dl[d].hash
  BY <1>0 DEF CallState
<1>2. ASSUME NEW found \in {"none", "partial", "whole"},
             disk' = [disk EXCEPT ![FileOf(d)] = found]
      PROVE  /\ disk' \in [File -> {"none", "partial", "whole"}]
             /\ \A f \in File : f # FileOf(d) => disk'[f] = disk[f]
             /\ FileOf(d) \in File => disk'[FileOf(d)] = found
  BY <1>0, <1>2
<1> DEFINE To(at) == [dl[d] EXCEPT !.at = at]
<1>3. CASE Written(d)
  <2>1. /\ dl[d].at \in {"transfer", "write"} /\ dl[d].left = "none"
        /\ disk' = [disk EXCEPT ![FileOf(d)] = "whole"]
        /\ UNCHANGED <<native, index, purge, restarts>>
        /\ \/ FreeSlot(d, To("ended")) /\ lock' = lock
           \/ FreeSlot(d, To("fresh")) /\ lock' = Append(lock, d)
    BY <1>0, <1>3 DEF Written
  <2>2. FileOf(d) \in File
    BY <2>1 DEF Inv, CallsOK, FileOf, File
  <2>3. PICK at \in {"fresh", "ended"} :
          FreeSlot(d, To(at)) /\ (lock' = lock \/ lock' = Append(lock, d))
    BY <2>1
  <2>4. /\ To(at) \in CallState /\ To(at).at = at /\ To(at).left = "none"
        /\ To(at).asset = dl[d].asset /\ To(at).hash = dl[d].hash
    BY <1>1, <2>1
  <2> HIDE DEF To
  <2> QED BY <1>2, <2>1, <2>2, <2>3, <2>4, FreeingStep DEF Transferring
<1>4. CASE Undo(d)
  <2>1. /\ dl[d].at = "undo" /\ disk' = [disk EXCEPT ![FileOf(d)] = "none"]
        /\ UNCHANGED <<native, index, purge, restarts, lock>>
        /\ FreeSlot(d, To("ended"))
    BY <1>4 DEF Undo
  <2>2. /\ To("ended") \in CallState /\ To("ended").at = "ended"
        /\ To("ended").asset = dl[d].asset /\ To("ended").hash = dl[d].hash
    BY <1>1
  <2> HIDE DEF To
  <2> QED BY <1>2, <2>1, <2>2, FreeingStep DEF Transferring
<1> QED BY <1>3, <1>4

(* Cancelling ends a wait and a transfer at once and leaves the rest of a  *)
(* call alone.                                                             *)
LEMMA CancelStep ==
  ASSUME TypeOK, Inv, NEW d \in Download, Cancel(d)
  PROVE  StepOK
<1> DEFINE state == [dl[d] EXCEPT !.cancelled = TRUE]
           given == [state EXCEPT !.at = "undo",
                       !.left = IF native /\ dl[d].at = "transfer" THEN "running" ELSE @]
           ended == [state EXCEPT !.at = "ended"]
<1>0. /\ dl \in [Download -> CallState] /\ dl[d] \in CallState
      /\ dl[d].at \notin {"new", "ended"}
      /\ UNCHANGED <<native, index, disk, active, lock, purge, restarts>>
      /\ dl[d].left # "none" => dl[d].at = "undo"
      /\ waiters \in Seq(Download) /\ SlotInv /\ HolderPurges
  BY DEF Cancel, TypeOK, CallState, Inv, CallsOK
<1>1. CASE dl[d].at \in {"grant", "transfer"}
  <2>1. Goes(d, given) /\ UNCHANGED waiters
    BY <1>1 DEF Cancel
  <2>2. /\ given \in CallState /\ given.at = "undo"
        /\ given.asset = dl[d].asset /\ given.hash = dl[d].hash
    BY <1>0 DEF CallState
  <2> HIDE DEF given
  <2> QED BY <1>0, <1>1, <2>1, <2>2, WorkerStep DEF Transferring, TypeOK
<1>2. CASE dl[d].at = "slot"
  <2>1. Goes(d, ended) /\ waiters' = RemoveFirst(waiters, d)
    BY <1>2 DEF Cancel, LeavesLine
  <2>2. /\ ended \in CallState /\ ended.at = "ended" /\ ended.left = "none"
        /\ ended.asset = dl[d].asset /\ ended.hash = dl[d].hash
    BY <1>0, <1>2 DEF CallState
  <2> HIDE DEF ended
  <2>3. IsFirst(d, chain[dl[d].asset])
    BY <1>2 DEF Inv, OneWorksOnAnAsset, Working
  <2>4. /\ dl' \in [Download -> CallState] /\ dl'[d] = ended
        /\ \A e \in Download \ {d} : dl'[e] = dl[e]
        /\ CallsOK' /\ OneWorksOnAnAsset' /\ chain' \in [Asset -> Seq(Download)]
    BY <1>0, <2>1, <2>2, <2>3, GoesEffect
  <2>5. /\ \A i, j \in DOMAIN waiters : waiters[i] = waiters[j] => i = j
        /\ \A i \in DOMAIN waiters : dl[waiters[i]].at = "slot" /\ waiters[i] \in Download
    BY <1>0 DEF SlotInv, WaitersWait
  <2>6. /\ waiters' \in Seq(Download)
        /\ waiters' # <<>> => waiters # <<>>
        /\ \A i \in DOMAIN waiters' :
             waiters'[i] # d /\ \E j \in DOMAIN waiters : waiters[j] = waiters'[i]
        /\ \A i, j \in DOMAIN waiters' : waiters'[i] = waiters'[j] => i = j
    BY <1>0, <2>1, <2>5, RemoveOnly
  <2>7. WaitersWait'
    BY <2>4, <2>5, <2>6 DEF WaitersWait
  <2>8. Holders' = Holders
    BY <1>2, <2>2, <2>4 DEF Holders, Transferring
  <2>9. SlotInv'
    BY <1>0, <2>6, <2>7, <2>8 DEF SlotInv
  <2>10. HolderPurges'
    BY <1>0, <1>2, <2>4, PurgesKept
  <2>11. NamedWhenWritten'
    BY <1>0, <2>2, <2>4 DEF NamedWhenWritten, FileOf, Inv
  <2>12. NeverTorn' /\ Kept
    BY <1>0 DEF NeverTorn, Named, Kept, Inv
  <2>13. TypeOK'
    BY <1>0, <2>4, <2>6 DEF TypeOK, CallState
  <2> QED BY <2>4, <2>9, <2>10, <2>11, <2>12, <2>13 DEF StepOK, Inv
<1>3. CASE dl[d].at \notin {"slot", "grant", "transfer"}
  <2>1. dl' = [dl EXCEPT ![d] = state] /\ UNCHANGED waiters /\ Leave(dl[d].asset, d, state)
    BY <1>3 DEF Cancel, Goes
  <2>2. /\ state \in CallState /\ state.at = dl[d].at /\ state.left = dl[d].left
        /\ state.asset = dl[d].asset /\ state.hash = dl[d].hash
    BY <1>0 DEF CallState
  <2> HIDE DEF state
  <2>3. chain' = chain
    BY <1>0, <2>1, <2>2 DEF Leave, Finished
  <2>4. dl' \in [Download -> CallState]
    BY <1>0, <2>1, <2>2
  <2>5. \A e \in Download :
          /\ dl'[e].at = dl[e].at /\ dl'[e].left = dl[e].left
          /\ dl'[e].asset = dl[e].asset /\ dl'[e].hash = dl[e].hash
          /\ dl[e].at = "new" => dl'[e] = dl[e]
    BY <1>0, <2>1, <2>2
  <2>6. CallsOK' /\ OneWorksOnAnAsset'
    BY <2>3, <2>5 DEF Inv, CallsOK, OneWorksOnAnAsset, Working
  <2>7. SlotInv'
    BY <1>0, <2>1, <2>5, SlotsKept
  <2>8. HolderPurges'
    BY <1>0, <2>5, PurgesKept
  <2>9. NamedWhenWritten'
    BY <1>0, <2>5 DEF NamedWhenWritten, FileOf, Inv
  <2>10. NeverTorn' /\ Kept
    BY <1>0 DEF NeverTorn, Named, Kept, Inv
  <2>11. TypeOK'
    BY <1>0, <2>1, <2>3, <2>4 DEF TypeOK, CallState
  <2> QED BY <2>6, <2>7, <2>8, <2>9, <2>10, <2>11 DEF StepOK, Inv
<1> QED BY <1>1, <1>2, <1>3

-----------------------------------------------------------------------------
(* The mutex: commits and clean-ups.                                       *)

(* Naming a file that is not half written, under the mutex, and setting    *)
(* aside the one it replaces.                                              *)
LEMMA CommitStep ==
  ASSUME TypeOK, Inv, NEW d \in Download, Commit(d)
  PROVE  StepOK
<1> DEFINE a == dl[d].asset
           h == dl[d].hash
<1>0. /\ dl[d].at \in {"fresh", "reuse"} /\ HasLock(d) /\ purge[d].step = "none"
      /\ index' = [index EXCEPT ![a] = h]
      /\ purge' = [purge EXCEPT ![d] = [step |-> "replaced", files |-> Named(a) \ {FileOf(d)}]]
      /\ UNCHANGED <<native, disk, dl, chain, active, waiters, lock, restarts>>
      /\ d \in Task
  BY DEF Commit, Turn, Task
<1>1. /\ a \in Asset /\ h \in Hash /\ h # None /\ Working(d) /\ dl[d].left = "none"
      /\ disk[FileOf(d)] # "partial" /\ FileOf(d) = <<a, h>> /\ FileOf(d) \in File
  BY <1>0 DEF Inv, CallsOK, Working, NamedWhenWritten, FileOf, File
<1>2. /\ index'[a] = h /\ \A b \in Asset \ {a} : index'[b] = index[b]
      /\ index' \in [Asset -> Hash \cup {None}]
  BY <1>0, <1>1 DEF TypeOK
<1>3. /\ Named(a)' = {FileOf(d)} /\ \A b \in Asset \ {a} : Named(b)' = Named(b)
      /\ \A b \in Asset : \A f \in Named(b) : f \in File /\ f[1] = b
  <2>1. Named(a)' = {FileOf(d)}
    BY <1>0, <1>1, <1>2 DEF Named
  <2>2. \A b \in Asset \ {a} : Named(b)' = Named(b)
    BY <1>2 DEF Named
  <2>3. \A b \in Asset : \A f \in Named(b) : f \in File /\ f[1] = b
    BY DEF Named, TypeOK, File
  <2> QED BY <2>1, <2>2, <2>3
<1>4. TypeOK'
  <2>1. [step |-> "replaced", files |-> Named(a) \ {FileOf(d)}]
          \in [step : {"none", "replaced", "unnamed"}, files : SUBSET File]
    BY <1>1, <1>3
  <2> QED BY <1>0, <1>2, <2>1 DEF TypeOK
<1>5. CallsOK' /\ OneWorksOnAnAsset' /\ SlotInv'
  BY <1>0 DEF Inv, CallsOK, OneWorksOnAnAsset, Working, SlotInv, WaitersWait, Holders
<1>6. ASSUME NEW t \in Task
      PROVE  /\ purge'[t].step = "none" => purge'[t].files = {}
             /\ purge'[t].step # "none" =>
                  HasLock(t)' /\ (t \in Download => dl'[t].at \in {"fresh", "reuse"})
             /\ \A b \in Asset : purge'[t].files \cap Named(b)' = {}
  <2>1. CASE t = d
    <3>1. purge'[d].step = "replaced" /\ purge'[d].files = Named(a) \ {FileOf(d)}
      BY <1>0 DEF TypeOK
    <3>2. \A b \in Asset : purge'[d].files \cap Named(b)' = {}
      <4>1. purge'[d].files \cap Named(a)' = {}
        BY <3>1, <1>3
      <4>2. ASSUME NEW b \in Asset \ {a} PROVE purge'[d].files \cap Named(b)' = {}
        <5>1. Named(b)' = Named(b) /\ purge'[d].files \subseteq Named(a)
          BY <3>1, <1>3
        <5>2. ASSUME NEW f \in Named(a), f \in Named(b) PROVE FALSE
          BY <1>1, <1>3, <5>2
        <5> QED BY <5>1, <5>2
      <4>3. ASSUME NEW b \in Asset, b = a PROVE Named(b)' = Named(a)'
        BY <1>0, <4>3 DEF Named
      <4> QED BY <4>1, <4>2, <4>3
    <3>3. HasLock(d)'
      BY <1>0 DEF HasLock
    <3> QED BY <2>1, <3>1, <3>2, <3>3, <1>0
  <2>2. CASE t # d
    <3>1. purge'[t] = purge[t]
      BY <1>0, <2>2
    <3>2. ~HasLock(t)
      BY <1>0, <2>2 DEF HasLock, IsFirst
    <3>3. purge[t].step = "none" /\ purge[t].files = {}
      BY <3>2 DEF Inv, HolderPurges
    <3> QED BY <3>1, <3>3
  <2> QED BY <2>1, <2>2
<1>7. HolderPurges'
  BY <1>6 DEF HolderPurges
<1>8. ASSUME NEW e \in Download, \/ dl[e].at \in {"slot", "grant", "transfer", "write", "undo"}
                                 \/ dl[e].left # "none"
      PROVE  index'[dl[e].asset] # dl[e].hash
  <2>1. Working(e) /\ e # d
    BY <1>0, <1>1, <1>8 DEF Working
  <2>2. dl[e].asset # a
    BY <1>1, <2>1, WorkerIsAlone
  <2>3. dl[e].asset \in Asset
    BY <1>8, <2>1 DEF Inv, CallsOK, Working, New
  <2> QED BY <1>2, <1>8, <2>2, <2>3 DEF Inv, NamedWhenWritten
<1>9. NamedWhenWritten'
  BY <1>0, <1>8 DEF Inv, NamedWhenWritten, FileOf
<1>10. NeverTorn' /\ Kept
  BY <1>0, <1>1, <1>3 DEF Inv, NeverTorn, Kept
<1> QED BY <1>4, <1>5, <1>7, <1>9, <1>10 DEF StepOK, Inv

(* A step that takes names off the index breaks nothing that is said of    *)
(* the files the index names.                                              *)
LEMMA FewerNames ==
  ASSUME TypeOK, Inv, UNCHANGED <<dl, chain, active, waiters, disk>>,
         index' \in [Asset -> Hash \cup {None}],
         \A a \in Asset : index'[a] \in {index[a], None}
  PROVE  /\ CallsOK' /\ OneWorksOnAnAsset' /\ SlotInv'
         /\ NamedWhenWritten' /\ NeverTorn' /\ Kept
         /\ \A a \in Asset : Named(a)' \subseteq Named(a)
<1>1. CallsOK' /\ OneWorksOnAnAsset' /\ SlotInv'
  BY DEF Inv, CallsOK, OneWorksOnAnAsset, Working, SlotInv, WaitersWait, Holders
<1>2. \A a \in Asset : Named(a)' \subseteq Named(a)
  BY DEF Named
<1>3. NeverTorn' /\ Kept
  BY <1>2 DEF Inv, NeverTorn, Kept
<1>4. ASSUME NEW e \in Download, \/ dl[e].at \in {"slot", "grant", "transfer", "write", "undo"}
                                 \/ dl[e].left # "none"
      PROVE  index'[dl[e].asset] # dl[e].hash
  <2>1. dl[e].asset \in Asset /\ dl[e].hash \in Hash
    BY <1>4 DEF Inv, CallsOK, New
  <2> QED BY <1>4, <2>1 DEF Inv, NamedWhenWritten
<1>5. NamedWhenWritten'
  BY <1>4 DEF Inv, NamedWhenWritten, FileOf
<1> QED BY <1>1, <1>2, <1>3, <1>5

LEMMA DropStep ==
  ASSUME TypeOK, Inv, NEW g \in Cleaner, Drop(g)
  PROVE  StepOK
<1>0. /\ HasLock(g) /\ purge[g].step = "none" /\ g \in Task
      /\ UNCHANGED <<native, disk, dl, chain, active, waiters, restarts>>
      /\ lock \in Seq(Task) /\ lock # <<>>
      /\ \A a \in Asset : \A f \in Named(a) : f \in File /\ f[1] = a
  BY DEF Drop, Turn, Task, TypeOK, HasLock, IsFirst, Named, File
<1>1. CASE lock' = Tail(lock) /\ UNCHANGED <<index, purge>>
  <2>1. lock' = Tail(lock) /\ UNCHANGED <<index, purge>>
    BY <1>1
  <2>2. TypeOK'
    BY <1>0, <2>1 DEF TypeOK
  <2>3. \A t \in Task : purge[t].step = "none"
    BY <1>0 DEF Inv, HolderPurges, HasLock, IsFirst
  <2>4. HolderPurges'
    BY <2>1, <2>3 DEF Inv, HolderPurges, Named
  <2>5. \A a \in Asset : index'[a] \in {index[a], None}
    BY <2>1
  <2>6. index' \in [Asset -> Hash \cup {None}]
    BY <2>1 DEF TypeOK
  <2> QED BY <1>0, <2>2, <2>4, <2>5, <2>6, FewerNames DEF StepOK, Inv
<1>2. ASSUME NEW keep \in SUBSET Asset,
             index' = [a \in Asset |-> IF a \in keep THEN index[a] ELSE None],
             purge' = [purge EXCEPT ![g] =
               [step |-> "replaced", files |-> UNION {Named(a) : a \in Asset \ keep}]],
             UNCHANGED lock
      PROVE  StepOK
  <2> DEFINE gone == UNION {Named(a) : a \in Asset \ keep}
  <2>1. /\ index' = [a \in Asset |-> IF a \in keep THEN index[a] ELSE None]
        /\ purge' = [purge EXCEPT ![g] = [step |-> "replaced", files |-> gone]]
        /\ UNCHANGED lock
    BY <1>2
  <2>2. /\ index' \in [Asset -> Hash \cup {None}]
        /\ \A a \in Asset : index'[a] \in {index[a], None}
        /\ \A a \in Asset \ keep : index'[a] = None
    BY <2>1 DEF TypeOK
  <2>3. gone \subseteq File
    BY <1>0
  <2>4. [step |-> "replaced", files |-> gone]
          \in [step : {"none", "replaced", "unnamed"}, files : SUBSET File]
    BY <2>3
  <2>5. TypeOK'
    <3> HIDE DEF gone
    <3> QED BY <1>0, <2>1, <2>2, <2>4 DEF TypeOK
  <2>6. \A a \in Asset : Named(a)' \subseteq Named(a) /\ (a \notin keep => Named(a)' = {})
    BY <2>2 DEF Named
  <2>7. ASSUME NEW a \in Asset PROVE gone \cap Named(a)' = {}
    <3>1. ASSUME NEW f \in gone, f \in Named(a)' PROVE FALSE
      <4>1. PICK b \in Asset \ keep : f \in Named(b)
        BY <3>1
      <4>2. a \in keep /\ f \in Named(a)
        BY <2>6, <3>1
      <4> QED BY <1>0, <4>1, <4>2
    <3> QED BY <3>1
  <2> HIDE DEF gone
  <2>8. ASSUME NEW t \in Task
        PROVE  /\ purge'[t].step = "none" => purge'[t].files = {}
               /\ purge'[t].step # "none" =>
                    HasLock(t)' /\ (t \in Download => dl'[t].at \in {"fresh", "reuse"})
               /\ \A a \in Asset : purge'[t].files \cap Named(a)' = {}
    <3>1. CASE t = g
      <4>1. purge'[g].step = "replaced" /\ purge'[g].files = gone
        BY <1>0, <2>1 DEF TypeOK
      <4>2. g \notin Download
        OBVIOUS
      <4>3. HasLock(g)'
        BY <1>0, <2>1 DEF HasLock
      <4> QED BY <3>1, <4>1, <4>2, <4>3, <2>7
    <3>2. CASE t # g
      <4>1. purge'[t] = purge[t]
        BY <2>1, <3>2
      <4>2. purge[t].step = "none" /\ purge[t].files = {}
        BY <1>0, <3>2 DEF Inv, HolderPurges, HasLock, IsFirst
      <4> QED BY <4>1, <4>2
    <3> QED BY <3>1, <3>2
  <2>9. HolderPurges'
    BY <2>8 DEF HolderPurges
  <2> QED BY <1>0, <2>2, <2>5, <2>9, FewerNames DEF StepOK, Inv
<1> QED BY <1>1, <1>2 DEF Drop

(* A clean-up that is called joins the queue of the mutex.                 *)
LEMMA CleanStep ==
  ASSUME TypeOK, Inv, NEW g \in Cleaner, Clean(g)
  PROVE  StepOK
<1>0. /\ lock' = Append(lock, g) /\ g \in Task /\ lock \in Seq(Task)
      /\ UNCHANGED <<native, index, disk, dl, chain, active, waiters, purge, restarts>>
  BY DEF Clean, Task, TypeOK
<1>1. TypeOK'
  <2>1. lock' \in Seq(Task)
    BY <1>0
  <2> QED BY <1>0, <2>1 DEF TypeOK
<1>2. HolderPurges'
  BY <1>0, PurgesKept DEF Inv
<1>3. index' \in [Asset -> Hash \cup {None}] /\ \A a \in Asset : index'[a] \in {index[a], None}
  BY <1>0 DEF TypeOK
<1> QED BY <1>0, <1>1, <1>2, <1>3, FewerNames DEF StepOK, Inv

(* The holder of the mutex deletes a file it has set aside.                *)
LEMMA DeleteStep ==
  ASSUME TypeOK, Inv, NEW t \in Task, NEW f \in File, Delete(t, f)
  PROVE  StepOK
<1>0. /\ f \in purge[t].files
      /\ disk' = [disk EXCEPT ![f] = "none"]
      /\ purge' = [purge EXCEPT ![t].files = @ \ {f}]
      /\ UNCHANGED <<native, index, dl, chain, active, waiters, lock, restarts>>
      /\ purge \in [Task -> [step : {"none", "replaced", "unnamed"}, files : SUBSET File]]
  BY DEF Delete, TypeOK
<1>1. /\ purge'[t].step = purge[t].step /\ purge'[t].files = purge[t].files \ {f}
      /\ \A u \in Task \ {t} : purge'[u] = purge[u]
      /\ purge' \in [Task -> [step : {"none", "replaced", "unnamed"}, files : SUBSET File]]
  BY <1>0
<1>2. /\ disk' \in [File -> {"none", "partial", "whole"}]
      /\ disk'[f] = "none" /\ \A q \in File \ {f} : disk'[q] = disk[q]
  BY <1>0 DEF TypeOK
<1>3. TypeOK'
  BY <1>0, <1>1, <1>2 DEF TypeOK
<1>4. CallsOK' /\ OneWorksOnAnAsset' /\ SlotInv'
  BY <1>0 DEF Inv, CallsOK, OneWorksOnAnAsset, Working, SlotInv, WaitersWait, Holders
<1>5. \A a \in Asset : Named(a)' = Named(a) /\ Named(a) \subseteq File \ {f}
  BY <1>0 DEF Inv, HolderPurges, Named, TypeOK, File
<1>6. HolderPurges'
  <2> SUFFICES ASSUME NEW u \in Task
        PROVE  /\ purge'[u].step = "none" => purge'[u].files = {}
               /\ purge'[u].step # "none" =>
                    HasLock(u)' /\ (u \in Download => dl'[u].at \in {"fresh", "reuse"})
               /\ \A a \in Asset : purge'[u].files \cap Named(a)' = {}
    BY DEF HolderPurges
  <2>1. purge'[u].step = purge[u].step /\ purge'[u].files \subseteq purge[u].files
    BY <1>1
  <2> QED BY <1>0, <1>5, <2>1 DEF Inv, HolderPurges, HasLock
<1>7. NeverTorn' /\ Kept
  BY <1>2, <1>5 DEF Inv, NeverTorn, Kept
<1>8. NamedWhenWritten'
  <2>1. ASSUME NEW e \in Download, dl[e].at \in {"fresh", "reuse"}
        PROVE  disk'[FileOf(e)] # "partial"
    <3>1. FileOf(e) \in File
      BY <2>1 DEF Inv, CallsOK, FileOf, File
    <3> QED BY <1>2, <2>1, <3>1 DEF Inv, NamedWhenWritten
  <2> QED BY <1>0, <2>1 DEF Inv, NamedWhenWritten, FileOf
<1> QED BY <1>3, <1>4, <1>6, <1>7, <1>8 DEF StepOK, Inv

(* The holder lists what the index does not name.                          *)
LEMMA SweepStep ==
  ASSUME TypeOK, Inv, NEW t \in Task, Sweep(t)
  PROVE  StepOK
<1> DEFINE swept == [step |-> "unnamed", files |-> Unreferenced]
<1>0. /\ purge[t].step = "replaced"
      /\ purge' = [purge EXCEPT ![t] = swept]
      /\ UNCHANGED <<native, index, disk, dl, chain, active, waiters, lock, restarts>>
  BY DEF Sweep
<1>1. /\ swept.step = "unnamed" /\ swept.files = Unreferenced
      /\ swept \in [step : {"none", "replaced", "unnamed"}, files : SUBSET File]
      /\ \A a \in Asset : swept.files \cap Named(a) = {}
  BY DEF Unreferenced
<1> HIDE DEF swept
<1>2. /\ purge' \in [Task -> [step : {"none", "replaced", "unnamed"}, files : SUBSET File]]
      /\ purge'[t] = swept /\ \A u \in Task \ {t} : purge'[u] = purge[u]
  BY <1>0, <1>1 DEF TypeOK
<1>3. TypeOK'
  BY <1>0, <1>2 DEF TypeOK
<1>4. HolderPurges'
  <2> SUFFICES ASSUME NEW u \in Task
        PROVE  /\ purge'[u].step = "none" => purge'[u].files = {}
               /\ purge'[u].step # "none" =>
                    HasLock(u)' /\ (u \in Download => dl'[u].at \in {"fresh", "reuse"})
               /\ \A a \in Asset : purge'[u].files \cap Named(a)' = {}
    BY DEF HolderPurges
  <2>1. \A a \in Asset : Named(a)' = Named(a)
    BY <1>0 DEF Named
  <2>2. HasLock(u)' <=> HasLock(u)
    BY <1>0 DEF HasLock
  <2> QED BY <1>0, <1>1, <1>2, <2>1, <2>2 DEF Inv, HolderPurges
<1>5. index' \in [Asset -> Hash \cup {None}] /\ \A a \in Asset : index'[a] \in {index[a], None}
  BY <1>0 DEF TypeOK
<1> QED BY <1>0, <1>3, <1>4, <1>5, FewerNames DEF StepOK, Inv

(* The holder lets the next one in; a commit ends its call.                *)
LEMMA UnlockStep ==
  ASSUME TypeOK, Inv, NEW t \in Task, Unlock(t)
  PROVE  StepOK
<1>0. /\ purge[t].step = "unnamed" /\ purge' = [purge EXCEPT ![t] = NoPurge]
      /\ lock' = RemoveFirst(lock, t)
      /\ UNCHANGED <<native, index, disk, active, waiters, restarts>>
      /\ HasLock(t) /\ (t \in Download => dl[t].at \in {"fresh", "reuse"})
      /\ lock \in Seq(Task) /\ lock # <<>>
  BY DEF Unlock, Inv, HolderPurges, TypeOK, HasLock, IsFirst
<1>1. lock' = Tail(lock) /\ lock' \in Seq(Task)
  <2>1. Head(lock) = t
    BY <1>0 DEF HasLock, IsFirst
  <2>2. lock' = Tail(lock)
    BY <1>0, <2>1, RemoveHead
  <2> QED BY <1>0, <2>2
<1>2. /\ purge' \in [Task -> [step : {"none", "replaced", "unnamed"}, files : SUBSET File]]
      /\ \A u \in Task : purge'[u].step = "none" /\ purge'[u].files = {}
  <2>1. ASSUME NEW u \in Task \ {t} PROVE purge[u].step = "none" /\ purge[u].files = {}
    BY <1>0 DEF Inv, HolderPurges, HasLock, IsFirst
  <2>2. purge'[t] = NoPurge /\ \A u \in Task \ {t} : purge'[u] = purge[u]
    BY <1>0 DEF TypeOK
  <2>3. NoPurge \in [step : {"none", "replaced", "unnamed"}, files : SUBSET File]
    BY DEF NoPurge
  <2>4. purge' \in [Task -> [step : {"none", "replaced", "unnamed"}, files : SUBSET File]]
    BY <1>0, <2>3 DEF TypeOK
  <2> QED BY <2>1, <2>2, <2>4 DEF NoPurge
<1>3. HolderPurges'
  BY <1>2 DEF HolderPurges
<1>4. NeverTorn' /\ Kept
  BY <1>0 DEF Inv, NeverTorn, Kept, Named
<1>5. CASE t \in Download
  <2> DEFINE state == [dl[t] EXCEPT !.at = "ended"]
  <2>1. Goes(t, state)
    BY <1>5 DEF Unlock
  <2>2. dl \in [Download -> CallState] /\ dl[t].left = "none" /\ Working(t)
    BY <1>0, <1>5 DEF TypeOK, CallState, Inv, CallsOK, Working
  <2>3. /\ state \in CallState /\ state.at = "ended" /\ state.left = "none"
        /\ state.asset = dl[t].asset /\ state.hash = dl[t].hash
    BY <1>5, <2>2 DEF CallState
  <2> HIDE DEF state
  <2>4. IsFirst(t, chain[dl[t].asset])
    BY <1>5, <2>2 DEF Inv, OneWorksOnAnAsset
  <2>5. /\ dl' \in [Download -> CallState] /\ dl'[t] = state
        /\ \A e \in Download \ {t} : dl'[e] = dl[e]
        /\ CallsOK' /\ OneWorksOnAnAsset' /\ chain' \in [Asset -> Seq(Download)]
    BY <1>0, <1>5, <2>1, <2>3, <2>4, GoesEffect
  <2>6. SlotInv'
    <3>1. \A e \in Download : /\ dl'[e].at \in Transferring <=> dl[e].at \in Transferring
                              /\ dl[e].at = "slot" => dl'[e].at = "slot"
      BY <1>0, <1>5, <2>3, <2>5 DEF Transferring
    <3> QED BY <1>0, <3>1, SlotsKept DEF Inv, TypeOK
  <2>7. NamedWhenWritten'
    BY <1>0, <2>3, <2>5 DEF Inv, NamedWhenWritten, FileOf
  <2>8. TypeOK'
    BY <1>0, <1>1, <1>2, <2>1, <2>5 DEF TypeOK, CallState
  <2> QED BY <1>3, <1>4, <2>5, <2>6, <2>7, <2>8 DEF StepOK, Inv
<1>6. CASE t \notin Download
  <2>1. UNCHANGED <<dl, chain>>
    BY <1>6 DEF Unlock
  <2>2. index' \in [Asset -> Hash \cup {None}] /\ \A a \in Asset : index'[a] \in {index[a], None}
    BY <1>0 DEF TypeOK
  <2>3. TypeOK'
    BY <1>0, <1>1, <1>2, <2>1 DEF TypeOK
  <2> QED BY <1>0, <1>3, <2>1, <2>2, <2>3, FewerNames DEF StepOK, Inv
<1> QED BY <1>5, <1>6

LEMMA ResetStep == ASSUME TypeOK, Inv, ResetStore PROVE StepOK
<1>0. /\ index' = [a \in Asset |-> None]
      /\ UNCHANGED <<native, disk, dl, chain, active, waiters, lock, purge, restarts>>
  BY DEF ResetStore
<1>1. /\ index' \in [Asset -> Hash \cup {None}]
      /\ \A a \in Asset : index'[a] \in {index[a], None}
  BY <1>0
<1>2. HolderPurges'
  BY <1>0 DEF Inv, HolderPurges, HasLock, Named
<1>3. TypeOK'
  BY <1>0, <1>1 DEF TypeOK
<1> QED BY <1>0, <1>1, <1>2, <1>3, FewerNames DEF StepOK, Inv

(* Killing the app leaves the index and the files as they are, and nobody  *)
(* at work.                                                                *)
LEMMA RestartStep == ASSUME TypeOK, Inv, Restart PROVE StepOK
<1> DEFINE Over(d) == IF dl[d] = New THEN New
                      ELSE [dl[d] EXCEPT !.at = "ended", !.left = "none"]
<1>00. dl' = [d \in Download |-> Over(d)]
  BY DEF Restart
<1> HIDE DEF Over
<1>0. /\ chain' = [a \in Asset |-> <<>>] /\ active' = 0 /\ waiters' = <<>> /\ lock' = <<>>
      /\ purge' = [t \in Task |-> NoPurge]
      /\ UNCHANGED <<native, index, disk>> /\ restarts' \in 0..MaxRestarts
  <2>1. restarts < MaxRestarts /\ restarts' = restarts + 1 /\ restarts \in 0..MaxRestarts
    BY DEF Restart, TypeOK
  <2>2. restarts' \in 0..MaxRestarts
    BY <2>1
  <2> QED BY <2>2 DEF Restart
<1>1. ASSUME NEW d \in Download
      PROVE  /\ dl'[d] \in CallState /\ dl'[d].left = "none" /\ dl'[d].at \in {"new", "ended"}
             /\ dl'[d].at = "new" => dl'[d] = New
             /\ dl'[d].at # "new" => dl'[d].asset \in Asset /\ dl'[d].hash \in Hash
  <2>1. dl[d] \in CallState
    BY DEF TypeOK, CallState
  <2>2. CASE dl[d] = New
    BY <1>00, <2>1, <2>2 DEF New, Over
  <2>3. CASE dl[d] # New
    <3>1. dl[d].at # "new" /\ dl[d].asset \in Asset /\ dl[d].hash \in Hash
      BY <2>3 DEF Inv, CallsOK
    <3>2. dl'[d] = [dl[d] EXCEPT !.at = "ended", !.left = "none"]
      BY <1>00, <2>3 DEF Over
    <3> QED BY <2>1, <3>1, <3>2 DEF CallState
  <2> QED BY <2>2, <2>3
<1>2. dl' \in [Download -> CallState]
  <2>1. dl' = [d \in Download |-> dl'[d]]
    BY <1>00
  <2> QED BY <1>1, <2>1
<1>3. CallsOK' /\ OneWorksOnAnAsset'
  BY <1>1 DEF CallsOK, OneWorksOnAnAsset, Working
<1>4. SlotInv'
  <2>1. Holders' = {}
    BY <1>1 DEF Holders, Transferring
  <2>2. IsFiniteSet(Holders') /\ Cardinality(Holders') = 0
    BY <2>1, FS_EmptySet
  <2>3. WaitersWait'
    BY <1>0 DEF WaitersWait
  <2> QED BY <1>0, <2>2, <2>3 DEF SlotInv
<1>5. HolderPurges'
  BY <1>0 DEF HolderPurges, NoPurge
<1>6. NamedWhenWritten' /\ NeverTorn' /\ Kept
  BY <1>0, <1>1 DEF Inv, NamedWhenWritten, NeverTorn, Kept, Named
<1>7. TypeOK'
  <2>1. chain' \in [Asset -> Seq(Download)] /\ waiters' \in Seq(Download) /\ lock' \in Seq(Task)
    BY <1>0
  <2>2. purge' \in [Task -> [step : {"none", "replaced", "unnamed"}, files : SUBSET File]]
    BY <1>0 DEF NoPurge
  <2>3. /\ native' \in BOOLEAN /\ index' \in [Asset -> Hash \cup {None}]
        /\ disk' \in [File -> {"none", "partial", "whole"}] /\ active' \in 0..MaxTransfers
    BY <1>0 DEF TypeOK
  <2> QED BY <1>0, <1>2, <2>1, <2>2, <2>3 DEF TypeOK, CallState
<1> QED BY <1>3, <1>4, <1>5, <1>6, <1>7 DEF StepOK, Inv

-----------------------------------------------------------------------------
(* Every step keeps the invariant and every file the index names.          *)
LEMMA Steps == TypeOK /\ Inv /\ [Next]_vars => StepOK
<1> SUFFICES ASSUME TypeOK, Inv, [Next]_vars PROVE StepOK
  OBVIOUS
<1>1. ASSUME NEW d \in Download, NEW a \in Asset, NEW h \in Hash, Call(d, a, h) PROVE StepOK
  BY <1>1, CallStep
<1>2. ASSUME NEW d \in Download, DownloadStep(d) PROVE StepOK
  BY <1>2, EnterStep, TransferSteps, WrittenStep, CommitStep DEF DownloadStep
<1>3. ASSUME NEW d \in Download, Cancel(d) PROVE StepOK
  BY <1>3, CancelStep
<1>4. ASSUME NEW d \in Download, TransferFails(d) PROVE StepOK
  BY <1>4, TransferSteps
<1>5. ASSUME NEW g \in Cleaner, Clean(g) PROVE StepOK
  BY <1>5, CleanStep
<1>6. ASSUME NEW g \in Cleaner, Drop(g) PROVE StepOK
  BY <1>6, DropStep
<1>7. ASSUME NEW t \in Task, TaskStep(t) PROVE StepOK
  BY <1>7, DeleteStep, SweepStep, UnlockStep DEF TaskStep
<1>8. CASE ResetStore
  BY <1>8, ResetStep
<1>9. CASE Restart
  BY <1>9, RestartStep
<1>10. CASE UNCHANGED vars
  <2>1. TypeOK'
    BY <1>10 DEF vars, TypeOK
  <2>2. Inv'
    BY <1>10 DEF vars, Inv, CallsOK, OneWorksOnAnAsset, Working, SlotInv, WaitersWait,
                 Holders, HolderPurges, HasLock, Named, NamedWhenWritten, FileOf, NeverTorn
  <2> QED BY <1>10, <2>1, <2>2 DEF vars, StepOK, Kept
<1> QED BY <1>1, <1>2, <1>3, <1>4, <1>5, <1>6, <1>7, <1>8, <1>9, <1>10 DEF Next

(* Whatever is downloaded, cancelled, cleaned up, killed and started again *)
(* (inductive form).                                                       *)
THEOREM Invariant == Spec => [](TypeOK /\ Inv)
<1>1. ASSUME Init PROVE TypeOK /\ Inv
  <2>1. Holders = {}
    BY <1>1 DEF Init, Holders, Transferring, New
  <2>2. SlotInv
    BY <1>1, <2>1, FS_EmptySet DEF Init, SlotInv, WaitersWait
  <2>3. TypeOK
    BY <1>1 DEF Init, TypeOK, New, NoPurge
  <2>4. CallsOK /\ OneWorksOnAnAsset /\ HolderPurges /\ NamedWhenWritten /\ NeverTorn
    BY <1>1 DEF Init, New, NoPurge, CallsOK, OneWorksOnAnAsset, Working, HolderPurges,
                NamedWhenWritten, NeverTorn, Named
  <2> QED BY <2>2, <2>3, <2>4 DEF Inv
<1>2. TypeOK /\ Inv /\ [Next]_vars => (TypeOK /\ Inv)'
  BY Steps DEF StepOK
<1> QED BY <1>1, <1>2, PTL DEF Spec

(* The index names stored contents, the queues hold calls that exist and   *)
(* the count of transfers stays within the limit.                          *)
THEOREM TypeCorrect == Spec => []TypeOK
BY Invariant, PTL

(* A map never opens a half-written file, however many downloads of it     *)
(* were cancelled and keep writing (runLayerDownloadExclusive).            *)
THEOREM NoTornFile == Spec => []NeverTorn
<1>1. Inv => NeverTorn
  BY DEF Inv
<1> QED BY <1>1, Invariant, PTL

(* No transfer slot is lost or made, whoever fails or is cancelled, and    *)
(* nobody waits while one is free (acquireLayerTransferSlot).              *)
THEOREM SlotsAreKept == Spec => []SlotsAreHeld
<1>1. Inv => SlotsAreHeld
  BY DEF Inv, SlotInv, SlotsAreHeld, Holders, Transferring
<1> QED BY <1>1, Invariant, PTL

(* No clean-up, failed or cancelled download, or leftover of one takes     *)
(* away a file the index names at that moment (runFileIndexMutation).      *)
THEOREM NamedFilesStay == Spec => DeletesOnlyUnnamed
<1>1. TypeOK /\ Inv /\ [Next]_vars => [Kept]_vars
  BY Steps DEF StepOK
<1>2. Spec => [][Kept]_vars
  <2> HIDE DEF Kept
  <2> QED BY <1>1, Invariant, PTL DEF Spec
<1> QED BY <1>2 DEF DeletesOnlyUnnamed, Kept
=============================================================================
