--------------------------- MODULE RecordSyncProofs ---------------------------
(***************************************************************************)
(* Theorems about RecordSync, for any sets of devices and revisions and    *)
(* any number of versions.                                                 *)
(***************************************************************************)
EXTENDS RecordSync, FiniteSetTheorems, WellFoundedInduction, TLAPS

USE BoundsAreNumbers

(* A set of numbers up to a bound has a greatest one.                      *)
LEMMA Greatest ==
  ASSUME NEW K \in Nat, NEW T \in SUBSET (0..K), T # {}
  PROVE  \E x \in T : \A y \in T : y <= x
<1> DEFINE D == {K - t : t \in T}
<1>1. D \subseteq Nat /\ D # {}
  <2>1. ASSUME NEW t \in T PROVE K - t \in Nat
    <3>1. t \in Nat /\ t <= K
      OBVIOUS
    <3> QED BY <3>1
  <2>2. PICK t \in T : TRUE
    OBVIOUS
  <2> QED BY <2>1, <2>2
<1>2. PICK x \in D : \A y \in D : ~(<<y, x>> \in OpToRel(<, Nat))
  BY <1>1, NatLessThanWellFounded, WFMin
<1>3. \A y \in D : ~(y < x)
  BY <1>1, <1>2 DEF OpToRel
<1>4. PICK t \in T : x = K - t
  OBVIOUS
<1>5. ASSUME NEW u \in T PROVE u <= t
  <2>1. ~(K - u < K - t)
    BY <1>3, <1>4
  <2> QED BY <2>1
<1> QED BY <1>5

(* Lines are no longer than the number of versions.                        *)
LEMMA LineLength ==
  ASSUME TypeOK, LinesOK, NEW v \in Version
  PROVE  ver[v].gen \in 0..MaxVersion
<1> DEFINE G == 1..ver[v].gen
           pick == [g \in G |-> CHOOSE w \in Version : ver[w].gen = g]
<1>1. ver[v].gen \in Nat
  BY DEF TypeOK
<1>2. \A g \in G : pick[g] \in Version /\ ver[pick[g]].gen = g
  BY DEF LinesOK
<1>3. pick \in Injection(G, Version)
  <2>1. pick \in [G -> Version]
    BY <1>2
  <2>2. ASSUME NEW a \in G, NEW b \in G, pick[a] = pick[b] PROVE a = b
    BY <1>2, <2>2
  <2> QED BY <2>1, <2>2 DEF Injection, IsInjective
<1>4. IsFiniteSet(Version) /\ Cardinality(Version) = MaxVersion
  BY FS_Interval DEF Version
<1>5. IsFiniteSet(G) /\ Cardinality(G) = ver[v].gen
  <2>1. /\ IsFiniteSet(1..ver[v].gen)
        /\ Cardinality(1..ver[v].gen)
             = IF 1 > ver[v].gen THEN 0 ELSE ver[v].gen - 1 + 1
    BY <1>1, FS_Interval
  <2> QED BY <1>1, <2>1
<1>6. Cardinality(G) <= Cardinality(Version)
  BY <1>3, <1>4, FS_Injection
<1> QED BY <1>1, <1>4, <1>5, <1>6

(* What CouchDB and PouchDB call the winner is there and is a leaf.        *)
Beats(v, w) == ver[w].gen < ver[v].gen \/ (ver[w].gen = ver[v].gen /\ w <= v)

LEMMA WinnerIsLeaf ==
  ASSUME TypeOK, LinesOK, NEW n \in Node, has[n] # {}
  PROVE  /\ Winner(n) \in Leaves(n)
         /\ \A w \in Leaves(n) : Beats(Winner(n), w)
<1> DEFINE G == {ver[v].gen : v \in has[n]}
<1>1. has[n] \subseteq Version /\ \A v \in has[n] : ver[v].gen \in 0..MaxVersion
  BY LineLength DEF TypeOK
<1>2. PICK g \in G : \A h \in G : h <= g
  <2>1. G \in SUBSET (0..MaxVersion) /\ G # {} /\ MaxVersion \in Nat
    BY <1>1
  <2> HIDE DEF G
  <2> QED BY <2>1, Greatest
<1> DEFINE T == {v \in has[n] : ver[v].gen = g}
<1>3. T \in SUBSET (0..MaxVersion) /\ T # {}
  BY <1>1, <1>2 DEF Version
<1>4. PICK v \in T : \A w \in T : w <= v
  BY <1>3, Greatest
<1>5. ASSUME NEW w \in has[n], ver[w].from = v PROVE FALSE
  <2>1. v # 0 /\ ver[w].gen = g + 1
    BY <1>1, <1>3, <1>5 DEF LinesOK, Version
  <2>2. ver[w].gen <= g
    BY <1>2
  <2> QED BY <2>1, <2>2, <1>1, <1>2
<1>6. v \in Leaves(n) /\ \A w \in Leaves(n) : Beats(v, w)
  <2>1. v \in Leaves(n)
    BY <1>5 DEF Leaves
  <2>2. ASSUME NEW w \in Leaves(n) PROVE Beats(v, w)
    <3>1. w \in has[n] /\ ver[w].gen <= g
      BY <1>2 DEF Leaves
    <3>2. ver[w].gen \in Nat /\ g \in Nat
      BY <3>1, <1>1, <1>2
    <3> QED BY <3>1, <3>2, <1>4 DEF Beats
  <2> QED BY <2>1, <2>2
<1> QED BY <1>6 DEF Winner, Beats

(* Reading the record and preparing its put keeps the invariant, when the  *)
(* heads it drops lie under the revision it adds.                          *)
LEMMA PrepareKeepsInv ==
  ASSUME Inv, NEW n \in Node, NEW drop, NEW new \in SUBSET Rev,
         NEW under \in SUBSET listed, NEW retry \in BOOLEAN,
         ReadAndPrepare(n, drop, new, under, retry), stamps' \in 0..MaxStamps,
         drop \subseteq under, drop \cap new = {}, drop # {} => new # {},
         \A q \in under : older[q] \subseteq under,
         \A r \in new \cap listed : under = older[r],
         \A m \in Node \ {n} : call[m].at = "put" => new \cap call[m].new \subseteq listed
  PROVE  Inv'
<1> DEFINE w == Winner(n)
           c == [at |-> "put", on |-> w, new |-> new, under |-> under, retry |-> retry,
                 heads |-> (ver[w].heads \cup new) \ drop,
                 revisions |-> ver[w].revisions \cup new]
<1>1. /\ has[n] # {} /\ call' = [call EXCEPT ![n] = c]
      /\ UNCHANGED <<ver, has, listed, older, dropped>>
  BY DEF ReadAndPrepare, HeadsAfter, HistoryAfter, Shown
<1>2. w \in Version /\ Used(w)
  BY <1>1, WinnerIsLeaf DEF Inv, TypeOK, Leaves
<1>3. ver[w].heads \subseteq listed /\ ver[w].revisions \subseteq listed /\ listed \subseteq Rev
  BY <1>2 DEF Inv, TypeOK
<1> HIDE DEF w
<1>4. TypeOK'
  <2>1. c \in [at : {"put"}, on : Version, new : SUBSET Rev, under : SUBSET listed,
                retry : BOOLEAN, heads : SUBSET Rev, revisions : SUBSET Rev]
    BY <1>2, <1>3
  <2> HIDE DEF c
  <2> QED BY <1>1, <2>1 DEF Inv, TypeOK, Used
<1>5. LinesOK' /\ AncestryOK' /\ HistoryIsReachable'
  BY <1>1 DEF Inv, LinesOK, AncestryOK, HistoryIsReachable, Used
<1>6. ASSUME NEW r \in c.revisions
      PROVE  r \in c.heads \/ \E h \in c.heads : r \in Under(c, h)
  <2>1. CASE r \in new
    BY <2>1
  <2>2. CASE r \in under
    <3>1. CASE new # {}
      <4>1. PICK h \in new : TRUE
        BY <3>1
      <4>2. h \in c.heads /\ Under(c, h) = under
        BY <4>1 DEF Under
      <4> QED BY <4>2, <2>2
    <3>2. CASE new = {}
      <4>1. drop = {} /\ r \in ver[w].revisions
        BY <3>2
      <4>2. r \in ver[w].heads \/ \E h \in ver[w].heads : r \in older[h]
        BY <4>1, <1>2 DEF Inv, HistoryIsReachable
      <4> QED BY <4>1, <4>2, <3>2 DEF Under
    <3> QED BY <3>1, <3>2
  <2>3. CASE r \notin new /\ r \notin under
    <3>1. r \in ver[w].revisions /\ r \notin drop
      BY <2>3
    <3>2. CASE r \in ver[w].heads
      BY <3>1, <3>2
    <3>3. CASE \E h \in ver[w].heads : r \in older[h]
      <4>1. PICK h \in ver[w].heads : r \in older[h]
        BY <3>3
      <4>2. h \notin drop
        BY <4>1, <2>3
      <4>3. h \in new => older[h] = under
        BY <4>1, <1>3
      <4>4. h \in c.heads /\ Under(c, h) = older[h]
        BY <4>1, <4>2, <4>3, <2>3 DEF Under
      <4> QED BY <4>1, <4>4
    <3>4. r \in ver[w].heads \/ \E h \in ver[w].heads : r \in older[h]
      BY <3>1, <1>2 DEF Inv, HistoryIsReachable
    <3> QED BY <3>2, <3>3, <3>4
  <2> QED BY <2>1, <2>2, <2>3
<1>7. PutsOK'
  <2> SUFFICES ASSUME NEW k \in Node, call'[k].at = "put"
               PROVE
                 /\ has'[k] # {}
                 /\ call'[k].heads \cup call'[k].revisions \subseteq listed' \cup call'[k].new
                 /\ \A q \in call'[k].under : older'[q] \subseteq call'[k].under
                 /\ \A r \in call'[k].new \cap listed' : call'[k].under = older'[r]
                 /\ \A r \in call'[k].revisions : r \in call'[k].heads
                      \/ \E h \in call'[k].heads : r \in Under(call[k], h)'
                 /\ \A m \in Node \ {k} : call'[m].at = "put" =>
                      call'[k].new \cap call'[m].new \subseteq listed'
    BY DEF PutsOK
  <2>0. n \in DOMAIN call
    BY DEF Inv, TypeOK
  <2>1. CASE k = n
    <3>1. call'[k] = c /\ \A m \in Node \ {n} : call'[m] = call[m]
      BY <1>1, <2>0, <2>1
    <3>2. \A h : Under(call[k], h)' = Under(c, h)
      BY <3>1, <1>1 DEF Under
    <3>3. c.heads \cup c.revisions \subseteq listed \cup c.new
      BY <1>3
    <3>4. \A r \in c.revisions : r \in c.heads \/ \E h \in c.heads : r \in Under(c, h)
      BY <1>6
    <3>5. c.new = new /\ c.under = under
      OBVIOUS
    <3> HIDE DEF c
    <3> QED BY <3>1, <3>2, <3>3, <3>4, <3>5, <1>1, <2>1
  <2>2. CASE k # n
    <3>1. call'[k] = call[k] /\ call'[n] = c
          /\ \A m \in Node \ {n} : call'[m] = call[m]
      BY <1>1, <2>0, <2>2
    <3>2. \A h : Under(call[k], h)' = Under(call[k], h)
      BY <3>1, <1>1 DEF Under
    <3>3. c.new \cap call[k].new \subseteq listed
      BY <3>1, <2>2
    <3> HIDE DEF c
    <3>4. \A m \in Node \ {k} : call'[m].at = "put" =>
            call'[k].new \cap call'[m].new \subseteq listed'
      BY <3>1, <3>3, <1>1 DEF Inv, PutsOK
    <3> QED BY <3>1, <3>2, <3>4, <1>1 DEF Inv, PutsOK
  <2> QED BY <2>1, <2>2
<1> QED BY <1>4, <1>5, <1>7 DEF Inv

(* The steps that prepare a put.                                           *)
LEMMA NewIsNew ==
  ASSUME Inv, NEW r \in Rev, IsNew(r)
  PROVE  /\ r \notin listed
         /\ \A m \in Node : call[m].at = "put" => r \notin call[m].new
BY DEF IsNew

LEMMA ForkKeepsInv ==
  ASSUME Inv, NEW n \in Node, NEW base \in Rev, NEW new \in Rev, Fork(n, base, new)
  PROVE  Inv'
<1>1. base \in listed
  BY DEF Fork, Knows, Inv, TypeOK
<1>2. new \notin listed /\ \A m \in Node : call[m].at = "put" => new \notin call[m].new
  BY NewIsNew DEF Fork
<1> DEFINE under == older[base] \cup {base}
<1>3. under \in SUBSET listed /\ \A q \in under : older[q] \subseteq under
  BY <1>1 DEF Inv, TypeOK, AncestryOK
<1>4. ReadAndPrepare(n, {base}, {new}, under, TRUE) /\ stamps' \in 0..MaxStamps
  BY DEF Fork, Inv, TypeOK
<1>5. {base} \subseteq under /\ base # new
  BY <1>1, <1>2
<1>6. /\ {new} \in SUBSET Rev /\ {base} \cap {new} = {} /\ {new} # {}
      /\ \A r \in {new} \cap listed : under = older[r]
      /\ \A m \in Node \ {n} : call[m].at = "put" => {new} \cap call[m].new \subseteq listed
  BY <1>2, <1>5
<1> HIDE DEF under
<1> QED BY <1>3, <1>4, <1>5, <1>6, PrepareKeepsInv

LEMMA StampKeepsInv ==
  ASSUME Inv, NEW n \in Node, Stamp(n)
  PROVE  Inv'
<1>1. ReadAndPrepare(n, {}, {}, {}, TRUE)
  BY DEF Stamp
<1>2. stamps' \in 0..MaxStamps
  <2>1. stamps \in 0..MaxStamps /\ stamps < MaxStamps /\ stamps' = stamps + 1
    BY DEF Stamp, Inv, TypeOK
  <2> QED BY <2>1
<1>3. /\ {} \in SUBSET Rev /\ {} \in SUBSET listed /\ {} \cap {} = {}
      /\ \A q \in {} : older[q] \subseteq {}
      /\ \A r \in {} \cap listed : {} = older[r]
      /\ \A m \in Node \ {n} : call[m].at = "put" => {} \cap call[m].new \subseteq listed
  OBVIOUS
<1> QED BY <1>1, <1>2, <1>3, PrepareKeepsInv

LEMMA FastForwardKeepsInv ==
  ASSUME Inv, NEW n \in Node, FastForward(n)
  PROVE  Inv'
<1>1. PICK old, young \in {call[n].us, call[n].them} :
        /\ old \in older[young]
        /\ ReadAndPrepare(n, {old}, {young}, older[young], FALSE)
  BY DEF FastForward
<1>2. old \in listed /\ young \in listed /\ listed \subseteq Rev
  BY <1>1 DEF FastForward, Inv, TypeOK, Idle
<1>3. older[young] \in SUBSET listed /\ old # young
      /\ \A q \in older[young] : older[q] \subseteq older[young]
  BY <1>1, <1>2 DEF Inv, TypeOK, AncestryOK
<1>4. stamps' \in 0..MaxStamps
  BY DEF FastForward, Inv, TypeOK
<1>5. /\ {young} \in SUBSET Rev /\ {young} # {} /\ {old} \cap {young} = {}
      /\ {old} \subseteq older[young]
      /\ \A r \in {young} \cap listed : older[young] = older[r]
      /\ \A m \in Node \ {n} : call[m].at = "put" => {young} \cap call[m].new \subseteq listed
  BY <1>1, <1>2, <1>3
<1> DEFINE under == older[young]
<1>6. /\ under \in SUBSET listed /\ ReadAndPrepare(n, {old}, {young}, under, FALSE)
      /\ \A q \in under : older[q] \subseteq under
      /\ {old} \subseteq under
      /\ \A r \in {young} \cap listed : under = older[r]
  BY <1>1, <1>3, <1>5
<1>7. /\ {young} \in SUBSET Rev /\ {young} # {} /\ {old} \cap {young} = {}
      /\ \A m \in Node \ {n} : call[m].at = "put" => {young} \cap call[m].new \subseteq listed
  BY <1>5
<1> DEFINE drop == {old}
           new  == {young}
<1>8. /\ under \in SUBSET listed /\ ReadAndPrepare(n, drop, new, under, FALSE)
      /\ \A q \in under : older[q] \subseteq under
      /\ drop \subseteq under
      /\ \A r \in new \cap listed : under = older[r]
      /\ new \in SUBSET Rev /\ new # {} /\ drop \cap new = {}
      /\ \A m \in Node \ {n} : call[m].at = "put" => new \cap call[m].new \subseteq listed
  BY <1>6, <1>7
<1> HIDE DEF under, drop, new
<1> QED BY <1>4, <1>8, PrepareKeepsInv

LEMMA MergePairKeepsInv ==
  ASSUME Inv, NEW n \in Node, NEW new \in Rev, MergePair(n, new)
  PROVE  Inv'
<1> DEFINE both == {call[n].us, call[n].them}
           under == both \cup UNION {older[r] : r \in both}
<1>1. both \subseteq listed /\ listed \subseteq Rev
  BY DEF MergePair, Inv, TypeOK, Idle
<1>2. new \notin listed /\ \A m \in Node : call[m].at = "put" => new \notin call[m].new
  BY NewIsNew DEF MergePair
<1>3. ReadAndPrepare(n, both, {new}, under, FALSE) /\ stamps' \in 0..MaxStamps
  BY DEF MergePair, Inv, TypeOK
<1> HIDE DEF both
<1>4. \A r \in both : older[r] \subseteq listed /\ \A q \in older[r] : older[q] \subseteq older[r]
  BY <1>1 DEF Inv, TypeOK, AncestryOK
<1>5. under \in SUBSET listed /\ \A q \in under : older[q] \subseteq under
  BY <1>1, <1>4
<1>6. both \subseteq under /\ both \cap {new} = {}
  BY <1>1, <1>2
<1>7. /\ {new} \in SUBSET Rev /\ {new} # {}
      /\ \A r \in {new} \cap listed : under = older[r]
      /\ \A m \in Node \ {n} : call[m].at = "put" => {new} \cap call[m].new \subseteq listed
  BY <1>2
<1> HIDE DEF under
<1> QED BY <1>3, <1>5, <1>6, <1>7, PrepareKeepsInv

(* The other steps.                                                        *)
LEMMA PutOkKeepsInv ==
  ASSUME Inv, NEW n \in Node, NEW v \in Version, PutOk(n, v)
  PROVE  Inv'
<1> DEFINE c == call[n]
           ver2 == [gen |-> ver[c.on].gen + 1, from |-> c.on,
                    heads |-> c.heads, revisions |-> c.revisions]
<1>1. /\ c.at = "put" /\ c.on \in has[n] /\ ~Used(v)
      /\ ver' = [ver EXCEPT ![v] = ver2]
      /\ has' = [has EXCEPT ![n] = @ \cup {v}]
      /\ listed' = listed \cup c.new
      /\ older' = [r \in Rev |-> IF r \in c.new THEN c.under ELSE older[r]]
      /\ call' = [call EXCEPT ![n] = Idle]
      /\ UNCHANGED <<dropped, stamps>>
  BY DEF PutOk, Leaves
<1>2. c \in [at : {"put"}, on : Version, new : SUBSET Rev, under : SUBSET listed,
             retry : BOOLEAN, heads : SUBSET Rev, revisions : SUBSET Rev]
  BY <1>1 DEF Inv, TypeOK, Idle
<1>3. c.heads \cup c.revisions \subseteq listed \cup c.new
  BY <1>1 DEF Inv, PutsOK
<1>4. Used(c.on) /\ c.on # v /\ c.on # 0 /\ ver[v].gen = 0
  BY <1>1, <1>2 DEF Inv, TypeOK, Used, Version
<1>5. \A r \in listed : older'[r] = older[r]
  BY <1>1 DEF Inv, PutsOK, TypeOK
<1>6. ver'[v] = ver2 /\ \A w \in Version \ {v} : ver'[w] = ver[w]
  BY <1>1 DEF Inv, TypeOK
<1>7. TypeOK'
  <2>1. ver' \in [Version -> [gen : Nat, from : Version \cup {0},
                             heads : SUBSET listed', revisions : SUBSET listed']]
    <3>1. ver2 \in [gen : Nat, from : Version \cup {0},
                    heads : SUBSET listed', revisions : SUBSET listed']
      BY <1>1, <1>2, <1>3, <1>4 DEF Inv, TypeOK
    <3>2. \A w \in Version : ver[w] \in [gen : Nat, from : Version \cup {0},
                    heads : SUBSET listed', revisions : SUBSET listed']
      BY <1>1 DEF Inv, TypeOK
    <3> HIDE DEF ver2
    <3> QED BY <1>1, <3>1, <3>2 DEF Inv, TypeOK
  <2>2. has' \in [Node -> SUBSET Version] /\ stamps' \in 0..MaxStamps
        /\ listed' \subseteq Rev /\ dropped' \subseteq listed'
    BY <1>1, <1>2 DEF Inv, TypeOK
  <2>3. older' \in [Rev -> SUBSET listed']
    BY <1>1, <1>2 DEF Inv, TypeOK
  <2>4. call' \in [Node -> {Idle}
       \cup [at : {"merge"}, us : listed', them : listed']
       \cup [at : {"put"}, on : Version, new : SUBSET Rev, under : SUBSET listed',
             retry : BOOLEAN, heads : SUBSET Rev, revisions : SUBSET Rev]]
    <3> SUFFICES ASSUME NEW k \in Node
                 PROVE call'[k] \in {Idle}
                   \cup [at : {"merge"}, us : listed', them : listed']
                   \cup [at : {"put"}, on : Version, new : SUBSET Rev, under : SUBSET listed',
                         retry : BOOLEAN, heads : SUBSET Rev, revisions : SUBSET Rev]
      BY <1>1 DEF Inv, TypeOK
    <3>1. call'[k] = Idle \/ call'[k] = call[k]
      BY <1>1 DEF Inv, TypeOK
    <3>2. call[k] \in {Idle}
                   \cup [at : {"merge"}, us : listed', them : listed']
                   \cup [at : {"put"}, on : Version, new : SUBSET Rev, under : SUBSET listed',
                         retry : BOOLEAN, heads : SUBSET Rev, revisions : SUBSET Rev]
      BY <1>1 DEF Inv, TypeOK
    <3> QED BY <3>1, <3>2
  <2>5. ASSUME NEW k \in Node, NEW w \in has'[k]
        PROVE  Used(w)' /\ ver'[w].from \in has'[k] \cup {0}
    <3>1. CASE w = v /\ w \notin has[k]
      BY <1>1, <1>4, <1>6, <2>5, <3>1 DEF Inv, TypeOK, Used
    <3>2. CASE w \in has[k]
      <4>1. w \in Version /\ w # v /\ ver[w].from \in has[k] \cup {0} /\ Used(w)
        BY <3>2, <1>4 DEF Inv, TypeOK, Used
      <4>2. has[k] \subseteq has'[k]
        BY <1>1 DEF Inv, TypeOK
      <4> QED BY <4>1, <4>2, <1>6 DEF Used
    <3> QED BY <1>1, <2>5, <3>1, <3>2 DEF Inv, TypeOK
  <2> QED BY <2>1, <2>2, <2>3, <2>4, <2>5 DEF TypeOK
<1>8. LinesOK'
  <2> SUFFICES ASSUME NEW w \in Version
               PROVE /\ ver'[w].from # 0 =>
                          /\ ver'[ver'[w].from].gen > 0
                          /\ ver'[w].gen = ver'[ver'[w].from].gen + 1
                     /\ \A g \in 1..ver'[w].gen : \E u \in Version : ver'[u].gen = g
    BY DEF LinesOK, Used
  <2>1. \A u \in Version : ver[u].gen \in Nat /\ ver[u].from \in Version \cup {0}
    BY DEF Inv, TypeOK
  <2>2. ASSUME NEW g \in Nat \ {0}, NEW u \in Version, ver[u].gen = g
        PROVE  \E x \in Version : ver'[x].gen = g
    BY <1>4, <1>6, <2>2
  <2>3. CASE w = v
    <3>1. \A g \in 1..ver[c.on].gen : \E u \in Version : ver[u].gen = g
      BY <1>2 DEF Inv, LinesOK
    <3>2. ver'[w].gen = ver[c.on].gen + 1 /\ ver'[w].from = c.on /\ ver'[c.on] = ver[c.on]
      BY <1>2, <1>4, <1>6, <2>3
    <3>3. ASSUME NEW g \in 1..ver'[w].gen PROVE \E u \in Version : ver'[u].gen = g
      <4>1. CASE g = ver'[w].gen
        BY <4>1
      <4>2. CASE g \in 1..ver[c.on].gen
        BY <4>2, <3>1, <2>2
      <4> QED BY <3>2, <3>3, <4>1, <4>2, <2>1, <1>2
    <3> QED BY <3>2, <3>3, <1>4, <1>2 DEF Used
  <2>4. CASE w # v
    <3>1. ver'[w] = ver[w]
      BY <1>6, <2>4
    <3>2. /\ ver[w].from # 0 => ver[w].gen = ver[ver[w].from].gen + 1
          /\ ver[w].from # 0 => Used(ver[w].from)
          /\ \A g \in 1..ver[w].gen : \E u \in Version : ver[u].gen = g
      BY DEF Inv, LinesOK
    <3>3. ver[w].from # 0 => ver'[ver[w].from] = ver[ver[w].from]
      BY <1>1, <1>6, <3>2, <2>1
    <3> QED BY <3>1, <3>2, <3>3, <2>1, <2>2 DEF Used
  <2> QED BY <2>3, <2>4
<1>9. AncestryOK'
  <2> SUFFICES ASSUME NEW r \in Rev
               PROVE  r \notin older'[r] /\ \A q \in older'[r] : older'[q] \subseteq older'[r]
    BY DEF AncestryOK
  <2>1. CASE r \in c.new /\ r \notin listed
    <3>1. older'[r] = c.under
      BY <1>1, <2>1
    <3>2. \A q \in c.under : q \in listed /\ older[q] \subseteq c.under
      BY <1>1, <1>2 DEF Inv, PutsOK
    <3> QED BY <3>1, <3>2, <1>5, <2>1
  <2>2. CASE ~(r \in c.new /\ r \notin listed)
    <3>1. older'[r] = older[r]
      BY <1>1, <1>5, <2>2
    <3>2. older[r] \subseteq listed
      BY DEF Inv, TypeOK
    <3> QED BY <3>1, <3>2, <1>5 DEF Inv, AncestryOK
  <2> QED BY <2>1, <2>2
<1>10. PutsOK'
  <2> SUFFICES ASSUME NEW k \in Node, call'[k].at = "put"
               PROVE
                 /\ has'[k] # {}
                 /\ call'[k].heads \cup call'[k].revisions \subseteq listed' \cup call'[k].new
                 /\ \A q \in call'[k].under : older'[q] \subseteq call'[k].under
                 /\ \A r \in call'[k].new \cap listed' : call'[k].under = older'[r]
                 /\ \A r \in call'[k].revisions : r \in call'[k].heads
                      \/ \E h \in call'[k].heads : r \in Under(call[k], h)'
                 /\ \A m \in Node \ {k} : call'[m].at = "put" =>
                      call'[k].new \cap call'[m].new \subseteq listed'
    BY DEF PutsOK
  <2>1. call'[n] = Idle /\ \A m \in Node \ {n} : call'[m] = call[m]
    BY <1>1 DEF Inv, TypeOK
  <2>2. k # n /\ call'[k] = call[k] /\ has'[k] = has[k] /\ call[k].at = "put"
    BY <1>1, <2>1 DEF Inv, TypeOK, Idle
  <2>3. call[k].under \subseteq listed
    BY <2>2 DEF Inv, TypeOK, Idle
  <2>4. \A h \in listed \cup call[k].new : Under(call[k], h)' = Under(call[k], h)
    BY <2>2, <1>5 DEF Under
  <2>5. call[k].new \cap c.new \subseteq listed
    BY <1>1, <2>2 DEF Inv, PutsOK
  <2>6. /\ has[k] # {}
        /\ call[k].heads \cup call[k].revisions \subseteq listed \cup call[k].new
        /\ \A q \in call[k].under : older[q] \subseteq call[k].under
        /\ \A r \in call[k].new \cap listed : call[k].under = older[r]
        /\ \A r \in call[k].revisions : r \in call[k].heads
             \/ \E h \in call[k].heads : r \in Under(call[k], h)
        /\ \A m \in Node \ {k} : call[m].at = "put" =>
             call[k].new \cap call[m].new \subseteq listed
    BY <2>2 DEF Inv, PutsOK
  <2>7. listed' = listed \cup c.new
    BY <1>1
  <2>8. \A m \in Node \ {k} : call'[m].at = "put" =>
          call'[k].new \cap call'[m].new \subseteq listed'
    BY <2>1, <2>2, <2>6, <2>7 DEF Idle
  <2>9. \A r \in call[k].new \cap listed' : call[k].under = older'[r]
    BY <1>5, <2>5, <2>6, <2>7
  <2> HIDE DEF c
  <2> QED BY <1>5, <2>2, <2>3, <2>4, <2>6, <2>7, <2>8, <2>9
<1>11. HistoryIsReachable'
  <2> SUFFICES ASSUME NEW w \in Version, NEW r \in ver'[w].revisions
               PROVE  r \in ver'[w].heads \/ \E h \in ver'[w].heads : r \in older'[h]
    BY DEF HistoryIsReachable
  <2>1. CASE w = v
    <3>1. ver'[w].heads = c.heads /\ ver'[w].revisions = c.revisions
      BY <1>6, <2>1
    <3>2. r \in c.heads \/ \E h \in c.heads : r \in Under(c, h)
      BY <1>1, <3>1 DEF Inv, PutsOK
    <3>3. \A h \in c.heads : Under(c, h) = older'[h]
      BY <1>1, <1>2 DEF Under
    <3> QED BY <3>1, <3>2, <3>3
  <2>2. CASE w # v
    <3>1. ver'[w] = ver[w] /\ ver[w].heads \subseteq listed
      BY <1>6, <2>2 DEF Inv, TypeOK
    <3> QED BY <3>1, <1>5 DEF Inv, HistoryIsReachable
  <2> QED BY <2>1, <2>2
<1> QED BY <1>7, <1>8, <1>9, <1>10, <1>11 DEF Inv

LEMMA PutAgainKeepsInv ==
  ASSUME Inv, NEW n \in Node, PutAgain(n)
  PROVE  Inv'
<1> DEFINE w == Winner(n)
<1>1. /\ call[n].at = "put" /\ call' = [call EXCEPT ![n].on = w]
      /\ dropped' = dropped \cup (ver[w].revisions \ call[n].revisions)
      /\ UNCHANGED <<ver, has, listed, older, stamps>>
  BY DEF PutAgain, Shown
<1>2. w \in Version
  <2>1. has[n] # {}
    BY <1>1 DEF Inv, PutsOK
  <2> QED BY <2>1, WinnerIsLeaf DEF Inv, TypeOK, Leaves
<1> HIDE DEF w
<1>3. /\ call'[n] = [call[n] EXCEPT !.on = w]
      /\ \A m \in Node \ {n} : call'[m] = call[m]
  BY <1>1 DEF Inv, TypeOK
<1>4. call[n] \in [at : {"put"}, on : Version, new : SUBSET Rev, under : SUBSET listed,
             retry : BOOLEAN, heads : SUBSET Rev, revisions : SUBSET Rev]
  BY <1>1 DEF Inv, TypeOK, Idle
<1>5. TypeOK'
  <2>1. ver[w].revisions \subseteq listed
    BY <1>2 DEF Inv, TypeOK
  <2>2. call'[n] \in [at : {"put"}, on : Version, new : SUBSET Rev, under : SUBSET listed,
             retry : BOOLEAN, heads : SUBSET Rev, revisions : SUBSET Rev]
    BY <1>2, <1>3, <1>4
  <2>3. call' \in [Node -> {Idle}
       \cup [at : {"merge"}, us : listed, them : listed]
       \cup [at : {"put"}, on : Version, new : SUBSET Rev, under : SUBSET listed,
             retry : BOOLEAN, heads : SUBSET Rev, revisions : SUBSET Rev]]
    BY <1>1, <1>3, <2>2 DEF Inv, TypeOK
  <2> QED BY <1>1, <2>1, <2>3 DEF Inv, TypeOK, Used
<1>6. LinesOK' /\ AncestryOK' /\ HistoryIsReachable'
  BY <1>1 DEF Inv, LinesOK, AncestryOK, HistoryIsReachable, Used
<1>7. \A k \in Node : /\ call'[k].at = call[k].at
                      /\ call'[k].at = "put" =>
                           /\ call'[k].heads = call[k].heads
                           /\ call'[k].revisions = call[k].revisions
                           /\ call'[k].new = call[k].new
                           /\ call'[k].under = call[k].under
  BY <1>3, <1>4
<1>8. PutsOK'
  <2>1. \A k \in Node : call'[k].at = "put" => \A h : Under(call[k], h)' = Under(call[k], h)
    BY <1>1, <1>7 DEF Under
  <2> SUFFICES ASSUME NEW k \in Node, call'[k].at = "put"
               PROVE
                 /\ has'[k] # {}
                 /\ call'[k].heads \cup call'[k].revisions \subseteq listed' \cup call'[k].new
                 /\ \A q \in call'[k].under : older'[q] \subseteq call'[k].under
                 /\ \A r \in call'[k].new \cap listed' : call'[k].under = older'[r]
                 /\ \A r \in call'[k].revisions : r \in call'[k].heads
                      \/ \E h \in call'[k].heads : r \in Under(call[k], h)'
                 /\ \A m \in Node \ {k} : call'[m].at = "put" =>
                      call'[k].new \cap call'[m].new \subseteq listed'
    BY DEF PutsOK
  <2>2. call[k].at = "put" /\ \A h : Under(call[k], h)' = Under(call[k], h)
    BY <1>7, <2>1
  <2>3. \A m \in Node \ {k} : call'[m].at = "put" =>
          call'[k].new \cap call'[m].new \subseteq listed'
    BY <1>1, <1>7, <2>2 DEF Inv, PutsOK
  <2> QED BY <1>1, <1>7, <2>2, <2>3 DEF Inv, PutsOK
<1> QED BY <1>5, <1>6, <1>8 DEF Inv

(* A call that only moves out of the way of the puts.                      *)
LEMMA NotAPutKeepsInv ==
  ASSUME Inv, NEW n \in Node,
         NEW c \in {Idle} \cup [at : {"merge"}, us : listed, them : listed],
         call' = [call EXCEPT ![n] = c],
         UNCHANGED <<ver, has, listed, older, dropped, stamps>>
  PROVE  Inv'
<1>1. c.at # "put"
  BY DEF Idle
<1>2. call'[n] = c /\ \A m \in Node \ {n} : call'[m] = call[m]
  BY DEF Inv, TypeOK
<1>3. TypeOK'
  BY DEF Inv, TypeOK, Used
<1>4. LinesOK' /\ AncestryOK' /\ HistoryIsReachable'
  BY DEF Inv, LinesOK, AncestryOK, HistoryIsReachable, Used
<1>5. PutsOK'
  <2>1. \A k \in Node : call'[k].at = "put" => k # n /\ call'[k] = call[k]
    BY <1>1, <1>2
  <2>2. \A k \in Node : call'[k].at = "put" => \A h : Under(call[k], h)' = Under(call[k], h)
    BY <2>1 DEF Under
  <2> QED BY <2>1, <2>2 DEF Inv, PutsOK
<1> QED BY <1>3, <1>4, <1>5 DEF Inv

LEMMA ReplicateKeepsInv ==
  ASSUME Inv, NEW n \in Node, NEW m \in Node, Replicate(n, m)
  PROVE  Inv'
<1>1. /\ has' = [has EXCEPT ![m] = @ \cup has[n]]
      /\ UNCHANGED <<ver, listed, older, dropped, call, stamps>>
  BY DEF Replicate, Incoming
<1>2. /\ has'[m] = has[m] \cup has[n]
      /\ \A k \in Node \ {m} : has'[k] = has[k]
  BY <1>1 DEF Inv, TypeOK
<1>3. TypeOK'
  <2>1. has' \in [Node -> SUBSET Version]
    BY <1>1 DEF Inv, TypeOK
  <2>2. ASSUME NEW k \in Node, NEW v \in has'[k]
        PROVE  Used(v)' /\ ver'[v].from \in has'[k] \cup {0}
    <3>1. PICK j \in {k, n} : v \in has[j] /\ has[j] \subseteq has'[k]
      BY <1>2, <2>2
    <3> QED BY <1>1, <3>1 DEF Inv, TypeOK, Used
  <2> QED BY <1>1, <2>1, <2>2 DEF Inv, TypeOK
<1>4. LinesOK' /\ AncestryOK' /\ HistoryIsReachable'
  BY <1>1 DEF Inv, LinesOK, AncestryOK, HistoryIsReachable, Used
<1>5. PutsOK'
  <2>1. \A k \in Node : has[k] # {} => has'[k] # {}
    BY <1>2
  <2> QED BY <1>1, <2>1 DEF Inv, PutsOK, Under
<1> QED BY <1>3, <1>4, <1>5 DEF Inv

-----------------------------------------------------------------------------
LEMMA InitInv ==
  ASSUME Init
  PROVE  Inv
<1> DEFINE d == CHOOSE d \in Device : TRUE
           r == CHOOSE r \in Rev : TRUE
<1>1. d \in Device /\ r \in Rev /\ 1 \in Version
  BY SomeoneCreates DEF Version
<1>2. /\ ver = [v \in Version |-> IF v = 1
           THEN [gen |-> 1, from |-> 0, heads |-> {r}, revisions |-> {r}] ELSE NoBody]
      /\ has = [n \in Node |-> IF n = d THEN {1} ELSE {}]
      /\ older = [q \in Rev |-> {}]
      /\ listed = {r} /\ dropped = {}
      /\ call = [n \in Node |-> Idle] /\ stamps = 0
  BY DEF Init
<1> HIDE DEF d, r
<1>3. TypeOK
  <2>1. ver \in [Version -> [gen : Nat, from : Version \cup {0},
                          heads : SUBSET listed, revisions : SUBSET listed]]
    BY <1>1, <1>2 DEF NoBody
  <2>2. has \in [Node -> SUBSET Version]
    BY <1>1, <1>2
  <2>3. \A n \in Node : \A v \in has[n] : Used(v) /\ ver[v].from \in has[n] \cup {0}
    BY <1>1, <1>2 DEF Used
  <2>4. stamps \in 0..MaxStamps
    BY <1>2
  <2> QED BY <1>1, <1>2, <2>1, <2>2, <2>3, <2>4 DEF TypeOK
<1>4. LinesOK
  <2> SUFFICES ASSUME NEW v \in Version
               PROVE /\ ver[v].from # 0 =>
                          Used(ver[v].from) /\ ver[v].gen = ver[ver[v].from].gen + 1
                     /\ \A g \in 1..ver[v].gen : \E w \in Version : ver[w].gen = g
    BY DEF LinesOK
  <2>1. ver[v].from = 0 /\ ver[v].gen \in {0, 1} /\ ver[1].gen = 1
    BY <1>1, <1>2 DEF NoBody
  <2> QED BY <1>1, <2>1
<1>5. AncestryOK /\ PutsOK
  BY <1>2 DEF AncestryOK, PutsOK, Idle
<1>6. HistoryIsReachable
  BY <1>2 DEF HistoryIsReachable, NoBody
<1> QED BY <1>3, <1>4, <1>5, <1>6 DEF Inv

LEMMA NextInv ==
  ASSUME Inv, [Next]_vars
  PROVE  Inv'
<1>1. CASE UNCHANGED vars
  <2>1. Inv
    OBVIOUS
  <2> QED BY <1>1, <2>1 DEF vars, Inv, TypeOK, LinesOK, AncestryOK, PutsOK, HistoryIsReachable,
       Used, Under
<1>2. ASSUME NEW n \in Editor, NEW base \in Rev, NEW new \in Rev, Fork(n, base, new)
      PROVE  Inv'
  BY EditorsAreNodes, <1>2, ForkKeepsInv DEF Node
<1>3. ASSUME NEW n \in Editor, Stamp(n) PROVE Inv'
  BY EditorsAreNodes, <1>3, StampKeepsInv DEF Node
<1>4. ASSUME NEW n \in Device, Push(n) \/ Pull(n) PROVE Inv'
  BY <1>4, ReplicateKeepsInv DEF Push, Pull, Node
<1>5. ASSUME NEW us \in Rev, NEW them \in Rev, StartMerge(Server, us, them) PROVE Inv'
  <2>1. Server \in Node
    BY DEF Node
  <2>2. us \in listed /\ them \in listed
    <3>1. Winner(Server) \in Version
      BY <1>5, <2>1, WinnerIsLeaf DEF StartMerge, Inv, TypeOK, Leaves
    <3> QED BY <1>5, <3>1 DEF StartMerge, Shown, Inv, TypeOK
  <2> DEFINE c == [at |-> "merge", us |-> us, them |-> them]
  <2>3. c \in {Idle} \cup [at : {"merge"}, us : listed, them : listed]
    BY <2>2
  <2>4. call' = [call EXCEPT ![Server] = c]
        /\ UNCHANGED <<ver, has, listed, older, dropped, stamps>>
    BY <1>5 DEF StartMerge
  <2> HIDE DEF c
  <2> QED BY <2>1, <2>3, <2>4, NotAPutKeepsInv
<1>6. ASSUME FastForward(Server) PROVE Inv'
  BY <1>6, FastForwardKeepsInv DEF Node
<1>7. ASSUME NEW new \in Rev, MergePair(Server, new) PROVE Inv'
  BY <1>7, MergePairKeepsInv DEF Node
<1>8. ASSUME NEW n \in Node, NEW v \in Version, PutOk(n, v) PROVE Inv'
  BY <1>8, PutOkKeepsInv
<1>9. ASSUME NEW n \in Node, PutAgain(n) PROVE Inv'
  BY <1>9, PutAgainKeepsInv
<1>10. ASSUME NEW n \in Node, Abandon(n) PROVE Inv'
  BY <1>10, NotAPutKeepsInv DEF Abandon
<1> QED BY <1>1, <1>2, <1>3, <1>4, <1>5, <1>6, <1>7, <1>8, <1>9, <1>10 DEF Next

LEMMA Invariant == Spec => []Inv
BY InitInv, NextInv, PTL DEF Spec

(* Every state of the replicas has its type; each database holds the whole *)
(* line of each version it holds.                                          *)
THEOREM TypeCorrect == Spec => []TypeOK
<1>1. Inv => TypeOK
  BY DEF Inv
<1> QED BY <1>1, Invariant, PTL

(* Forks, stamps, merges, puts repeated after a 409 and replication never  *)
(* leave a version of the record that lists a revision which cannot be     *)
(* reached from its heads.                                                 *)
THEOREM HistoryStaysReachable == Spec => []HistoryIsReachable
<1>1. Inv => HistoryIsReachable
  BY DEF Inv
<1> QED BY <1>1, Invariant, PTL

-----------------------------------------------------------------------------
(* Nothing that was acknowledged is lost.                                  *)
LEMMA PrepareKeepsKept ==
  ASSUME Inv, KeptOK, NEW n \in Node, NEW drop, NEW new, NEW under, NEW retry,
         ReadAndPrepare(n, drop, new, under, retry)
  PROVE  KeptOK'
<1> DEFINE w == Winner(n)
<1>1. w \in has[n]
  BY WinnerIsLeaf DEF ReadAndPrepare, Inv, Leaves
<1> HIDE DEF w
<1>2. /\ call'[n].on = w /\ call'[n].new = new
      /\ call'[n].revisions = ver[w].revisions \cup new
      /\ \A m \in Node \ {n} : call'[m] = call[m]
      /\ UNCHANGED <<ver, has, listed, dropped>>
  BY DEF ReadAndPrepare, HistoryAfter, Shown, w, Inv, TypeOK
<1>3. ASSUME NEW m \in Node, call'[m].at = "put"
      PROVE  /\ call'[m].on \in has'[m]
             /\ ver'[call'[m].on].revisions \ dropped' \subseteq call'[m].revisions
             /\ call'[m].new \subseteq call'[m].revisions
  <2>1. CASE m = n
    BY <1>1, <1>2, <2>1
  <2>2. CASE m # n
    BY <1>2, <1>3, <2>2 DEF KeptOK
  <2> QED BY <2>1, <2>2
<1> QED BY <1>2, <1>3 DEF KeptOK

LEMMA PutOkKeepsKept ==
  ASSUME Inv, KeptOK, NEW n \in Node, NEW v \in Version, PutOk(n, v)
  PROVE  KeptOK'
<1> DEFINE c == call[n]
<1>1. /\ c.at = "put" /\ c.on \in has[n] /\ c.on \in Version /\ Used(c.on) /\ ~Used(v)
      /\ has' = [has EXCEPT ![n] = @ \cup {v}]
      /\ listed' = listed \cup c.new /\ dropped' = dropped
  BY DEF PutOk, Leaves, Inv, TypeOK
<1>2. /\ ver'[v].from = c.on /\ ver'[v].revisions = c.revisions
      /\ \A w \in Version \ {v} : ver'[w] = ver[w]
      /\ call'[n].at # "put" /\ \A m \in Node \ {n} : call'[m] = call[m]
  BY DEF PutOk, Inv, TypeOK, Idle
<1>3. \A m \in Node : \A w \in has[m] : w \in Version /\ w # v
  BY <1>1 DEF Inv, TypeOK
<1>4. \A m \in Node : has[m] \subseteq has'[m]
  BY <1>1 DEF Inv, TypeOK
<1>5. ASSUME NEW w \in Version, ver'[w].from # 0
      PROVE  ver'[ver'[w].from].revisions \ dropped' \subseteq ver'[w].revisions
  <2>1. CASE w = v
    BY <1>1, <1>2, <1>3, <2>1 DEF KeptOK
  <2>2. CASE w # v
    <3>1. ver'[w] = ver[w] /\ ver[w].from \in Version \ {v}
      BY <1>1, <1>2, <1>5, <2>2 DEF Inv, TypeOK, LinesOK, Version
    <3> QED BY <1>1, <1>2, <1>5, <3>1 DEF KeptOK
  <2> QED BY <2>1, <2>2
<1>6. ASSUME NEW m \in Node, call'[m].at = "put"
      PROVE  /\ call'[m].on \in has'[m]
             /\ ver'[call'[m].on].revisions \ dropped' \subseteq call'[m].revisions
             /\ call'[m].new \subseteq call'[m].revisions
  <2>1. m # n /\ call'[m] = call[m]
    BY <1>2, <1>6
  <2> QED BY <1>1, <1>2, <1>3, <1>4, <1>6, <2>1 DEF KeptOK
<1>7. ASSUME NEW r \in listed' PROVE \E m \in Node : \E w \in has'[m] : r \in ver'[w].revisions
  <2>1. CASE r \in c.new
    <3>1. v \in has'[n] /\ r \in ver'[v].revisions
      BY <1>1, <1>2, <2>1 DEF KeptOK, Inv, TypeOK
    <3> QED BY <3>1
  <2>2. CASE r \in listed
    <3>1. PICK m \in Node : \E w \in has[m] : r \in ver[w].revisions
      BY <2>2 DEF KeptOK
    <3>2. PICK w \in has[m] : r \in ver[w].revisions
      BY <3>1
    <3>3. w \in has'[m] /\ r \in ver'[w].revisions
      BY <1>2, <1>3, <1>4, <3>2
    <3> QED BY <3>3
  <2> QED BY <1>1, <1>7, <2>1, <2>2
<1> QED BY <1>5, <1>6, <1>7 DEF KeptOK

LEMMA PutAgainKeepsKept ==
  ASSUME Inv, KeptOK, NEW n \in Node, PutAgain(n)
  PROVE  KeptOK'
<1> DEFINE w == Winner(n)
<1>1. w \in has[n]
  BY WinnerIsLeaf DEF PutAgain, Inv, PutsOK, Leaves
<1> HIDE DEF w
<1>2. /\ call[n] \in [at : {"put"}, on : Version, new : SUBSET Rev, under : SUBSET listed,
             retry : BOOLEAN, heads : SUBSET Rev, revisions : SUBSET Rev]
      /\ call'[n] = [call[n] EXCEPT !.on = w]
      /\ \A m \in Node \ {n} : call'[m] = call[m]
      /\ dropped' = dropped \cup (ver[w].revisions \ call[n].revisions)
      /\ UNCHANGED <<ver, has, listed>>
  BY DEF PutAgain, Shown, w, Inv, TypeOK, Idle
<1>3. call'[n].on = w /\ call'[n].new = call[n].new /\ call'[n].revisions = call[n].revisions
      /\ call[n].at = "put"
  BY <1>2
<1>4. ASSUME NEW m \in Node, call'[m].at = "put"
      PROVE  /\ call'[m].on \in has'[m]
             /\ ver'[call'[m].on].revisions \ dropped' \subseteq call'[m].revisions
             /\ call'[m].new \subseteq call'[m].revisions
  <2>1. CASE m = n
    BY <1>1, <1>2, <1>3, <2>1 DEF KeptOK
  <2>2. CASE m # n
    BY <1>2, <1>4, <2>2 DEF KeptOK
  <2> QED BY <2>1, <2>2
<1>5. \A v \in Version : ver[v].from # 0 =>
        ver[ver[v].from].revisions \ dropped' \subseteq ver[v].revisions
  BY <1>2 DEF KeptOK
<1> QED BY <1>2, <1>4, <1>5 DEF KeptOK

LEMMA NotAPutKeepsKept ==
  ASSUME Inv, KeptOK, NEW n \in Node, NEW c, c.at # "put",
         call' = [call EXCEPT ![n] = c], UNCHANGED <<ver, has, listed, older, dropped>>
  PROVE  KeptOK'
<1>1. call'[n] = c /\ \A m \in Node \ {n} : call'[m] = call[m]
  BY DEF Inv, TypeOK
<1>2. \A m \in Node : call'[m].at = "put" => call'[m] = call[m]
  BY <1>1
<1> QED BY <1>2 DEF KeptOK

LEMMA ReplicateKeepsKept ==
  ASSUME Inv, KeptOK, NEW n \in Node, NEW m \in Node, Replicate(n, m)
  PROVE  KeptOK'
<1>1. \A k \in Node : has[k] \subseteq has'[k]
  BY DEF Replicate, Inv, TypeOK
<1>2. UNCHANGED <<ver, listed, dropped, call>>
  BY DEF Replicate
<1> QED BY <1>1, <1>2 DEF KeptOK

LEMMA NextKept ==
  ASSUME Inv, KeptOK, [Next]_vars
  PROVE  KeptOK'
<1>1. CASE UNCHANGED vars
  BY <1>1 DEF vars, KeptOK
<1>2. ASSUME NEW n \in Editor, NEW base \in Rev, NEW new \in Rev, Fork(n, base, new)
      PROVE  KeptOK'
  BY EditorsAreNodes, <1>2, PrepareKeepsKept DEF Fork, Node
<1>3. ASSUME NEW n \in Editor, Stamp(n) PROVE KeptOK'
  BY EditorsAreNodes, <1>3, PrepareKeepsKept DEF Stamp, Node
<1>4. ASSUME NEW n \in Device, Push(n) \/ Pull(n) PROVE KeptOK'
  BY <1>4, ReplicateKeepsKept DEF Push, Pull, Node
<1>5. ASSUME NEW us \in Rev, NEW them \in Rev, StartMerge(Server, us, them) PROVE KeptOK'
  <2> DEFINE c == [at |-> "merge", us |-> us, them |-> them]
  <2>1. c.at # "put"
    OBVIOUS
  <2>2. call' = [call EXCEPT ![Server] = c] /\ UNCHANGED <<ver, has, listed, older, dropped>>
    BY <1>5 DEF StartMerge
  <2> HIDE DEF c
  <2> QED BY <2>1, <2>2, NotAPutKeepsKept DEF Node
<1>6. ASSUME FastForward(Server) PROVE KeptOK'
  BY <1>6, PrepareKeepsKept DEF FastForward, Node
<1>7. ASSUME NEW new \in Rev, MergePair(Server, new) PROVE KeptOK'
  BY <1>7, PrepareKeepsKept DEF MergePair, Node
<1>8. ASSUME NEW n \in Node, NEW v \in Version, PutOk(n, v) PROVE KeptOK'
  BY <1>8, PutOkKeepsKept
<1>9. ASSUME NEW n \in Node, PutAgain(n) PROVE KeptOK'
  BY <1>9, PutAgainKeepsKept
<1>10. ASSUME NEW n \in Node, Abandon(n) PROVE KeptOK'
  <2>1. Idle.at # "put"
    BY DEF Idle
  <2> QED BY <1>10, <2>1, NotAPutKeepsKept DEF Abandon
<1> QED BY <1>1, <1>2, <1>3, <1>4, <1>5, <1>6, <1>7, <1>8, <1>9, <1>10 DEF Next

LEMMA InitKept ==
  ASSUME Init
  PROVE  KeptOK
<1> DEFINE d == CHOOSE d \in Device : TRUE
           r == CHOOSE r \in Rev : TRUE
<1>1. d \in Node /\ 1 \in Version
  BY SomeoneCreates DEF Version, Node
<1>2. /\ ver = [v \in Version |-> IF v = 1
           THEN [gen |-> 1, from |-> 0, heads |-> {r}, revisions |-> {r}] ELSE NoBody]
      /\ has = [n \in Node |-> IF n = d THEN {1} ELSE {}]
      /\ listed = {r} /\ call = [n \in Node |-> Idle]
  BY DEF Init
<1> HIDE DEF d, r
<1>3. 1 \in has[d] /\ ver[1].revisions = {r}
  BY <1>1, <1>2
<1>4. \A v \in Version : ver[v].from = 0
  BY <1>2 DEF NoBody
<1> QED BY <1>1, <1>2, <1>3, <1>4 DEF KeptOK, Idle

(* The longest line of a database that lists r ends in a leaf.             *)
LEMMA KeptInALeaf ==
  ASSUME Inv, KeptOK
  PROVE  AcknowledgedIsKept
<1> SUFFICES ASSUME NEW r \in listed \ dropped
             PROVE  \E n \in Node : \E v \in Leaves(n) : r \in ver[v].revisions
  BY DEF AcknowledgedIsKept
<1>1. PICK n \in Node : \E v \in has[n] : r \in ver[v].revisions
  BY DEF KeptOK
<1> DEFINE S == {v \in has[n] : r \in ver[v].revisions}
           G == {ver[v].gen : v \in S}
<1>2. S \subseteq Version /\ S # {} /\ \A v \in S : ver[v].gen \in 0..MaxVersion
  BY <1>1, LineLength DEF Inv, TypeOK
<1>3. PICK g \in G : \A h \in G : h <= g
  <2>1. G \in SUBSET (0..MaxVersion) /\ G # {} /\ MaxVersion \in Nat
    BY <1>2
  <2> HIDE DEF G
  <2> QED BY <2>1, Greatest
<1>4. PICK v \in S : ver[v].gen = g
  OBVIOUS
<1>5. ASSUME NEW w \in has[n], ver[w].from = v PROVE FALSE
  <2>1. w \in Version /\ v \in Version /\ v # 0
    BY <1>2 DEF Inv, TypeOK, Version
  <2>2. w \in S
    BY <1>5, <2>1 DEF KeptOK
  <2>3. ver[w].gen = ver[v].gen + 1
    BY <1>5, <2>1 DEF Inv, LinesOK
  <2>4. ver[w].gen <= ver[v].gen
    BY <1>3, <1>4, <2>2
  <2> QED BY <1>2, <2>3, <2>4
<1> QED BY <1>5 DEF Leaves

(* Every revision that a put has listed is on a leaf of some database,     *)
(* unless a put that was repeated after a 409 wrote over it.               *)
THEOREM AcknowledgedStays == Spec => []AcknowledgedIsKept
<1>1. Init => Inv /\ KeptOK
  BY InitInv, InitKept
<1>2. Inv /\ KeptOK /\ [Next]_vars => (Inv /\ KeptOK)'
  BY NextInv, NextKept
<1>3. Inv /\ KeptOK => AcknowledgedIsKept
  BY KeptInALeaf
<1> QED BY <1>1, <1>2, <1>3, PTL DEF Spec
=============================================================================
