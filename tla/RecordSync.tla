------------------------------ MODULE RecordSync ------------------------------
(***************************************************************************)
(* One record document on several databases that replicate: each device's  *)
(* PouchDB and the server's CouchDB.  Every put makes a new version of the *)
(* document, the child of the version whose `_rev` it quotes.  Two         *)
(* databases that put on one version leave two leaves once they replicate; *)
(* all of them keep both and show one, the same everywhere (the winner).   *)
(* The engine, and updateHeads of the merging code, read the winner only.  *)
(***************************************************************************)
EXTENDS Naturals, FiniteSets

CONSTANTS
  Device,      \* devices of the field app
  Server,      \* the server's database
  Editor,      \* databases on which the record is edited: devices, and the
               \* server through the records API
  Rev,         \* ids of revisions of the record
  MaxVersion,  \* bound: versions of the record document in a behaviour
  MaxStamps,   \* bound: stamps in a behaviour
  MaxOpen      \* bound: databases with a call under way at one time

ASSUME ServerIsNoDevice == Server \notin Device
ASSUME EditorsAreNodes == Editor \subseteq Device \cup {Server}
ASSUME SomeoneCreates == Device # {} /\ Rev # {}
ASSUME BoundsAreNumbers == MaxVersion \in Nat \ {0} /\ MaxStamps \in Nat

VARIABLES
  ver,      \* versions of the document; the order of their ids is that of
            \* the hashes in their `_rev`, so a put may take any free id
  has,      \* the versions each database holds
  listed,   \* history: revisions that a put has listed, so that the call
            \* that made them has returned
  older,    \* ancestors of each revision, fixed when it is listed
  dropped,  \* history: revisions that a put repeated after a 409 wrote over
  call,     \* the call under way on each database
  stamps    \* stamps so far

vars == <<ver, has, listed, older, dropped, call, stamps>>

Node    == Device \cup {Server}
Version == 1..MaxVersion
Idle    == [at |-> "idle"]
NoBody  == [gen |-> 0, from |-> 0, heads |-> {}, revisions |-> {}]
Used(v) == ver[v].gen > 0

(* The versions a database holds without a child.                          *)
Leaves(n) == {v \in has[n] : \A w \in has[n] : ver[w].from # v}

(* The version a get returns: the longest line, then the greatest hash.    *)
Winner(n) == CHOOSE v \in Leaves(n) : \A w \in Leaves(n) :
  ver[w].gen < ver[v].gen \/ (ver[w].gen = ver[v].gen /\ w <= v)

Shown(n) == ver[Winner(n)]
Knows(n) == UNION {ver[v].revisions : v \in has[n]}

-----------------------------------------------------------------------------
(* A device has created the record, with its first revision.  Nothing      *)
(* competes with the first version, so its place in the order is free.     *)
Init ==
  LET d == CHOOSE d \in Device : TRUE
      r == CHOOSE r \in Rev : TRUE
  IN
    /\ ver = [v \in Version |-> IF v = 1
         THEN [gen |-> 1, from |-> 0, heads |-> {r}, revisions |-> {r}] ELSE NoBody]
    /\ has = [n \in Node |-> IF n = d THEN {1} ELSE {}]
    /\ older = [q \in Rev |-> {}]
    /\ listed = {r} /\ dropped = {}
    /\ call = [n \in Node |-> Idle] /\ stamps = 0

(* Mutant: only the new head is listed.                                    *)
OnlyNew(heads, drop, new) == new

(* Heads after a revision was added over those it replaces.                *)
HeadsAfter(heads, drop, new) == (heads \cup new) \ drop

(* Mutant: the history starts again at the new head.                       *)
HistoryRestarted(revisions, new) == new

HistoryAfter(revisions, new) == revisions \cup new

(* Read the record as it is shown and prepare to put it back, with `new`   *)
(* listed, whose ancestors are `under`, in place of the heads in `drop`.   *)
ReadAndPrepare(n, drop, new, under, retry) ==
  /\ has[n] # {}
  /\ call' = [call EXCEPT ![n] =
       [at |-> "put", on |-> Winner(n), new |-> new, under |-> under,
        retry |-> retry,
        heads |-> HeadsAfter(Shown(n).heads, drop, new),
        revisions |-> HistoryAfter(Shown(n).revisions, new)]]
  /\ UNCHANGED <<ver, has, listed, older, dropped>>

(* A new revision takes an id nobody has used; which one makes no          *)
(* difference.  Until a put lists it, only its call knows it.              *)
IsNew(r) ==
  LET taken == listed \cup UNION {call[n].new : n \in {m \in Node : call[m].at = "put"}}
  IN r \notin taken /\ r = CHOOSE q \in Rev : q \notin taken

-----------------------------------------------------------------------------
(* Bounds: a call starts while there is a version left for its put and not *)
(* too many others are open.                                               *)
MayStart(n) ==
  LET open == Cardinality({m \in Node : call[m] # Idle})
  IN /\ call[n] = Idle /\ open < MaxOpen
     /\ Cardinality({v \in Version : Used(v)}) + open < MaxVersion

(* createRevision (or deleteRecord) on a revision that the database knows, *)
(* perhaps one that is no longer shown: a form has it open.                *)
Fork(n, base, new) ==
  /\ MayStart(n) /\ base \in Knows(n) /\ IsNew(new)
  /\ ReadAndPrepare(n, {base}, {new}, older[base] \cup {base}, TRUE)
  /\ UNCHANGED stamps

(* stampRecordUpdatedAt.                                                   *)
Stamp(n) ==
  /\ MayStart(n) /\ stamps < MaxStamps
  /\ ReadAndPrepare(n, {}, {}, {}, TRUE)
  /\ stamps' = stamps + 1

(* mergeHeads takes two of the heads that are shown.                       *)
StartMerge(n, us, them) ==
  /\ MayStart(n) /\ has[n] # {}
  /\ {us, them} \subseteq Shown(n).heads /\ us # them
  /\ call' = [call EXCEPT ![n] = [at |-> "merge", us |-> us, them |-> them]]
  /\ UNCHANGED <<ver, has, listed, older, dropped, stamps>>

(* The one head is an ancestor of the other: it stops being a head.        *)
FastForward(n) ==
  /\ call[n].at = "merge"
  /\ \E old, young \in {call[n].us, call[n].them} :
       /\ old \in older[young]
       /\ ReadAndPrepare(n, {old}, {young}, older[young], FALSE)
  /\ UNCHANGED stamps

(* The fields could be merged: a revision with both as parents.            *)
MergePair(n, new) ==
  /\ call[n].at = "merge" /\ IsNew(new)
  /\ LET both == {call[n].us, call[n].them} IN
       ReadAndPrepare(n, both, {new}, both \cup UNION {older[r] : r \in both}, FALSE)
  /\ UNCHANGED stamps

-----------------------------------------------------------------------------
(* The put is accepted when what it quotes is still a leaf, shown or not.  *)
PutOk(n, v) ==
  /\ call[n].at = "put" /\ call[n].on \in Leaves(n) /\ ~Used(v)
  /\ ver' = [ver EXCEPT ![v] =
       [gen |-> ver[call[n].on].gen + 1, from |-> call[n].on,
        heads |-> call[n].heads, revisions |-> call[n].revisions]]
  /\ has' = [has EXCEPT ![n] = @ \cup {v}]
  /\ listed' = listed \cup call[n].new
  /\ older' = [r \in Rev |-> IF r \in call[n].new THEN call[n].under ELSE older[r]]
  /\ call' = [call EXCEPT ![n] = Idle]
  /\ UNCHANGED <<dropped, stamps>>

(* 409: updateDocument quotes the version that is shown now and puts the   *)
(* same body again.                                                        *)
PutAgain(n) ==
  /\ call[n].at = "put" /\ call[n].on \notin Leaves(n) /\ call[n].retry
  /\ call' = [call EXCEPT ![n].on = Winner(n)]
  /\ dropped' = dropped \cup (Shown(n).revisions \ call[n].revisions)
  /\ UNCHANGED <<ver, has, listed, older, stamps>>

(* A call ends without its put: the put of updateHeads clashes and throws, *)
(* the fields of two heads cannot be merged, or the client stops.          *)
Abandon(n) ==
  /\ call[n] # Idle
  /\ call' = [call EXCEPT ![n] = Idle]
  /\ UNCHANGED <<ver, has, listed, older, dropped, stamps>>

-----------------------------------------------------------------------------
(* Mutants: the winner without its line; only lines longer than our own.   *)
JustTheWinner(source, target) == {Winner(source)}
LongerLines(source, target) ==
  IF has[target] = {} THEN has[source]
  ELSE {v \in has[source] : ver[v].gen > Shown(target).gen}

(* What a replication brings: all the leaves of the source, each with its  *)
(* line.                                                                   *)
Incoming(source, target) == has[source]

Replicate(source, target) ==
  /\ has[source] # {} /\ ~(Incoming(source, target) \subseteq has[target])
  /\ has' = [has EXCEPT ![target] = @ \cup Incoming(source, target)]
  /\ UNCHANGED <<ver, listed, older, dropped, call, stamps>>

Push(d) == Replicate(d, Server)
Pull(d) == Replicate(Server, d)

Next ==
  \/ \E n \in Editor : (\E base, new \in Rev : Fork(n, base, new)) \/ Stamp(n)
  \/ \E d \in Device : Push(d) \/ Pull(d)
  \/ \E us, them \in Rev : StartMerge(Server, us, them)
  \/ FastForward(Server)
  \/ \E new \in Rev : MergePair(Server, new)
  \/ \E n \in Node :
       \/ \E v \in Version : PutOk(n, v)
       \/ PutAgain(n) \/ Abandon(n)

Fairness == \A d \in Device : WF_vars(Push(d)) /\ WF_vars(Pull(d))

Spec == Init /\ [][Next]_vars /\ Fairness

-----------------------------------------------------------------------------
(* Types; and a database that holds a version holds the line it grew from. *)
TypeOK ==
  /\ ver \in [Version -> [gen : Nat, from : Version \cup {0},
                          heads : SUBSET listed, revisions : SUBSET listed]]
  /\ has \in [Node -> SUBSET Version]
  /\ stamps \in 0..MaxStamps
  /\ listed \subseteq Rev /\ dropped \subseteq listed
  /\ older \in [Rev -> SUBSET listed]
  /\ call \in [Node -> {Idle}
       \cup [at : {"merge"}, us : listed, them : listed]
       \cup [at : {"put"}, on : Version, new : SUBSET Rev, under : SUBSET listed,
             retry : BOOLEAN, heads : SUBSET Rev, revisions : SUBSET Rev]]
  /\ \A n \in Node : \A v \in has[n] : Used(v) /\ ver[v].from \in has[n] \cup {0}

(* However replicas fork, stamp, merge, replicate and write over each      *)
(* other: in every version of the document, each revision it lists is a    *)
(* head or an ancestor of a head, so a reader that starts at the heads     *)
(* finds the whole history (updateRecordHeads, updateHeads).               *)
HistoryIsReachable ==
  \A v \in Version : \A r \in ver[v].revisions :
    r \in ver[v].heads \/ \E h \in ver[v].heads : r \in older[h]

(* A fork, a delete or a merge that has returned is still listed by a      *)
(* version that some database has as a leaf, through every conflict and    *)
(* loss of a race: nothing but a put repeated after a 409 takes it out.    *)
AcknowledgedIsKept ==
  \A r \in listed \ dropped :
    \E n \in Node : \E v \in Leaves(n) : r \in ver[v].revisions

(* first-notebook-tutorial.md: "If multiple team members edit the same      *)
(* record while offline, FAIMS has a conflict resolution interface": what   *)
(* it has to go by is the record that is shown, so once every replica is   *)
(* up to date no revision may be missing from what its heads lead to.      *)
ConflictIsShown ==
  (\A n \in Node : has[n] = has[Server] /\ call[n] = Idle) =>
    \A r \in listed \ dropped :
      r \in Shown(Server).heads \/ \E h \in Shown(Server).heads : r \in older[h]

(* Once the edits are over, every replica shows the same record, whatever  *)
(* the order in which it was sent (createPouchDbReplication: PouchDB.sync   *)
(* in both directions, live and retried).                                  *)
Converges == <>[](\A n, m \in Node : has[n] # {} /\ Shown(n) = Shown(m))

-----------------------------------------------------------------------------
(* What makes TypeOK and HistoryIsReachable inductive.                     *)

(* A version is one longer than the one it grew from, and no length is     *)
(* skipped, so lines are no longer than MaxVersion.                        *)
LinesOK ==
  \A v \in Version :
    /\ ver[v].from # 0 =>
         Used(ver[v].from) /\ ver[v].gen = ver[ver[v].from].gen + 1
    /\ \A g \in 1..ver[v].gen : \E w \in Version : ver[w].gen = g

(* Ancestry is a strict partial order.                                     *)
AncestryOK ==
  \A r \in Rev : r \notin older[r] /\ \A q \in older[r] : older[q] \subseteq older[r]

(* Where h leads, once the put of call c is stored.                        *)
Under(c, h) == IF h \in c.new THEN c.under ELSE older[h]

(* A put on its way keeps the whole history reachable, and no other call   *)
(* lists the revision it has made.                                         *)
PutsOK ==
  \A n \in Node : call[n].at = "put" =>
    /\ has[n] # {}
    /\ call[n].heads \cup call[n].revisions \subseteq listed \cup call[n].new
    /\ \A q \in call[n].under : older[q] \subseteq call[n].under
    /\ \A r \in call[n].new \cap listed : call[n].under = older[r]
    /\ \A r \in call[n].revisions : r \in call[n].heads
         \/ \E h \in call[n].heads : r \in Under(call[n], h)
    /\ \A m \in Node \ {n} : call[m].at = "put" =>
         call[n].new \cap call[m].new \subseteq listed

Inv == TypeOK /\ LinesOK /\ AncestryOK /\ PutsOK /\ HistoryIsReachable

(* What makes AcknowledgedIsKept inductive: what a version lists, its      *)
(* children list, but for what was dropped on the way.                     *)
KeptOK ==
  /\ \A v \in Version : ver[v].from # 0 =>
       ver[ver[v].from].revisions \ dropped \subseteq ver[v].revisions
  /\ \A n \in Node : call[n].at = "put" =>
       /\ call[n].on \in has[n]
       /\ ver[call[n].on].revisions \ dropped \subseteq call[n].revisions
       /\ call[n].new \subseteq call[n].revisions
  /\ \A r \in listed : \E n \in Node : \E v \in has[n] : r \in ver[v].revisions
=============================================================================
