--------------------------- MODULE ContextualLayers ---------------------------
(***************************************************************************)
(* The map layers a device keeps for use without a network                 *)
(* (app/src/gui/components/maps/contextualLayerStore.ts): downloads that   *)
(* run side by side and may be cancelled, the index of the files, and the  *)
(* clean-up of files that the index does not name.                         *)
(*                                                                         *)
(* Four things keep them apart: a chain per asset lets one download of it  *)
(* run at a time; a limited number of transfers run, the others wait in    *)
(* line; a mutex lets one commit or clean-up change the index and delete   *)
(* files at a time; and a clean-up spares the files being written.  Every  *)
(* await is the end of a step.  A call is for one layer: a batch is one    *)
(* call after the other.                                                   *)
(***************************************************************************)
EXTENDS Naturals, FiniteSets, SequencesExt

CONSTANTS
  Asset, Hash,    \* the layers, and the contents their listings name
  Download,       \* bound: calls of downloadContextualLayers
  Cleaner,        \* callers of retain, release and remove
  MaxTransfers,   \* MAP_LAYER_DOWNLOAD_CONCURRENCY
  MaxRestarts,    \* bound: times the app is killed and started again
  None

ASSUME NoneIsNew == None \notin Hash
ASSUME NumbersAreNatural == MaxTransfers \in Nat \ {0} /\ MaxRestarts \in Nat
ASSUME TasksDiffer == Download \cap Cleaner = {}

File == Asset \X Hash   \* filenameFor
Task == Download \cup Cleaner

VARIABLES
  native,     \* the device: TRUE Android or iOS, FALSE a browser
  index,      \* `files`, persisted: the content stored of an asset, or None
  disk,       \* each file: "none", "partial" or "whole"
  dl,         \* each call; left is the native transfer it has given up
  chain,      \* layerDownloadChains: per asset, who runs and who waits
  active,     \* activeLayerTransfers
  waiters,    \* layerTransferWaiters
  lock,       \* runFileIndexMutation: who runs and who waits
  purge,      \* of a task that holds the mutex: what it deletes
  restarts    \* count for the bound MaxRestarts

vars == <<native, index, disk, dl, chain, active, waiters, lock, purge, restarts>>

New  == [at |-> "new", asset |-> None, hash |-> None, cancelled |-> FALSE, left |-> "none"]
NoPurge == [step |-> "none", files |-> {}]

-----------------------------------------------------------------------------
Init ==
  /\ native \in BOOLEAN
  /\ index = [a \in Asset |-> None]
  /\ disk = [f \in File |-> "none"]
  /\ dl = [d \in Download |-> New]
  /\ chain = [a \in Asset |-> <<>>]
  /\ active = 0 /\ waiters = <<>>
  /\ lock = <<>> /\ purge = [t \in Task |-> NoPurge]
  /\ restarts = 0

FileOf(d) == <<dl[d].asset, dl[d].hash>>

Named(a) == IF index[a] = None THEN {} ELSE {<<a, index[a]>>}

(* inFlightFileWrites: from the slot to the end of the commit.             *)
inFlightFileWrites ==
  {FileOf(d) : d \in {e \in Download :
                        dl[e].at \in {"grant", "transfer", "write", "undo", "fresh"}}}

(* Mutant: the chain goes on while a native transfer is still running.     *)
Returned(state) == state.at = "ended"

(* Mutant: a cancelled call forgets to let the next one in.                *)
NotCancelled(state) == state.at = "ended" /\ state.left = "none" /\ ~state.cancelled

(* runLayerDownloadExclusive: the call has returned, its leftovers settled. *)
Finished(state) == state.at = "ended" /\ state.left = "none"

Leave(a, d, state) ==
  chain' = IF Finished(state) THEN [chain EXCEPT ![a] = RemoveFirst(@, d)] ELSE chain

Goes(d, state) == dl' = [dl EXCEPT ![d] = state] /\ Leave(dl[d].asset, d, state)

-----------------------------------------------------------------------------
(* await previous: the first to call, of those that are not done, runs.    *)
IsFirst(t, queue) == queue # <<>> /\ Head(queue) = t

(* Mutant: the slot is counted as free also when it is handed on.          *)
AlwaysFree == active - 1

SlotsLeft == IF waiters = <<>> THEN active - 1 ELSE active

(* releaseLayerTransferSlot: hand it to the first waiter, who gets it      *)
(* unless it has been told that it is cancelled; and d goes on.            *)
FreeSlot(d, state) ==
  /\ active' = SlotsLeft
  /\ waiters' = IF waiters = <<>> THEN <<>> ELSE Tail(waiters)
  /\ dl' = [e \in Download |->
       IF e = d THEN state
       ELSE IF waiters # <<>> /\ e = Head(waiters) /\ dl[e].at = "slot"
       THEN [dl[e] EXCEPT !.at = "grant"] ELSE dl[e]]
  /\ Leave(dl[d].asset, d, state)

(* downloadContextualLayers for one layer of a listing.                    *)
Call(d, a, h) ==
  /\ dl[d].at = "new"
  /\ dl' = [dl EXCEPT ![d] = [New EXCEPT !.at = "chain", !.asset = a, !.hash = h]]
  /\ chain' = [chain EXCEPT ![a] = Append(@, d)]
  /\ UNCHANGED <<native, index, disk, active, waiters, lock, purge, restarts>>

(* The asset's turn has come: look at the index, take a slot or wait.      *)
Enter(d) ==
  /\ dl[d].at = "chain" /\ IsFirst(d, chain[dl[d].asset])
  /\ IF dl[d].cancelled
     THEN Goes(d, [dl[d] EXCEPT !.at = "ended"]) /\ UNCHANGED <<active, waiters, lock>>
     ELSE IF index[dl[d].asset] = dl[d].hash
     THEN /\ Goes(d, [dl[d] EXCEPT !.at = "reuse"])
          /\ lock' = Append(lock, d) /\ UNCHANGED <<active, waiters>>
     ELSE IF active < MaxTransfers
     THEN /\ Goes(d, [dl[d] EXCEPT !.at = "grant"])
          /\ active' = active + 1 /\ UNCHANGED <<waiters, lock>>
     ELSE /\ Goes(d, [dl[d] EXCEPT !.at = "slot"])
          /\ waiters' = Append(waiters, d) /\ UNCHANGED <<active, lock>>
  /\ UNCHANGED <<native, index, disk, purge, restarts>>

(* Mutant: a cancelled waiter stays in the line.                           *)
StaysInLine(d) == waiters

LeavesLine(d) == RemoveFirst(waiters, d)

(* The user cancels.  A wait for a slot and a fetch end at once; a native  *)
(* transfer cannot be stopped and is left to itself; a call that waits for *)
(* its asset, that writes its bytes or commits only finds out later.       *)
Cancel(d) ==
  /\ dl[d].at \notin {"new", "ended"} /\ ~dl[d].cancelled
  /\ LET state == [dl[d] EXCEPT !.cancelled = TRUE] IN
       CASE dl[d].at = "slot" ->
              Goes(d, [state EXCEPT !.at = "ended"]) /\ waiters' = LeavesLine(d)
         [] dl[d].at \in {"grant", "transfer"} ->
              /\ Goes(d, [state EXCEPT !.at = "undo",
                   !.left = IF native /\ dl[d].at = "transfer" THEN "running" ELSE @])
              /\ UNCHANGED waiters
         [] OTHER -> Goes(d, state) /\ UNCHANGED waiters
  /\ UNCHANGED <<native, index, disk, active, lock, purge, restarts>>

(* The server grants a URL; a native transfer writes its file from then on. *)
Granted(d) ==
  /\ dl[d].at = "grant"
  /\ Goes(d, [dl[d] EXCEPT !.at = "transfer"])
  /\ disk' = IF native THEN [disk EXCEPT ![FileOf(d)] = "partial"] ELSE disk
  /\ UNCHANGED <<native, index, active, waiters, lock, purge, restarts>>

(* A browser has all bytes in memory before it opens the file.             *)
BodyRead(d) ==
  /\ dl[d].at = "transfer" /\ ~native
  /\ Goes(d, [dl[d] EXCEPT !.at = "write"])
  /\ disk' = [disk EXCEPT ![FileOf(d)] = "partial"]
  /\ UNCHANGED <<native, index, active, waiters, lock, purge, restarts>>

(* The file is written: give the slot back, and queue for the index.       *)
Written(d) ==
  /\ dl[d].at = (IF native THEN "transfer" ELSE "write")
  /\ disk' = [disk EXCEPT ![FileOf(d)] = "whole"]
  /\ IF dl[d].cancelled
     THEN FreeSlot(d, [dl[d] EXCEPT !.at = "ended"]) /\ UNCHANGED lock
     ELSE FreeSlot(d, [dl[d] EXCEPT !.at = "fresh"]) /\ lock' = Append(lock, d)
  /\ UNCHANGED <<native, index, purge, restarts>>

TransferFails(d) ==
  /\ dl[d].at \in {"grant", "transfer", "write"}
  /\ Goes(d, [dl[d] EXCEPT !.at = "undo"])
  /\ UNCHANGED <<native, index, disk, active, waiters, lock, purge, restarts>>

(* The file is removed, then the slot is given back and the call throws.   *)
Undo(d) ==
  /\ dl[d].at = "undo"
  /\ disk' = [disk EXCEPT ![FileOf(d)] = "none"]
  /\ FreeSlot(d, [dl[d] EXCEPT !.at = "ended"])
  /\ UNCHANGED <<native, index, lock, purge, restarts>>

(* downloadNativeLayerFileUntilCancelled: the transfer that was left to    *)
(* itself ends, one way or the other; then its file is removed.            *)
LeftoverSettles(d) ==
  /\ dl[d].left = "running"
  /\ Goes(d, [dl[d] EXCEPT !.left = "remove"])
  /\ \E found \in {disk[FileOf(d)], "partial", "whole"} :
       disk' = [disk EXCEPT ![FileOf(d)] = found]
  /\ UNCHANGED <<native, index, active, waiters, lock, purge, restarts>>

LeftoverRemoved(d) ==
  /\ dl[d].left = "remove"
  /\ Goes(d, [dl[d] EXCEPT !.left = "none"])
  /\ disk' = [disk EXCEPT ![FileOf(d)] = "none"]
  /\ UNCHANGED <<native, index, active, waiters, lock, purge, restarts>>

-----------------------------------------------------------------------------
(* Mutant: whoever is in the queue may go on.                              *)
InQueue(t) == \E i \in DOMAIN lock : lock[i] = t

(* createAsyncMutex: first come, first served.                             *)
HasLock(t) == IsFirst(t, lock)

Turn(t) == HasLock(t) /\ purge[t].step = "none"

(* indexDownloadedLayer and commitFiles: name the file, then delete the    *)
(* one it replaces.                                                        *)
Commit(d) ==
  /\ dl[d].at \in {"fresh", "reuse"} /\ Turn(d)
  /\ index' = [index EXCEPT ![dl[d].asset] = dl[d].hash]
  /\ purge' = [purge EXCEPT ![d] =
       [step |-> "replaced", files |-> Named(dl[d].asset) \ {FileOf(d)}]]
  /\ UNCHANGED <<native, disk, dl, chain, active, waiters, lock, restarts>>

(* A clean-up is called, of one of the kinds below.                        *)
Clean(g) ==
  /\ \A i \in DOMAIN lock : lock[i] # g
  /\ lock' = Append(lock, g)
  /\ UNCHANGED <<native, index, disk, dl, chain, active, waiters, purge, restarts>>

(* retainListedContextualLayers, releaseContextualLayersForProject and     *)
(* removeContextualLayerFromDevice, once they have the mutex: the index    *)
(* keeps the assets the caller asked for, and the files of the others go;  *)
(* to remove a file that is not there is to do nothing.                    *)
Drop(g) ==
  /\ Turn(g)
  /\ \/ \E keep \in SUBSET Asset :
          /\ index' = [a \in Asset |-> IF a \in keep THEN index[a] ELSE None]
          /\ purge' = [purge EXCEPT ![g] =
               [step |-> "replaced", files |-> UNION {Named(a) : a \in Asset \ keep}]]
          /\ UNCHANGED lock
     \/ /\ \E a \in Asset : index[a] = None
        /\ lock' = Tail(lock) /\ UNCHANGED <<index, purge>>
  /\ UNCHANGED <<native, disk, dl, chain, active, waiters, restarts>>

(* removeDeviceFile; several run at once, in any order.                    *)
Delete(t, f) ==
  /\ f \in purge[t].files
  /\ disk' = [disk EXCEPT ![f] = "none"]
  /\ purge' = [purge EXCEPT ![t].files = @ \ {f}]
  /\ UNCHANGED <<native, index, dl, chain, active, waiters, lock, restarts>>

(* deleteUnreferencedFiles: what is on disk, not named and not in flight.  *)
Unreferenced ==
  {f \in File : disk[f] # "none"} \ (inFlightFileWrites \cup UNION {Named(a) : a \in Asset})

Sweep(t) ==
  /\ purge[t] = [step |-> "replaced", files |-> {}]
  /\ purge' = [purge EXCEPT ![t] = [step |-> "unnamed", files |-> Unreferenced]]
  /\ UNCHANGED <<native, index, disk, dl, chain, active, waiters, lock, restarts>>

Unlock(t) ==
  /\ purge[t] = [step |-> "unnamed", files |-> {}]
  /\ purge' = [purge EXCEPT ![t] = NoPurge]
  /\ lock' = RemoveFirst(lock, t)
  /\ IF t \in Download
     THEN Goes(t, [dl[t] EXCEPT !.at = "ended"])
     ELSE UNCHANGED <<dl, chain>>
  /\ UNCHANGED <<native, index, disk, active, waiters, restarts>>

-----------------------------------------------------------------------------
(* RESET_STORE empties the index and asks nobody.                          *)
ResetStore ==
  /\ index' = [a \in Asset |-> None] /\ index' # index
  /\ UNCHANGED <<native, disk, dl, chain, active, waiters, lock, purge, restarts>>

(* The app is killed and started again: the index and the files are left.  *)
Restart ==
  /\ restarts < MaxRestarts /\ restarts' = restarts + 1
  /\ dl' = [d \in Download |-> IF dl[d] = New THEN New
                               ELSE [dl[d] EXCEPT !.at = "ended", !.left = "none"]]
  /\ chain' = [a \in Asset |-> <<>>]
  /\ active' = 0 /\ waiters' = <<>>
  /\ lock' = <<>> /\ purge' = [t \in Task |-> NoPurge]
  /\ UNCHANGED <<native, index, disk>>

DownloadStep(d) ==
  \/ Enter(d) \/ Granted(d) \/ BodyRead(d) \/ Written(d) \/ Undo(d)
  \/ LeftoverSettles(d) \/ LeftoverRemoved(d) \/ Commit(d)

TaskStep(t) == (\E f \in File : Delete(t, f)) \/ Sweep(t) \/ Unlock(t)

Next ==
  \/ \E d \in Download :
       \/ \E a \in Asset, h \in Hash : Call(d, a, h)
       \/ DownloadStep(d) \/ Cancel(d) \/ TransferFails(d)
  \/ \E g \in Cleaner : Clean(g) \/ Drop(g)
  \/ \E t \in Task : TaskStep(t)
  \/ ResetStore \/ Restart

(* A transfer ends at last, with its bytes or an error, and what is queued *)
(* in the event loop runs.  Nobody has to cancel anything.                 *)
Fairness ==
  /\ \A d \in Download : WF_vars(DownloadStep(d) \/ TaskStep(d))
  /\ \A g \in Cleaner : WF_vars(Drop(g) \/ TaskStep(g))

Spec == Init /\ [][Next]_vars /\ Fairness

-----------------------------------------------------------------------------
TypeOK ==
  /\ native \in BOOLEAN
  /\ index \in [Asset -> Hash \cup {None}]
  /\ disk \in [File -> {"none", "partial", "whole"}]
  /\ dl \in [Download ->
       [at : {"new", "chain", "slot", "grant", "transfer", "write", "undo",
              "fresh", "reuse", "ended"},
        asset : Asset \cup {None}, hash : Hash \cup {None}, cancelled : BOOLEAN,
        left : {"none", "running", "remove"}]]
  /\ chain \in [Asset -> Seq(Download)]
  /\ active \in 0..MaxTransfers /\ waiters \in Seq(Download)
  /\ lock \in Seq(Task)
  /\ purge \in [Task -> [step : {"none", "replaced", "unnamed"}, files : SUBSET File]]
  /\ restarts \in 0..MaxRestarts

(* A map never opens a half-written file: what the index names is whole,   *)
(* if it is there, although a cancelled native transfer writes on for as   *)
(* long as it likes, and a retry uses the same name                        *)
(* (runLayerDownloadExclusive and its holdUntil).                          *)
NeverTorn == \A a \in Asset : \A f \in Named(a) : disk[f] # "partial"

(* No clean-up, however slow, no failed or cancelled download and no       *)
(* leftover of one takes away a file that the index names at that moment   *)
(* (runFileIndexMutation, inFlightFileWrites).                             *)
DeletesOnlyUnnamed ==
  [][\A a \in Asset : \A f \in Named(a) : disk[f] = "whole" => disk'[f] = "whole"]_vars

(* Transfer slots are neither lost nor made: each is held by a download,   *)
(* and nobody waits for one while one is free (acquireLayerTransferSlot,   *)
(* releaseLayerTransferSlot, cancelled waiters).                           *)
SlotsAreHeld ==
  /\ active = Cardinality({d \in Download :
                             dl[d].at \in {"grant", "transfer", "write", "undo"}})
  /\ waiters # <<>> => active = MaxTransfers

(* Whatever fails, is cancelled or is cleaned up meanwhile, every call     *)
(* returns: no turn, slot or lock is kept for ever.                        *)
EveryCallReturns == \A d \in Download : dl[d].at = "chain" ~> dl[d].at = "ended"
-----------------------------------------------------------------------------
(* What makes the properties inductive.                                    *)

(* d has had its turn and is not done: it works on its asset, or a native  *)
(* transfer it gave up still does.                                         *)
Working(d) == dl[d].at \notin {"new", "chain", "ended"} \/ dl[d].left # "none"

CallsOK ==
  \A d \in Download :
    /\ dl[d].at = "new" => dl[d] = New
    /\ dl[d].at # "new" => dl[d].asset \in Asset /\ dl[d].hash \in Hash
    /\ dl[d].left # "none" => dl[d].at \in {"undo", "ended"}

(* Only the first of an asset's chain works on the asset.                  *)
OneWorksOnAnAsset ==
  \A d \in Download : Working(d) => IsFirst(d, chain[dl[d].asset])

(* Whoever stands in line for a slot waits for it, and stands there once.  *)
WaitersWait ==
  /\ \A i \in DOMAIN waiters : dl[waiters[i]].at = "slot"
  /\ \A i, j \in DOMAIN waiters : waiters[i] = waiters[j] => i = j

(* Only the holder of the mutex has files to delete, and none of them is   *)
(* named by the index.                                                     *)
HolderPurges ==
  \A t \in Task :
    /\ purge[t].step = "none" => purge[t].files = {}
    /\ purge[t].step # "none" =>
         HasLock(t) /\ (t \in Download => dl[t].at \in {"fresh", "reuse"})
    /\ \A a \in Asset : purge[t].files \cap Named(a) = {}

(* The index does not name a file while it is transferred or taken back,   *)
(* and a file about to be named is not half written.                       *)
NamedWhenWritten ==
  \A d \in Download :
    /\ dl[d].at \in {"slot", "grant", "transfer", "write", "undo"} \/ dl[d].left # "none"
         => index[dl[d].asset] # dl[d].hash
    /\ dl[d].at \in {"fresh", "reuse"} => disk[FileOf(d)] # "partial"
=============================================================================
