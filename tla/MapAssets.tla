------------------------------- MODULE MapAssets -------------------------------
(***************************************************************************)
(* One map layer on its way from an upload to a file that devices download *)
(* (api/src/couchdb/mapAssets/store.ts): the API stages and stores the     *)
(* original, spatial workers claim the asset, convert the original and     *)
(* commit the result, a sweep fails the uploads that were abandoned.       *)
(*                                                                         *)
(* What a conditional write reads last and its put are one step: the put   *)
(* is accepted only if the document is still what was read, and is tried   *)
(* again from the read otherwise.  What the code reads earlier, and every  *)
(* call to the object store, is a step of its own.  An object's key is     *)
(* made of the asset and the kind of file, so uploads write over each      *)
(* other.  Time is two facts: which uploads are older than their limit,    *)
(* and whether the claim has had no heartbeat for longer than its own.     *)
(***************************************************************************)
EXTENDS Naturals, FiniteSets

CONSTANTS
  Worker,
  MaxClaims,    \* MAP_ASSET_PROCESSING_MAX_ATTEMPTS
  MaxTries,     \* MAP_ASSET_ORIGINAL_STORE_MAX_ATTEMPTS
  MaxUploads,   \* bound: the first upload and its replacements
  MaxFailures   \* bound: calls that fail and processes that stop

ASSUME NumbersArePositive == {MaxClaims, MaxTries, MaxUploads} \subseteq Nat \ {0}
ASSUME MaxFailuresIsNatural == MaxFailures \in Nat

VARIABLES
  asset,       \* the CouchDB document; upload stands for originalUploadStartedMs,
               \* stored for the original it lists: whose retry loop stored it
  original, normalized,   \* the objects: the upload they come from, 0: none
  staged,      \* the upload whose files are on the API's disk, 0: none
  late,        \* uploads older than MAP_ASSET_ORIGINAL_STORE_TIMEOUT_MS
  request,     \* the create or replace request under way
  loop, job,   \* per upload: the retry loop, and the attempt it started last
  sweep, worker,
  uploads, claims,        \* made so far: each has a time of its own
  failures     \* count for the bound MaxFailures

objects == <<original, normalized>>
vars == <<asset, objects, staged, late, request, loop, job, sweep, worker, uploads, claims, failures>>

Upload  == 1..MaxUploads
Settled == {"ready", "failed"}
Gone    == {"absent", "deleted"}
Fresh(u) == [status |-> "pending", upload |-> u, stored |-> 0, claim |-> 0,
             attempts |-> 0, stale |-> FALSE, built |-> 0]
NoAsset == [Fresh(0) EXCEPT !.status = "absent"]
Removed == [Fresh(0) EXCEPT !.status = "deleted"]
Idle    == [at |-> "idle"]

-----------------------------------------------------------------------------
Init ==
  /\ asset = NoAsset
  /\ original = 0 /\ normalized = 0 /\ staged = 0
  /\ late = {}
  /\ request = Idle
  /\ loop = [u \in Upload |-> Idle] /\ job = [u \in Upload |-> Idle]
  /\ sweep = "idle"
  /\ worker = [w \in Worker |-> Idle]
  /\ uploads = 0 /\ claims = 0 /\ failures = 0

isMapAssetInProgress == asset.status \in {"pending", "processing"}

originalStoreIsTimedOut ==
  isMapAssetInProgress /\ asset.stored = 0 /\ asset.upload \in late

(* Time passes while somebody can still notice.                            *)
UploadTimesOut(u) ==
  /\ u \notin late
  /\ \/ loop[u] # Idle
     \/ isMapAssetInProgress /\ asset.stored = 0 /\ asset.upload = u
  /\ late' = late \cup {u}
  /\ UNCHANGED <<asset, objects, staged, request, loop, job, sweep, worker, uploads, claims, failures>>

ClaimGoesStale ==
  /\ asset.status = "processing" /\ ~asset.stale
  /\ asset' = [asset EXCEPT !.stale = TRUE]
  /\ UNCHANGED <<objects, staged, late, request, loop, job, sweep, worker, uploads, claims, failures>>

Failure == failures < MaxFailures /\ failures' = failures + 1

-----------------------------------------------------------------------------
(* createMapAsset and replaceMapAssetFiles: put the pending document, stage *)
(* the files, drop the previous objects, start the upload.                 *)
createMapAsset ==
  /\ request = Idle /\ asset = NoAsset
  /\ asset' = Fresh(1) /\ uploads' = 1
  /\ request' = [at |-> "stage", previous |-> NoAsset]
  /\ UNCHANGED <<objects, staged, late, loop, job, sweep, worker, claims, failures>>

(* Refused while the asset is in progress.                                 *)
replaceMapAssetFiles ==
  /\ request = Idle
  /\ asset.status \in Settled /\ uploads < MaxUploads
  /\ asset' = Fresh(uploads + 1) /\ uploads' = uploads + 1
  /\ request' = [at |-> "stage", previous |-> asset]
  /\ UNCHANGED <<objects, staged, late, loop, job, sweep, worker, claims, failures>>

stageUploadFiles ==
  /\ request.at = "stage"
  /\ staged' = uploads
  /\ request' = [request EXCEPT !.at = "drop"]
  /\ UNCHANGED <<asset, objects, late, loop, job, sweep, worker, uploads, claims, failures>>

(* Staging fails: take the new document away, or put the previous one back *)
(* over whatever is there by now, if that write is not refused.            *)
StagingFails ==
  /\ request.at = "stage" /\ Failure
  /\ staged' = 0
  /\ request' = Idle
  /\ \/ UNCHANGED asset
     \/ request.previous = NoAsset /\ asset = Fresh(1)
          /\ asset' = Removed
     \/ request.previous # NoAsset /\ asset.status \notin Gone
          /\ asset' = request.previous
  /\ UNCHANGED <<objects, late, loop, job, sweep, worker, uploads, claims>>

(* Drop the objects the previous document listed.  Then the response is    *)
(* sent and scheduleStoreOriginals starts the upload in the background.    *)
DropPrevious ==
  /\ request.at = "drop"
  /\ original' = IF request.previous.stored # 0 THEN 0 ELSE original
  /\ normalized' = IF request.previous.built # 0 THEN 0 ELSE normalized
  /\ request' = Idle
  /\ loop' = IF asset.status \in Gone THEN loop
             ELSE 
               [loop EXCEPT ![uploads] = [at |-> "try", own |-> asset.upload, tries |-> 1]]
  /\ UNCHANGED <<asset, staged, late, job, sweep, worker, uploads, claims, failures>>

(* Remove the document, then what belongs to it.                           *)
deleteMapAsset ==
  /\ asset.status \notin Gone
  /\ asset' = Removed
  /\ staged' = 0
  /\ original' = IF asset.stored # 0 THEN 0 ELSE original
  /\ normalized' = IF asset.built # 0 THEN 0 ELSE normalized
  /\ UNCHANGED <<late, request, loop, job, sweep, worker, uploads, claims, failures>>

-----------------------------------------------------------------------------
(* storeOriginalsFromStagingWithRetry, the loop; own is the upload it read *)
(* when it was scheduled.                                                  *)
LoopGoes(u, state) == loop' = [loop EXCEPT ![u] = state]

(* storeOriginalsFromStaging: read the asset, look for the staged files.   *)
Try(u) ==
  /\ loop[u].at = "try"
  /\ IF u \in late
     THEN LoopGoes(u, [loop[u] EXCEPT !.at = "fail"]) /\ UNCHANGED job
     ELSE IF asset.status \in Gone
     THEN LoopGoes(u, Idle) /\ UNCHANGED job
     ELSE IF isMapAssetInProgress /\ asset.stored # 0
     THEN LoopGoes(u, [loop[u] EXCEPT !.at = "clean"]) /\ UNCHANGED job
     ELSE IF ~isMapAssetInProgress \/ staged = 0
     THEN LoopGoes(u, [loop[u] EXCEPT !.at = "check"]) /\ UNCHANGED job
     ELSE /\ LoopGoes(u, [loop[u] EXCEPT !.at = "await"])
          /\ job' = [job EXCEPT ![u] = [at |-> "put", own |-> asset.upload, file |-> staged]]
  /\ UNCHANGED <<asset, objects, staged, late, request, sweep, worker, uploads, claims, failures>>

(* What the attempt answers reaches the loop, unless withDeadline has      *)
(* given it up; the attempt itself is not cancelled.                       *)
Answer(u, step) ==
  IF loop[u].at # "await" THEN UNCHANGED loop
  ELSE LoopGoes(u, IF step = "idle" THEN Idle ELSE [loop[u] EXCEPT !.at = step])

putOriginalFilesFromDisk(u) ==
  /\ job[u].at = "put"
  /\ original' = job[u].file
  /\ job' = [job EXCEPT ![u].at = "merge"]
  /\ UNCHANGED <<asset, normalized, staged, late, request, loop, sweep, worker, uploads, claims, failures>>

(* The put fails (the staged files may be gone again), though the object   *)
(* may have been stored.                                                   *)
PutFails(u) ==
  /\ job[u].at = "put" /\ Failure
  /\ original' \in {original, job[u].file}
  /\ job' = [job EXCEPT ![u] = Idle]
  /\ Answer(u, "error")
  /\ UNCHANGED <<asset, normalized, staged, late, request, sweep, worker, uploads, claims>>

originalStoreWriteSkipReason(own) ==
  \/ ~isMapAssetInProgress
  \/ originalStoreIsTimedOut
  \/ asset.upload # own

mergeStoredAttachments(u) ==
  /\ job[u].at = "merge"
  /\ IF asset.status \in Gone
     THEN /\ job' = [job EXCEPT ![u] = Idle]
          /\ Answer(u, "idle") /\ UNCHANGED asset
     ELSE IF originalStoreWriteSkipReason(job[u].own)
     THEN /\ job' = [job EXCEPT ![u] = Idle]
          /\ Answer(u, "check") /\ UNCHANGED asset
     ELSE /\ asset' = [asset EXCEPT !.stored = u, !.stale = FALSE]
          /\ job' = [job EXCEPT ![u].at = "clean"]
          /\ UNCHANGED loop
  /\ UNCHANGED <<objects, staged, late, request, sweep, worker, uploads, claims, failures>>

(* cleanupStaging removes the asset's files, whichever upload they are of. *)
JobCleans(u) ==
  /\ job[u].at = "clean"
  /\ staged' = 0
  /\ job' = [job EXCEPT ![u] = Idle]
  /\ Answer(u, "idle")
  /\ UNCHANGED <<asset, objects, late, request, sweep, worker, uploads, claims, failures>>

Deadline(u) ==
  /\ loop[u].at = "await" /\ u \in late
  /\ LoopGoes(u, [loop[u] EXCEPT !.at = "fail"])
  /\ UNCHANGED <<asset, objects, staged, late, request, job, sweep, worker, uploads, claims, failures>>

(* The attempt stored nothing: look why.                                   *)
CheckWhy(u) ==
  /\ loop[u].at = "check"
  /\ LoopGoes(u, IF asset.status \in Gone THEN Idle
       ELSE IF originalStoreIsTimedOut THEN [loop[u] EXCEPT !.at = "fail"]
       ELSE IF originalStoreWriteSkipReason(loop[u].own) \/ asset.stored # 0 THEN Idle
       ELSE [loop[u] EXCEPT !.at = "error"])
  /\ UNCHANGED <<asset, objects, staged, late, request, job, sweep, worker, uploads, claims, failures>>

(* reportOriginalStoreRetry, a heartbeat, and again; or the last try was it. *)
Retry(u) ==
  /\ loop[u].at = "error"
  /\ IF loop[u].tries < MaxTries
     THEN /\ LoopGoes(u, [loop[u] EXCEPT !.at = "try", !.tries = @ + 1])
          /\ asset' = IF asset.stored # 0 \/ originalStoreWriteSkipReason(loop[u].own)
                      THEN asset ELSE [asset EXCEPT !.stale = FALSE]
     ELSE LoopGoes(u, [loop[u] EXCEPT !.at = "fail"]) /\ UNCHANGED asset
  /\ UNCHANGED <<objects, staged, late, request, job, sweep, worker, uploads, claims, failures>>

-----------------------------------------------------------------------------
AsFailed == [asset EXCEPT !.status = "failed", !.claim = 0, !.stale = FALSE]

(* Mutant: an original that was stored meanwhile does not matter.          *)
FailableStored(own) == isMapAssetInProgress /\ asset.upload \in own

(* commitOriginalStoreFailure writes only over an upload without original; *)
(* of its own, when the caller says which that is.                         *)
Failable(own) == isMapAssetInProgress /\ asset.stored = 0 /\ asset.upload \in own

LoopFails(u) ==
  /\ loop[u].at = "fail"
  /\ IF Failable({loop[u].own})
     THEN asset' = AsFailed /\ LoopGoes(u, [loop[u] EXCEPT !.at = "clean"])
     ELSE UNCHANGED asset /\ LoopGoes(u, Idle)
  /\ UNCHANGED <<objects, staged, late, request, job, sweep, worker, uploads, claims, failures>>

LoopCleans(u) ==
  /\ loop[u].at = "clean"
  /\ staged' = 0
  /\ LoopGoes(u, Idle)
  /\ UNCHANGED <<asset, objects, late, request, job, sweep, worker, uploads, claims, failures>>

(* failStaleOriginalStores: list, and for what was late fail what is there now. *)
SweepLists ==
  /\ sweep = "idle" /\ originalStoreIsTimedOut
  /\ sweep' = "fail"
  /\ UNCHANGED <<asset, objects, staged, late, request, loop, job, worker, uploads, claims, failures>>

SweepFails ==
  /\ sweep = "fail"
  /\ IF Failable(Upload) THEN asset' = AsFailed /\ sweep' = "clean"
     ELSE UNCHANGED asset /\ sweep' = "idle"
  /\ UNCHANGED <<objects, staged, late, request, loop, job, worker, uploads, claims, failures>>

SweepCleans ==
  /\ sweep = "clean"
  /\ sweep' = "idle" /\ staged' = 0
  /\ UNCHANGED <<asset, objects, late, request, loop, job, worker, uploads, claims, failures>>

-----------------------------------------------------------------------------
(* The worker: runSpatialWorkerLoop and processMapAsset.                   *)
WorkerGoes(w, state) == worker' = [worker EXCEPT ![w] = state]

(* Mutant: a claim is never given up.                                      *)
PendingOnly == asset.status = "pending"

mapAssetIsClaimable ==
  \/ asset.status = "pending"
  \/ asset.status = "processing" /\ asset.stale

(* findUnclaimedSpatialJob, and the first look of processMapAsset.         *)
Find(w) ==
  /\ worker[w] = Idle
  /\ asset.stored # 0 /\ mapAssetIsClaimable
  /\ WorkerGoes(w, [at |-> "claim"])
  /\ UNCHANGED <<asset, objects, staged, late, request, loop, job, sweep, uploads, claims, failures>>

(* Mutant: off by one, one claim too many.                                 *)
ExhaustedLate == asset.attempts > MaxClaims

Exhausted == asset.attempts >= MaxClaims

Claimed ==
  [asset EXCEPT !.status = "processing", !.claim = claims + 1, !.stale = FALSE,
     !.attempts = @ + 1]

(* claimMapAssetProcessing; it does not look at the originals again.       *)
claimMapAssetProcessing(w) ==
  /\ worker[w].at = "claim"
  /\ IF ~mapAssetIsClaimable
     THEN WorkerGoes(w, Idle) /\ UNCHANGED <<asset, uploads, claims>>
     ELSE IF Exhausted
     THEN WorkerGoes(w, Idle) /\ asset' = AsFailed /\ UNCHANGED claims
     ELSE /\ asset' = Claimed
          /\ claims' = claims + 1
          /\ WorkerGoes(w, [at |-> "reread"])
  /\ UNCHANGED <<objects, staged, late, request, loop, job, sweep, uploads, failures>>

(* The claim is read back: this may already be the claim of another.       *)
ReadClaim(w) ==
  /\ worker[w].at = "reread"
  /\ WorkerGoes(w, IF asset.status \in Gone \/ asset.claim = 0 THEN Idle
       ELSE [at |-> "convert", claim |-> asset.claim, stored |-> asset.stored])
  /\ UNCHANGED <<asset, objects, staged, late, request, loop, job, sweep, uploads, claims, failures>>

(* Mutant: nobody looks whether the claim is still held.                   *)
NobodyLooks(w) == asset.status \notin Gone

(* Mutant: any claim will do.                                              *)
AnyClaim(w) == asset.status = "processing"

ClaimIsMine(w) == asset.status = "processing" /\ asset.claim = worker[w].claim

Heartbeat(w) == IF ClaimIsMine(w) THEN [asset EXCEPT !.stale = FALSE] ELSE asset

(* loadOriginalFiles and the conversion, which may fail on any file.       *)
Convert(w) ==
  /\ worker[w].at = "convert"
  /\ \/ /\ worker[w].stored # 0 /\ original # 0
        /\ WorkerGoes(w, [at |-> "own", claim |-> worker[w].claim, file |-> original])
     \/ WorkerGoes(w, [at |-> "fail", claim |-> worker[w].claim])
  /\ UNCHANGED <<asset, objects, staged, late, request, loop, job, sweep, uploads, claims, failures>>

(* reportProcessingStage and reportProcessingProgress as the conversion goes. *)
ReportProgress(w) ==
  /\ worker[w].at = "own"
  /\ asset' = Heartbeat(w) /\ asset' # asset
  /\ UNCHANGED <<objects, staged, late, request, loop, job, sweep, worker, uploads, claims, failures>>

(* claimStillOwned, the heartbeat of the stage `storing`, and the look at  *)
(* the claim of putNormalizedAttachment: whichever of them finds the claim *)
(* lost ends the run.                                                      *)
StillOwned(w) ==
  /\ worker[w].at = "own"
  /\ asset' = Heartbeat(w)
  /\ WorkerGoes(w, IF ClaimIsMine(w) THEN [worker[w] EXCEPT !.at = "put"] ELSE Idle)
  /\ UNCHANGED <<objects, staged, late, request, loop, job, sweep, uploads, claims, failures>>

putNormalizedAttachment(w) ==
  /\ worker[w].at = "put"
  /\ normalized' = worker[w].file
  /\ WorkerGoes(w, [worker[w] EXCEPT !.at = "commit"])
  /\ UNCHANGED <<asset, original, staged, late, request, loop, job, sweep, uploads, claims, failures>>

(* The put fails, and the failure is what is committed.                    *)
StoringFails(w) ==
  /\ worker[w].at = "put" /\ Failure
  /\ WorkerGoes(w, [at |-> "fail", claim |-> worker[w].claim])
  /\ normalized' \in {normalized, worker[w].file}
  /\ UNCHANGED <<asset, original, staged, late, request, loop, job, sweep, uploads, claims>>

(* commitProcessingResult: ready or failed, under the claim only.          *)
Commit(w) ==
  /\ worker[w].at \in {"commit", "fail"}
  /\ asset' = IF ~ClaimIsMine(w) THEN asset
              ELSE IF worker[w].at = "fail" THEN AsFailed
              ELSE [AsFailed EXCEPT !.status = "ready", !.built = worker[w].file]
  /\ WorkerGoes(w, Idle)
  /\ UNCHANGED <<objects, staged, late, request, loop, job, sweep, uploads, claims, failures>>

-----------------------------------------------------------------------------
(* A worker dies or gives a job up; the API stops and starts again.        *)
WorkerStops(w) ==
  /\ worker[w] # Idle /\ Failure
  /\ WorkerGoes(w, Idle)
  /\ UNCHANGED <<asset, objects, staged, late, request, loop, job, sweep, uploads, claims>>

ApiRestarts ==
  /\ Failure
  /\ request' = Idle /\ sweep' = "idle"
  /\ loop' = [u \in Upload |-> Idle] /\ job' = [u \in Upload |-> Idle]
  /\ <<request, sweep, loop, job>>' # <<request, sweep, loop, job>>
  /\ UNCHANGED <<asset, objects, staged, late, worker, uploads, claims>>

WorkerStep(w) ==
  \/ Find(w) \/ claimMapAssetProcessing(w) \/ ReadClaim(w) \/ Convert(w)
  \/ StillOwned(w) \/ putNormalizedAttachment(w) \/ Commit(w)

SweepStep == SweepLists \/ SweepFails \/ SweepCleans

Next ==
  \/ createMapAsset \/ replaceMapAssetFiles \/ stageUploadFiles \/ StagingFails
  \/ DropPrevious \/ deleteMapAsset
  \/ \E u \in Upload :
       \/ UploadTimesOut(u) \/ Try(u)
       \/ putOriginalFilesFromDisk(u) \/ PutFails(u) \/ mergeStoredAttachments(u)
       \/ JobCleans(u) \/ Deadline(u) \/ CheckWhy(u) \/ Retry(u) \/ LoopFails(u)
       \/ LoopCleans(u)
  \/ SweepStep \/ ClaimGoesStale
  \/ \E w \in Worker : WorkerStep(w) \/ ReportProgress(w) \/ StoringFails(w) \/ WorkerStops(w)
  \/ ApiRestarts

(* Time passes, the sweep runs once a minute and workers that poll go on.  *)
(* Nothing is assumed of the upload itself.                                *)
Fairness ==
  /\ \A u \in Upload : WF_vars(UploadTimesOut(u))
  /\ WF_vars(ClaimGoesStale) /\ WF_vars(SweepStep)
  /\ \A w \in Worker : WF_vars(WorkerStep(w))

Spec == Init /\ [][Next]_vars /\ Fairness

-----------------------------------------------------------------------------
Doc == [status : Gone \cup Settled \cup {"pending", "processing"},
        upload : 0..MaxUploads, stored : 0..MaxUploads, claim : Nat,
        attempts : 0..MaxClaims, stale : BOOLEAN, built : 0..MaxUploads]

LoopState ==
  [at : {"idle"}] \cup [at : {"try", "await", "check", "error", "fail", "clean"},
        own : Upload, tries : 1..MaxTries]
JobState ==
  [at : {"idle"}] \cup [at : {"put", "merge", "clean"}, own : Upload, file : Upload]
WorkerState ==
  [at : {"idle", "claim", "reread"}] \cup [at : {"fail"}, claim : Nat]
  \cup [at : {"convert"}, claim : Nat, stored : 0..MaxUploads]
  \cup [at : {"own", "put", "commit"}, claim : Nat, file : Upload]

TypeOK ==
  /\ asset \in Doc
  /\ {original, normalized, staged} \subseteq 0..MaxUploads
  /\ late \subseteq Upload
  /\ request \in {Idle} \cup [at : {"stage", "drop"}, previous : Doc]
  /\ loop \in [Upload -> LoopState] /\ job \in [Upload -> JobState]
  /\ sweep \in {"idle", "fail", "clean"}
  /\ worker \in [Worker -> WorkerState]
  /\ uploads \in 0..MaxUploads /\ claims \in Nat /\ failures \in 0..MaxFailures

(* Settled is settled: whoever else still works on the upload (a worker    *)
(* whose claim went stale, an attempt past its deadline, a sweep that had  *)
(* listed it), the document of an upload that is ready or failed stays as  *)
(* it is until it is replaced or deleted.                                  *)
SettledOnce ==
  [][asset.status \in Settled /\ asset'.upload = asset.upload
       => asset' = asset \/ asset'.status = "deleted"]_vars

(* Devices find what a ready layer offers: the objects it lists are stored, *)
(* also when a replacement drops the previous objects, fails half way or   *)
(* restores the previous document, and when claims change hands.  (Of a    *)
(* layer whose original was stored by its own upload: the retry loop of an *)
(* upload that was replaced would store for the next one, before the drop.) *)
ReadyHasItsObjects ==
  asset.status = "ready" /\ asset.stored = asset.upload
    => original # 0 /\ normalized # 0

(* An upload that arrived is not failed by those who give up on uploads    *)
(* (the deadline, the last retry, the sweep): while it waits for a worker  *)
(* it can only fail by having used up its claims.                          *)
ArrivedIsKept ==
  [][asset.status = "pending" /\ asset.stored # 0
     /\ asset'.status = "failed" /\ asset'.upload = asset.upload
       => asset.attempts = MaxClaims]_vars

(* Whatever stops, hangs or fails, no upload is in progress for ever: a    *)
(* worker commits it or the sweep gives it up, so Replace becomes possible. *)
EveryUploadSettles ==
  \A u \in Upload : (isMapAssetInProgress /\ asset.upload = u)
                      ~> ~(isMapAssetInProgress /\ asset.upload = u)

(* mergeStoredAttachments: "a failed/timed-out original upload, or a       *)
(* replace [..] is a no-op so a later job is not overwritten".  What       *)
(* devices download was made from the upload the document names.           *)
ReadyIsTheUpload == asset.status = "ready" => asset.built = asset.upload

-----------------------------------------------------------------------------
(* What makes these inductive.                                             *)

(* Uploads and claims are numbered as they are made.                       *)
NumbersOK ==
  /\ asset.status \notin Gone => asset.upload \in 1..uploads
  /\ asset.status = "absent" => uploads = 0
  /\ asset.claim <= claims
  /\ \A u \in Upload : u > uploads => loop[u] = Idle /\ job[u] = Idle
  /\ \A w \in Worker : worker[w].at \in {"convert", "fail", "own", "put", "commit"}
       => worker[w].claim \in 1..claims

(* While a request runs, nobody uploads for it yet.                        *)
RequestOK ==
  request # Idle =>
    /\ uploads > 0 /\ loop[uploads] = Idle /\ job[uploads] = Idle
    /\ asset.status \notin Gone => asset.upload = uploads /\ asset.stored # uploads
    /\ request.previous # NoAsset =>
         /\ request.previous.status \in Settled /\ request.previous.upload \in 1..(uploads - 1)
         /\ request.previous.claim <= claims

(* The objects of an upload on its way, and of the document that is put    *)
(* back when staging fails.                                                *)
ObjectsOK ==
  /\ request.at = "stage" /\ asset.status \notin Gone
     /\ request.previous.status = "ready" /\ request.previous.stored = request.previous.upload
       => original # 0 /\ normalized # 0
  /\ isMapAssetInProgress /\ (asset.stored = asset.upload \/ job[asset.upload].at = "merge")
       => original # 0

(* The worker that holds the claim has found an original, and what it      *)
(* stored is dropped by a request only before the original of that upload. *)
HolderOK ==
  \A w \in Worker :
    /\ worker[w].at \in {"own", "put", "commit"} /\ ClaimIsMine(w) => asset.stored # 0
    /\ worker[w].at = "convert" /\ ClaimIsMine(w) /\ worker[w].stored # 0 => asset.stored # 0
    /\ worker[w].at = "commit" /\ ClaimIsMine(w) /\ normalized = 0
         => asset.stored # asset.upload /\ job[asset.upload].at \notin {"put", "merge"}

Inv == TypeOK /\ NumbersOK /\ RequestOK /\ ObjectsOK /\ HolderOK /\ ReadyHasItsObjects
=============================================================================
