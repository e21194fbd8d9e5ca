---------------------------- MODULE MapAssetsProofs ----------------------------
(***************************************************************************)
(* Theorems about MapAssets, for any number of workers, uploads, claims,   *)
(* tries and failures.                                                     *)
(***************************************************************************)
EXTENDS MapAssets, TLAPS

LEMMA Bounds ==
  /\ MaxClaims \in Nat \ {0} /\ MaxTries \in Nat \ {0} /\ MaxUploads \in Nat \ {0}
  /\ MaxFailures \in Nat
  /\ 0 \in 0..MaxUploads /\ 0 \notin Upload /\ 1 \in Upload /\ Upload \subseteq 0..MaxUploads
  /\ \A n \in 0..MaxUploads : n # 0 => n \in Upload
  /\ \A n \in 0..MaxUploads : n < MaxUploads => n + 1 \in Upload
BY NumbersArePositive, MaxFailuresIsNatural DEF Upload

LoopAt == {"try", "await", "check", "error", "fail", "clean"}

(* The documents that steps write.                                         *)
LEMMA Docs ==
  ASSUME TypeOK
  PROVE  /\ \A u \in 0..MaxUploads : Fresh(u) \in Doc
         /\ NoAsset \in Doc /\ Removed \in Doc /\ AsFailed \in Doc
         /\ [asset EXCEPT !.stale = FALSE] \in Doc /\ [asset EXCEPT !.stale = TRUE] \in Doc
         /\ \A u \in Upload : [asset EXCEPT !.stored = u, !.stale = FALSE] \in Doc
         /\ \A f \in Upload : [AsFailed EXCEPT !.status = "ready", !.built = f] \in Doc
         /\ ~Exhausted => Claimed \in Doc
<1>1. \A u \in 0..MaxUploads : Fresh(u) \in Doc
  BY Bounds DEF Fresh, Doc, Gone, Settled
<1>2. Fresh(0) \in Doc
  BY <1>1, Bounds
<1>3. NoAsset \in Doc /\ Removed \in Doc
  BY <1>2 DEF NoAsset, Removed, Doc, Gone
<1>4. AsFailed \in Doc
  BY DEF TypeOK, AsFailed, Doc, Settled
<1>5. /\ [asset EXCEPT !.stale = FALSE] \in Doc /\ [asset EXCEPT !.stale = TRUE] \in Doc
      /\ \A u \in Upload : [asset EXCEPT !.stored = u, !.stale = FALSE] \in Doc
  BY Bounds DEF TypeOK, Doc
<1>6. \A f \in Upload : [AsFailed EXCEPT !.status = "ready", !.built = f] \in Doc
  BY <1>4, Bounds DEF Doc, Settled
<1>7. ASSUME ~Exhausted PROVE Claimed \in Doc
  <2>1. asset.attempts + 1 \in 0..MaxClaims /\ claims + 1 \in Nat
    BY <1>7, Bounds DEF Exhausted, TypeOK, Doc
  <2> QED BY <2>1 DEF TypeOK, Claimed, Doc
<1> QED BY <1>1, <1>3, <1>4, <1>5, <1>6, <1>7

LEMMA LoopMoves ==
  ASSUME TypeOK, NEW u \in Upload, loop[u].at # "idle", NEW at \in LoopAt
  PROVE  /\ [loop[u] EXCEPT !.at = at] \in LoopState
         /\ loop[u].tries < MaxTries =>
              [loop[u] EXCEPT !.at = at, !.tries = @ + 1] \in LoopState
<1>1. loop[u] \in [at : LoopAt, own : Upload, tries : 1..MaxTries]
  BY DEF TypeOK, LoopState, LoopAt
<1>2. loop[u].tries < MaxTries => loop[u].tries + 1 \in 1..MaxTries
  BY <1>1, Bounds
<1> QED BY <1>1, <1>2 DEF LoopState, LoopAt

LEMMA JobMoves ==
  ASSUME TypeOK, NEW u \in Upload, job[u].at # "idle", NEW at \in {"put", "merge", "clean"}
  PROVE  /\ [job[u] EXCEPT !.at = at] \in JobState
         /\ job[u].own \in Upload /\ job[u].file \in Upload
BY DEF TypeOK, JobState

LEMMA WorkerMoves ==
  ASSUME TypeOK, NEW w \in Worker, worker[w].at \in {"own", "put", "commit"},
         NEW at \in {"own", "put", "commit"}
  PROVE  /\ [worker[w] EXCEPT !.at = at] \in WorkerState
         /\ worker[w].claim \in Nat /\ worker[w].file \in Upload
BY DEF TypeOK, WorkerState

LEMMA IdleIsAState == Idle \in LoopState /\ Idle \in JobState /\ Idle \in WorkerState
BY DEF Idle, LoopState, JobState, WorkerState

LEMMA Answered ==
  ASSUME TypeOK, NEW u \in Upload, NEW step \in LoopAt \cup {"idle"}, Answer(u, step)
  PROVE  loop' \in [Upload -> LoopState]
<1>1. CASE UNCHANGED loop
  BY <1>1 DEF TypeOK
<1>2. CASE loop[u].at = "await" /\ step = "idle"
  BY <1>2, IdleIsAState DEF Answer, LoopGoes, TypeOK
<1>3. CASE loop[u].at = "await" /\ step \in LoopAt
  <2>1. [loop[u] EXCEPT !.at = step] \in LoopState /\ step # "idle"
    BY <1>3, LoopMoves DEF LoopAt
  <2>2. loop' = [loop EXCEPT ![u] = [loop[u] EXCEPT !.at = step]]
    BY <1>3, <2>1 DEF Answer, LoopGoes
  <2> QED BY <2>1, <2>2 DEF TypeOK
<1> QED BY <1>1, <1>2, <1>3 DEF Answer

-----------------------------------------------------------------------------
(* Types.                                                                  *)
LEMMA RequestKeepsTypes ==
  ASSUME TypeOK, NumbersOK,
         \/ createMapAsset \/ replaceMapAssetFiles \/ stageUploadFiles \/ StagingFails
         \/ DropPrevious \/ deleteMapAsset
  PROVE  TypeOK'
<1>1. CASE createMapAsset
  <2>1. asset' \in Doc /\ uploads' \in 0..MaxUploads
    BY <1>1, Docs, Bounds DEF createMapAsset
  <2>2. request' \in {Idle} \cup [at : {"stage", "drop"}, previous : Doc]
    BY <1>1, Docs DEF createMapAsset
  <2> QED BY <1>1, <2>1, <2>2 DEF createMapAsset, TypeOK, objects
<1>2. CASE replaceMapAssetFiles
  <2>1. uploads + 1 \in Upload
    BY <1>2, Bounds DEF replaceMapAssetFiles, TypeOK
  <2>2. asset' \in Doc /\ uploads' \in 0..MaxUploads
    BY <1>2, <2>1, Docs, Bounds DEF replaceMapAssetFiles
  <2>3. request' \in {Idle} \cup [at : {"stage", "drop"}, previous : Doc]
    BY <1>2 DEF replaceMapAssetFiles, TypeOK
  <2> QED BY <1>2, <2>2, <2>3 DEF replaceMapAssetFiles, TypeOK, objects
<1>3. CASE stageUploadFiles
  BY <1>3 DEF stageUploadFiles, TypeOK, objects, Idle
<1>4. CASE StagingFails
  <2>0. request.previous \in Doc
    BY <1>4 DEF StagingFails, TypeOK, Idle
  <2>1. asset' \in Doc
    BY <1>4, <2>0, Docs DEF StagingFails, TypeOK
  <2>2. failures' \in 0..MaxFailures
    BY <1>4, Bounds DEF StagingFails, Failure, TypeOK
  <2>3. staged' \in 0..MaxUploads /\ request' = Idle
    BY <1>4, Bounds DEF StagingFails
  <2> QED BY <1>4, <2>1, <2>2, <2>3 DEF StagingFails, TypeOK, objects
<1>5. CASE DropPrevious
  <2>1. {original', normalized'} \subseteq 0..MaxUploads
    BY <1>5, Bounds DEF DropPrevious, TypeOK
  <2>2. loop' \in [Upload -> LoopState]
    <3>1. CASE asset.status \in Gone
      BY <1>5, <3>1 DEF DropPrevious, TypeOK
    <3>2. CASE asset.status \notin Gone
      <4>1. asset.upload \in Upload
        BY <3>2, Bounds DEF NumbersOK, TypeOK, Doc, Upload
      <4>2. [at |-> "try", own |-> asset.upload, tries |-> 1] \in LoopState
        BY <4>1, Bounds DEF LoopState
      <4> QED BY <1>5, <3>2, <4>2 DEF DropPrevious, TypeOK
    <3> QED BY <3>1, <3>2
  <2> QED BY <1>5, <2>1, <2>2 DEF DropPrevious, TypeOK
<1>6. CASE deleteMapAsset
  <2>1. asset' \in Doc /\ {original', normalized', staged'} \subseteq 0..MaxUploads
    BY <1>6, Docs, Bounds DEF deleteMapAsset, TypeOK
  <2> QED BY <1>6, <2>1 DEF deleteMapAsset, TypeOK
<1> QED BY <1>1, <1>2, <1>3, <1>4, <1>5, <1>6

LEMMA LoopKeepsTypes ==
  ASSUME TypeOK, NumbersOK, NEW u \in Upload,
         \/ UploadTimesOut(u) \/ Try(u) \/ putOriginalFilesFromDisk(u) \/ PutFails(u)
         \/ mergeStoredAttachments(u) \/ JobCleans(u) \/ Deadline(u) \/ CheckWhy(u)
         \/ Retry(u) \/ LoopFails(u) \/ LoopCleans(u)
  PROVE  TypeOK'
<1>1. CASE UploadTimesOut(u)
  BY <1>1 DEF UploadTimesOut, TypeOK, objects
<1>2. CASE Try(u)
  <2>1. loop[u].at # "idle" /\ loop[u].at = "try"
    BY <1>2 DEF Try
  <2>2. \A at \in LoopAt : [loop[u] EXCEPT !.at = at] \in LoopState
    BY <2>1, LoopMoves
  <2>3. loop' \in [Upload -> LoopState]
    BY <1>2, <2>2, IdleIsAState DEF Try, LoopGoes, TypeOK, LoopAt
  <2>4. CASE UNCHANGED job
    BY <1>2, <2>3, <2>4 DEF Try, TypeOK, objects
  <2>5. CASE /\ isMapAssetInProgress /\ staged # 0
             /\ job' = [job EXCEPT ![u] = [at |-> "put", own |-> asset.upload, file |-> staged]]
    <3>1. asset.upload \in Upload
      BY <2>5, Bounds DEF isMapAssetInProgress, NumbersOK, TypeOK, Doc, Gone, Upload
    <3>2. staged \in Upload
      BY <2>5, Bounds DEF TypeOK
    <3>3. [at |-> "put", own |-> asset.upload, file |-> staged] \in JobState
      BY <3>1, <3>2 DEF JobState
    <3>4. job' \in [Upload -> JobState]
      BY <2>5, <3>3 DEF TypeOK
    <3> QED BY <1>2, <2>3, <3>4 DEF Try, TypeOK, objects
  <2> QED BY <1>2, <2>4, <2>5 DEF Try
<1>3. CASE putOriginalFilesFromDisk(u)
  <2>1. job[u].file \in 0..MaxUploads /\ [job[u] EXCEPT !.at = "merge"] \in JobState
    BY <1>3, JobMoves, Bounds DEF putOriginalFilesFromDisk
  <2>2. job' = [job EXCEPT ![u] = [job[u] EXCEPT !.at = "merge"]] /\ original' = job[u].file
    BY <1>3 DEF putOriginalFilesFromDisk
  <2>3. job' \in [Upload -> JobState]
    BY <2>1, <2>2 DEF TypeOK
  <2> QED BY <1>3, <2>1, <2>2, <2>3 DEF putOriginalFilesFromDisk, TypeOK
<1>4. CASE PutFails(u)
  <2>1. job[u].file \in 0..MaxUploads
    BY <1>4, JobMoves, Bounds DEF PutFails
  <2>2. loop' \in [Upload -> LoopState]
    BY <1>4, Answered DEF PutFails, LoopAt
  <2>3. failures' \in 0..MaxFailures
    BY <1>4, Bounds DEF PutFails, Failure, TypeOK
  <2>4. original' \in 0..MaxUploads /\ job' \in [Upload -> JobState]
    BY <1>4, <2>1, IdleIsAState DEF PutFails, TypeOK
  <2> QED BY <1>4, <2>2, <2>3, <2>4 DEF PutFails, TypeOK
<1>5. CASE mergeStoredAttachments(u)
  BY <1>5, Docs, JobMoves, Answered, IdleIsAState
  DEF mergeStoredAttachments, TypeOK, objects, LoopAt
<1>6. CASE JobCleans(u)
  <2>1. loop' \in [Upload -> LoopState] /\ job' \in [Upload -> JobState]
    BY <1>6, Answered, IdleIsAState DEF JobCleans, TypeOK
  <2> QED BY <1>6, <2>1, Bounds DEF JobCleans, TypeOK, objects
<1>7. CASE Deadline(u)
  BY <1>7, LoopMoves DEF Deadline, LoopGoes, TypeOK, objects, LoopAt
<1>8. CASE CheckWhy(u)
  BY <1>8, LoopMoves, IdleIsAState DEF CheckWhy, LoopGoes, TypeOK, objects, LoopAt
<1>9. CASE Retry(u)
  BY <1>9, LoopMoves, Docs DEF Retry, LoopGoes, TypeOK, objects, LoopAt
<1>10. CASE LoopFails(u)
  BY <1>10, LoopMoves, IdleIsAState, Docs DEF LoopFails, LoopGoes, TypeOK, objects, LoopAt
<1>11. CASE LoopCleans(u)
  BY <1>11, IdleIsAState, Bounds DEF LoopCleans, LoopGoes, TypeOK, objects
<1> QED BY <1>1, <1>2, <1>3, <1>4, <1>5, <1>6, <1>7, <1>8, <1>9, <1>10, <1>11

LEMMA WorkerKeepsTypes ==
  ASSUME TypeOK, NumbersOK, NEW w \in Worker,
         WorkerStep(w) \/ ReportProgress(w) \/ StoringFails(w) \/ WorkerStops(w)
  PROVE  TypeOK'
<1>1. CASE Find(w)
  BY <1>1 DEF Find, WorkerGoes, TypeOK, objects, WorkerState
<1>2. CASE claimMapAssetProcessing(w)
  <2>1. asset' \in Doc
    BY <1>2, Docs DEF claimMapAssetProcessing, TypeOK
  <2>2. claims' \in Nat
    BY <1>2 DEF claimMapAssetProcessing, TypeOK
  <2>3. [at |-> "reread"] \in WorkerState
    BY DEF WorkerState
  <2>4. worker' \in [Worker -> WorkerState]
    BY <1>2, <2>3, IdleIsAState DEF claimMapAssetProcessing, WorkerGoes, TypeOK
  <2> QED BY <1>2, <2>1, <2>2, <2>4 DEF claimMapAssetProcessing, TypeOK, objects
<1>3. CASE ReadClaim(w)
  BY <1>3, IdleIsAState DEF ReadClaim, WorkerGoes, TypeOK, objects, WorkerState, Doc
<1>4. CASE Convert(w)
  <2>1. worker[w].claim \in Nat
    BY <1>4 DEF Convert, TypeOK, WorkerState
  <2>2. /\ [at |-> "fail", claim |-> worker[w].claim] \in WorkerState
        /\ original # 0 => [at |-> "own", claim |-> worker[w].claim, file |-> original] \in WorkerState
    BY <2>1, Bounds DEF TypeOK, WorkerState
  <2> QED BY <1>4, <2>2 DEF Convert, WorkerGoes, TypeOK, objects
<1>5. CASE StillOwned(w)
  BY <1>5, Docs, WorkerMoves, IdleIsAState DEF StillOwned, Heartbeat, WorkerGoes, TypeOK, objects
<1>6. CASE putNormalizedAttachment(w)
  <2>1. worker[w].file \in 0..MaxUploads /\ [worker[w] EXCEPT !.at = "commit"] \in WorkerState
    BY <1>6, WorkerMoves, Bounds DEF putNormalizedAttachment
  <2> QED BY <1>6, <2>1 DEF putNormalizedAttachment, WorkerGoes, TypeOK
<1>7. CASE Commit(w)
  BY <1>7, Docs, WorkerMoves, IdleIsAState DEF Commit, WorkerGoes, TypeOK, objects
<1>8. CASE ReportProgress(w)
  BY <1>8, Docs DEF ReportProgress, Heartbeat, TypeOK, objects
<1>9. CASE StoringFails(w)
  <2>1. worker[w].file \in 0..MaxUploads /\ worker[w].claim \in Nat
    BY <1>9, WorkerMoves, Bounds DEF StoringFails
  <2>2. [at |-> "fail", claim |-> worker[w].claim] \in WorkerState
    BY <2>1 DEF WorkerState
  <2>3. failures' \in 0..MaxFailures
    BY <1>9, Bounds DEF StoringFails, Failure, TypeOK
  <2> QED BY <1>9, <2>1, <2>2, <2>3 DEF StoringFails, WorkerGoes, TypeOK
<1>10. CASE WorkerStops(w)
  <2>1. failures' \in 0..MaxFailures
    BY <1>10, Bounds DEF WorkerStops, Failure, TypeOK
  <2> QED BY <1>10, <2>1, IdleIsAState DEF WorkerStops, WorkerGoes, TypeOK, objects
<1> QED BY <1>1, <1>2, <1>3, <1>4, <1>5, <1>6, <1>7, <1>8, <1>9, <1>10 DEF WorkerStep

LEMMA RestKeepsTypes ==
  ASSUME TypeOK, SweepStep \/ ClaimGoesStale \/ ApiRestarts
  PROVE  TypeOK'
<1>1. CASE SweepStep
  <2>1. CASE SweepLists
    BY <1>1, <2>1 DEF SweepLists, TypeOK, objects
  <2>2. CASE SweepFails
    BY <1>1, <2>2, Docs DEF SweepFails, TypeOK, objects
  <2>3. CASE SweepCleans
    BY <1>1, <2>3, Bounds DEF SweepCleans, TypeOK, objects
  <2> QED BY <1>1, <2>1, <2>2, <2>3 DEF SweepStep
<1>2. CASE ClaimGoesStale
  BY <1>2, Docs DEF ClaimGoesStale, TypeOK, objects
<1>3. CASE ApiRestarts
  <2>1. failures' \in 0..MaxFailures
    BY <1>3, Bounds DEF ApiRestarts, Failure, TypeOK
  <2> QED BY <1>3, <2>1, IdleIsAState DEF ApiRestarts, TypeOK, objects
<1> QED BY <1>1, <1>2, <1>3

-----------------------------------------------------------------------------
(* What the documents that steps write say.                                *)
LEMMA DocFields ==
  ASSUME TypeOK
  PROVE  /\ \A u : /\ Fresh(u).status = "pending" /\ Fresh(u).upload = u
                   /\ Fresh(u).stored = 0 /\ Fresh(u).claim = 0
         /\ NoAsset.status = "absent" /\ NoAsset.claim = 0
         /\ Removed.status = "deleted" /\ Removed.claim = 0
         /\ AsFailed.status = "failed" /\ AsFailed.claim = 0
         /\ AsFailed.upload = asset.upload /\ AsFailed.stored = asset.stored
         /\ Claimed.status = "processing" /\ Claimed.claim = claims + 1
         /\ Claimed.upload = asset.upload /\ Claimed.stored = asset.stored
         /\ \A f : LET d == [AsFailed EXCEPT !.status = "ready", !.built = f] IN
              /\ d.status = "ready" /\ d.claim = 0
              /\ d.upload = asset.upload /\ d.stored = asset.stored
         /\ LET d == [asset EXCEPT !.stale = TRUE] IN
              /\ d.status = asset.status /\ d.claim = asset.claim
              /\ d.upload = asset.upload /\ d.stored = asset.stored
         /\ LET d == [asset EXCEPT !.stale = FALSE] IN
              /\ d.status = asset.status /\ d.claim = asset.claim
              /\ d.upload = asset.upload /\ d.stored = asset.stored
         /\ Idle.at = "idle"
         /\ \A u \in Upload : job[u].at # "idle" =>
              /\ [job[u] EXCEPT !.at = "clean"].at = "clean"
              /\ [job[u] EXCEPT !.at = "merge"].at = "merge"
         /\ \A u : LET d == [asset EXCEPT !.stored = u, !.stale = FALSE] IN
              /\ d.status = asset.status /\ d.claim = asset.claim
              /\ d.upload = asset.upload /\ d.stored = u
BY DEF TypeOK, Doc, Fresh, NoAsset, Removed, AsFailed, Claimed, Idle, JobState

(* What a step may do to the document.                                     *)
SameNumbers == uploads' = uploads /\ claims' = claims

AsWas ==
  /\ asset'.status = asset.status /\ asset'.upload = asset.upload
  /\ asset'.stored = asset.stored /\ asset'.claim = asset.claim
  /\ (asset.status \in Settled => asset' = asset) /\ SameNumbers

Starts ==
  /\ asset = NoAsset \/ asset.status \in Settled
  /\ asset' = Fresh(uploads') /\ claims' = claims /\ request = Idle
  /\ uploads' = IF asset = NoAsset THEN 1 ELSE uploads + 1
  /\ UNCHANGED <<loop, job, objects, worker>>

Deletes == asset' = Removed /\ SameNumbers

PutsBack ==
  /\ request.at = "stage" /\ request.previous # NoAsset /\ asset.status \notin Gone
  /\ asset' = request.previous /\ request' = Idle
  /\ UNCHANGED <<objects, worker>> /\ SameNumbers

Stores(u) ==
  /\ job[u].at = "merge" /\ job'[u].at = "clean" /\ isMapAssetInProgress
  /\ asset' = [asset EXCEPT !.stored = u, !.stale = FALSE]
  /\ UNCHANGED <<objects, worker, request>> /\ SameNumbers

GivesUp == isMapAssetInProgress /\ asset.stored = 0 /\ asset' = AsFailed /\ SameNumbers
UsesUp == mapAssetIsClaimable /\ Exhausted /\ asset' = AsFailed /\ SameNumbers

Claims ==
  /\ mapAssetIsClaimable /\ asset' = Claimed /\ claims' = claims + 1
  /\ \A w \in Worker : worker'[w] = worker[w] \/ worker'[w].at = "reread"
  /\ UNCHANGED <<uploads, objects, job, request>>

Fails == asset.status = "processing" /\ asset' = AsFailed /\ SameNumbers

Readies(w) ==
  /\ worker[w].at = "commit" /\ ClaimIsMine(w)
  /\ asset' = [AsFailed EXCEPT !.status = "ready", !.built = worker[w].file]
  /\ UNCHANGED <<objects, request>> /\ SameNumbers

AssetEffect ==
  \/ AsWas \/ Starts \/ Deletes \/ PutsBack \/ GivesUp \/ UsesUp \/ Claims \/ Fails
  \/ (\E u \in Upload : Stores(u)) \/ (\E w \in Worker : Readies(w))

(* A loop starts at the end of a request only.                             *)
LoopEffect(u) ==
  loop[u] = Idle => loop'[u] = Idle
    \/ (u = uploads /\ request' = Idle /\ asset.status \notin Gone)

LEMMA AssetSteps ==
  ASSUME TypeOK, NumbersOK, Next
  PROVE  AssetEffect
<1> USE DEF AsWas, Starts, Deletes, PutsBack, GivesUp, UsesUp, Claims, Fails, Stores, Readies,
            AssetEffect, SameNumbers, objects
<1>1. CASE createMapAsset
  BY <1>1, DocFields DEF createMapAsset, TypeOK, isMapAssetInProgress, Settled
<1>2. CASE replaceMapAssetFiles
  BY <1>2, DocFields DEF replaceMapAssetFiles, TypeOK, isMapAssetInProgress, Settled
<1>3. CASE stageUploadFiles
  BY <1>3, DocFields DEF stageUploadFiles, TypeOK, isMapAssetInProgress, Settled
<1>4. CASE StagingFails
  BY <1>4, DocFields DEF StagingFails, TypeOK, isMapAssetInProgress, Settled
<1>5. CASE DropPrevious
  BY <1>5, DocFields DEF DropPrevious, TypeOK, isMapAssetInProgress, Settled
<1>6. CASE deleteMapAsset
  BY <1>6, DocFields DEF deleteMapAsset, TypeOK, isMapAssetInProgress, Settled
<1>7. ASSUME NEW i \in Upload, UploadTimesOut(i) PROVE AssetEffect
  BY <1>7, DocFields DEF UploadTimesOut, TypeOK, isMapAssetInProgress, Settled
<1>8. ASSUME NEW i \in Upload, Try(i) PROVE AssetEffect
  BY <1>8, DocFields DEF Try, TypeOK, isMapAssetInProgress, Settled
<1>9. ASSUME NEW i \in Upload, putOriginalFilesFromDisk(i) PROVE AssetEffect
  BY <1>9, DocFields DEF putOriginalFilesFromDisk, TypeOK, isMapAssetInProgress, Settled
<1>10. ASSUME NEW i \in Upload, PutFails(i) PROVE AssetEffect
  BY <1>10, DocFields DEF PutFails, TypeOK, isMapAssetInProgress, Settled
<1>11. ASSUME NEW i \in Upload, mergeStoredAttachments(i) PROVE AssetEffect
  <2>1. CASE UNCHANGED asset
    BY <1>11, <2>1 DEF mergeStoredAttachments
  <2>2. CASE ~UNCHANGED asset
    <3>1. /\ asset.status \notin Gone /\ ~originalStoreWriteSkipReason(job[i].own)
          /\ asset' = [asset EXCEPT !.stored = i, !.stale = FALSE]
          /\ job' = [job EXCEPT ![i].at = "clean"] /\ job[i].at = "merge"
          /\ UNCHANGED <<objects, worker, request>> /\ SameNumbers
      BY <1>11, <2>2 DEF mergeStoredAttachments, SameNumbers, objects
    <3>2. job'[i].at = "clean"
      BY <3>1, DocFields DEF TypeOK
    <3>3. isMapAssetInProgress
      BY <3>1 DEF originalStoreWriteSkipReason
    <3> QED BY <3>1, <3>2, <3>3
  <2> QED BY <2>1, <2>2
<1>12. ASSUME NEW i \in Upload, JobCleans(i) PROVE AssetEffect
  BY <1>12, DocFields DEF JobCleans, TypeOK, isMapAssetInProgress, Settled
<1>13. ASSUME NEW i \in Upload, Deadline(i) PROVE AssetEffect
  BY <1>13, DocFields DEF Deadline, TypeOK, isMapAssetInProgress, Settled
<1>14. ASSUME NEW i \in Upload, CheckWhy(i) PROVE AssetEffect
  BY <1>14, DocFields DEF CheckWhy, TypeOK, isMapAssetInProgress, Settled
<1>15. ASSUME NEW i \in Upload, Retry(i) PROVE AssetEffect
  BY <1>15, DocFields DEF Retry, originalStoreWriteSkipReason, TypeOK, isMapAssetInProgress, Settled
<1>16. ASSUME NEW i \in Upload, LoopFails(i) PROVE AssetEffect
  BY <1>16, DocFields DEF LoopFails, Failable, TypeOK, isMapAssetInProgress, Settled
<1>17. ASSUME NEW i \in Upload, LoopCleans(i) PROVE AssetEffect
  BY <1>17, DocFields DEF LoopCleans, TypeOK, isMapAssetInProgress, Settled
<1>18. ASSUME NEW i \in Worker, Find(i) PROVE AssetEffect
  BY <1>18, DocFields DEF Find, TypeOK, isMapAssetInProgress, Settled
<1>19. ASSUME NEW i \in Worker, claimMapAssetProcessing(i) PROVE AssetEffect
  <2>1. CASE ~mapAssetIsClaimable
    BY <1>19, <2>1 DEF claimMapAssetProcessing
  <2>2. CASE mapAssetIsClaimable /\ Exhausted
    BY <1>19, <2>2 DEF claimMapAssetProcessing
  <2>3. CASE mapAssetIsClaimable /\ ~Exhausted
    <3>1. worker' = [worker EXCEPT ![i] = [at |-> "reread"]]
      BY <1>19, <2>3 DEF claimMapAssetProcessing, WorkerGoes
    <3>2. \A w \in Worker : worker'[w] = worker[w] \/ worker'[w].at = "reread"
      BY <3>1 DEF TypeOK
    <3>3. Claims
      BY <1>19, <2>3, <3>2 DEF claimMapAssetProcessing
    <3> QED BY <3>3
  <2> QED BY <2>1, <2>2, <2>3
<1>20. ASSUME NEW i \in Worker, ReadClaim(i) PROVE AssetEffect
  BY <1>20, DocFields DEF ReadClaim, TypeOK, isMapAssetInProgress, Settled
<1>21. ASSUME NEW i \in Worker, Convert(i) PROVE AssetEffect
  BY <1>21, DocFields DEF Convert, TypeOK, isMapAssetInProgress, Settled
<1>22. ASSUME NEW i \in Worker, StillOwned(i) PROVE AssetEffect
  BY <1>22, DocFields DEF StillOwned, Heartbeat, ClaimIsMine, TypeOK, isMapAssetInProgress, Settled
<1>23. ASSUME NEW i \in Worker, putNormalizedAttachment(i) PROVE AssetEffect
  BY <1>23, DocFields DEF putNormalizedAttachment, TypeOK, isMapAssetInProgress, Settled
<1>24. ASSUME NEW i \in Worker, Commit(i) PROVE AssetEffect
  BY <1>24, DocFields DEF Commit, ClaimIsMine, TypeOK, isMapAssetInProgress, Settled
<1>25. ASSUME NEW i \in Worker, ReportProgress(i) PROVE AssetEffect
  BY <1>25, DocFields DEF ReportProgress, Heartbeat, ClaimIsMine, TypeOK, isMapAssetInProgress, Settled
<1>26. ASSUME NEW i \in Worker, StoringFails(i) PROVE AssetEffect
  BY <1>26, DocFields DEF StoringFails, TypeOK, isMapAssetInProgress, Settled
<1>27. ASSUME NEW i \in Worker, WorkerStops(i) PROVE AssetEffect
  BY <1>27, DocFields DEF WorkerStops, TypeOK, isMapAssetInProgress, Settled
<1>28. CASE SweepLists
  BY <1>28, DocFields DEF SweepLists, TypeOK, isMapAssetInProgress, Settled
<1>29. CASE SweepFails
  BY <1>29, DocFields DEF SweepFails, Failable, TypeOK, isMapAssetInProgress, Settled
<1>30. CASE SweepCleans
  BY <1>30, DocFields DEF SweepCleans, TypeOK, isMapAssetInProgress, Settled
<1>31. CASE ClaimGoesStale
  BY <1>31, DocFields DEF ClaimGoesStale, TypeOK, isMapAssetInProgress, Settled
<1>32. CASE ApiRestarts
  BY <1>32, DocFields DEF ApiRestarts, TypeOK, isMapAssetInProgress, Settled
<1> QED BY <1>1, <1>2, <1>3, <1>4, <1>5, <1>6, <1>7, <1>8, <1>9, <1>10, <1>11, <1>12, <1>13, <1>14, <1>15, <1>16, <1>17, <1>18, <1>19, <1>20, <1>21, <1>22, <1>23, <1>24, <1>25, <1>26, <1>27, <1>28, <1>29, <1>30, <1>31, <1>32
     DEF Next, WorkerStep, SweepStep

LEMMA LoopSteps ==
  ASSUME TypeOK, NumbersOK, Next, NEW u \in Upload
  PROVE  LoopEffect(u)
<1>1. CASE createMapAsset
  BY <1>1, DocFields DEF createMapAsset, LoopEffect, TypeOK
<1>2. CASE replaceMapAssetFiles
  BY <1>2, DocFields DEF replaceMapAssetFiles, LoopEffect, TypeOK
<1>3. CASE stageUploadFiles
  BY <1>3, DocFields DEF stageUploadFiles, LoopEffect, TypeOK
<1>4. CASE StagingFails
  BY <1>4, DocFields DEF StagingFails, LoopEffect, TypeOK
<1>5. CASE DropPrevious
  BY <1>5, DocFields DEF DropPrevious, LoopEffect, TypeOK
<1>6. CASE deleteMapAsset
  BY <1>6, DocFields DEF deleteMapAsset, LoopEffect, TypeOK
<1>7. ASSUME NEW i \in Upload, UploadTimesOut(i) PROVE LoopEffect(u)
  BY <1>7, DocFields DEF UploadTimesOut, Answer, LoopGoes, LoopEffect, TypeOK
<1>8. ASSUME NEW i \in Upload, Try(i) PROVE LoopEffect(u)
  BY <1>8, DocFields DEF Try, Answer, LoopGoes, LoopEffect, TypeOK
<1>9. ASSUME NEW i \in Upload, putOriginalFilesFromDisk(i) PROVE LoopEffect(u)
  BY <1>9, DocFields DEF putOriginalFilesFromDisk, Answer, LoopGoes, LoopEffect, TypeOK
<1>10. ASSUME NEW i \in Upload, PutFails(i) PROVE LoopEffect(u)
  BY <1>10, DocFields DEF PutFails, Answer, LoopGoes, LoopEffect, TypeOK
<1>11. ASSUME NEW i \in Upload, mergeStoredAttachments(i) PROVE LoopEffect(u)
  BY <1>11, DocFields DEF mergeStoredAttachments, Answer, LoopGoes, LoopEffect, TypeOK
<1>12. ASSUME NEW i \in Upload, JobCleans(i) PROVE LoopEffect(u)
  BY <1>12, DocFields DEF JobCleans, Answer, LoopGoes, LoopEffect, TypeOK
<1>13. ASSUME NEW i \in Upload, Deadline(i) PROVE LoopEffect(u)
  BY <1>13, DocFields DEF Deadline, Answer, LoopGoes, LoopEffect, TypeOK
<1>14. ASSUME NEW i \in Upload, CheckWhy(i) PROVE LoopEffect(u)
  BY <1>14, DocFields DEF CheckWhy, Answer, LoopGoes, LoopEffect, TypeOK
<1>15. ASSUME NEW i \in Upload, Retry(i) PROVE LoopEffect(u)
  BY <1>15, DocFields DEF Retry, Answer, LoopGoes, LoopEffect, TypeOK
<1>16. ASSUME NEW i \in Upload, LoopFails(i) PROVE LoopEffect(u)
  BY <1>16, DocFields DEF LoopFails, Answer, LoopGoes, LoopEffect, TypeOK
<1>17. ASSUME NEW i \in Upload, LoopCleans(i) PROVE LoopEffect(u)
  BY <1>17, DocFields DEF LoopCleans, Answer, LoopGoes, LoopEffect, TypeOK
<1>18. ASSUME NEW i \in Worker, Find(i) PROVE LoopEffect(u)
  BY <1>18, DocFields DEF Find, LoopEffect, TypeOK
<1>19. ASSUME NEW i \in Worker, claimMapAssetProcessing(i) PROVE LoopEffect(u)
  BY <1>19, DocFields DEF claimMapAssetProcessing, LoopEffect, TypeOK
<1>20. ASSUME NEW i \in Worker, ReadClaim(i) PROVE LoopEffect(u)
  BY <1>20, DocFields DEF ReadClaim, LoopEffect, TypeOK
<1>21. ASSUME NEW i \in Worker, Convert(i) PROVE LoopEffect(u)
  BY <1>21, DocFields DEF Convert, LoopEffect, TypeOK
<1>22. ASSUME NEW i \in Worker, StillOwned(i) PROVE LoopEffect(u)
  BY <1>22, DocFields DEF StillOwned, LoopEffect, TypeOK
<1>23. ASSUME NEW i \in Worker, putNormalizedAttachment(i) PROVE LoopEffect(u)
  BY <1>23, DocFields DEF putNormalizedAttachment, LoopEffect, TypeOK
<1>24. ASSUME NEW i \in Worker, Commit(i) PROVE LoopEffect(u)
  BY <1>24, DocFields DEF Commit, LoopEffect, TypeOK
<1>25. ASSUME NEW i \in Worker, ReportProgress(i) PROVE LoopEffect(u)
  BY <1>25, DocFields DEF ReportProgress, LoopEffect, TypeOK
<1>26. ASSUME NEW i \in Worker, StoringFails(i) PROVE LoopEffect(u)
  BY <1>26, DocFields DEF StoringFails, LoopEffect, TypeOK
<1>27. ASSUME NEW i \in Worker, WorkerStops(i) PROVE LoopEffect(u)
  BY <1>27, DocFields DEF WorkerStops, LoopEffect, TypeOK
<1>28. CASE SweepLists
  BY <1>28, DocFields DEF SweepLists, LoopEffect, TypeOK
<1>29. CASE SweepFails
  BY <1>29, DocFields DEF SweepFails, LoopEffect, TypeOK
<1>30. CASE SweepCleans
  BY <1>30, DocFields DEF SweepCleans, LoopEffect, TypeOK
<1>31. CASE ClaimGoesStale
  BY <1>31, DocFields DEF ClaimGoesStale, LoopEffect, TypeOK
<1>32. CASE ApiRestarts
  BY <1>32, DocFields DEF ApiRestarts, LoopEffect, TypeOK
<1> QED BY <1>1, <1>2, <1>3, <1>4, <1>5, <1>6, <1>7, <1>8, <1>9, <1>10, <1>11, <1>12, <1>13, <1>14, <1>15, <1>16, <1>17, <1>18, <1>19, <1>20, <1>21, <1>22, <1>23, <1>24, <1>25, <1>26, <1>27, <1>28, <1>29, <1>30, <1>31, <1>32
     DEF Next, WorkerStep, SweepStep

(* An attempt is started by its loop for an asset that waits for it.       *)
JobEffect(u) ==
  \/ job'[u] = job[u] \/ job'[u] = Idle
  \/ job[u].at = "merge" /\ job'[u].at = "clean"
  \/ /\ loop[u].at = "try" /\ isMapAssetInProgress /\ asset.stored = 0 
     /\ job'[u].at = "put" /\ UNCHANGED <<asset, worker, request, uploads>>
  \/ job[u].at = "put" /\ job'[u].at = "merge" /\ original' # 0 /\ UNCHANGED <<asset, normalized, request, uploads>>

(* What a worker knows of its claim.                                       *)
WorkerEffect(w) ==
  \/ worker'[w] = worker[w] \/ worker'[w].at \in {"idle", "claim", "reread"}
  \/ /\ worker'[w].at = "convert" /\ worker'[w].claim = asset.claim /\ asset.claim # 0
     /\ worker'[w].stored = asset.stored /\ UNCHANGED <<asset, claims>>
  \/ /\ worker'[w].claim = worker[w].claim /\ UNCHANGED claims
     /\ \/ worker[w].at \in {"convert", "put"} /\ worker'[w].at = "fail"
        \/ worker[w].at = "convert" /\ worker[w].stored # 0 /\ worker'[w].at = "own"
        \/ worker[w].at = "own" /\ worker'[w].at = "put"
        \/ worker[w].at = "put" /\ worker'[w].at = "commit" /\ normalized' # 0

LEMMA WorkerFields ==
  ASSUME TypeOK, NEW w \in Worker, worker[w].at \in {"own", "put", "commit"}
  PROVE  /\ worker[w].file # 0
         /\ [worker[w] EXCEPT !.at = "put"].at = "put"
         /\ [worker[w] EXCEPT !.at = "put"].claim = worker[w].claim
         /\ [worker[w] EXCEPT !.at = "commit"].at = "commit"
         /\ [worker[w] EXCEPT !.at = "commit"].claim = worker[w].claim
BY DEF TypeOK, WorkerState, Upload

(* Objects are dropped by a request and a delete only.                     *)
ObjectEffect ==
  \/ /\ original' = original \/ original' # 0
     /\ normalized' = normalized \/ normalized' # 0
  \/ asset' = Removed
  \/ request.at = "drop" /\ request' = Idle /\ UNCHANGED <<asset, job, worker, uploads>>

RequestEffect ==
  \/ request' = request /\ (request # Idle => uploads' = uploads)
  \/ request' = Idle
  \/ /\ asset = NoAsset \/ asset.status \in Settled
     /\ request' = [at |-> "stage", previous |-> asset]
     /\ asset' = Fresh(uploads') /\ UNCHANGED <<loop, job, objects>>
     /\ uploads' = IF asset = NoAsset THEN 1 ELSE uploads + 1
  \/ /\ request.at = "stage" /\ request' = [request EXCEPT !.at = "drop"]
     /\ UNCHANGED <<asset, uploads, loop, job, objects>>

LEMMA JobSteps ==
  ASSUME TypeOK, NumbersOK, Next, NEW u \in Upload
  PROVE  JobEffect(u)
<1>1. CASE createMapAsset
  BY <1>1, DocFields, JobMoves DEF createMapAsset, JobEffect, TypeOK
<1>2. CASE replaceMapAssetFiles
  BY <1>2, DocFields, JobMoves DEF replaceMapAssetFiles, JobEffect, TypeOK
<1>3. CASE stageUploadFiles
  BY <1>3, DocFields, JobMoves DEF stageUploadFiles, JobEffect, TypeOK
<1>4. CASE StagingFails
  BY <1>4, DocFields, JobMoves DEF StagingFails, JobEffect, TypeOK
<1>5. CASE DropPrevious
  BY <1>5, DocFields, JobMoves DEF DropPrevious, JobEffect, TypeOK
<1>6. CASE deleteMapAsset
  BY <1>6, DocFields, JobMoves DEF deleteMapAsset, JobEffect, TypeOK
<1>7. ASSUME NEW i \in Upload, UploadTimesOut(i) PROVE JobEffect(u)
  BY <1>7, DocFields, JobMoves DEF UploadTimesOut, JobEffect, TypeOK
<1>8. ASSUME NEW i \in Upload, Try(i) PROVE JobEffect(u)
  BY <1>8, DocFields, JobMoves DEF Try, LoopGoes, JobEffect, TypeOK
<1>9. ASSUME NEW i \in Upload, putOriginalFilesFromDisk(i) PROVE JobEffect(u)
  <2>1. job[i].at = "put" /\ original' # 0
    BY <1>9, JobMoves, Bounds DEF putOriginalFilesFromDisk
  <2>2. job' = [job EXCEPT ![i] = [job[i] EXCEPT !.at = "merge"]]
    BY <1>9 DEF putOriginalFilesFromDisk
  <2>3. job'[i].at = "merge"
    BY <2>1, <2>2, DocFields DEF TypeOK
  <2>4. u # i => job'[u] = job[u]
    BY <2>2 DEF TypeOK
  <2> QED BY <1>9, <2>1, <2>3, <2>4 DEF putOriginalFilesFromDisk, JobEffect
<1>10. ASSUME NEW i \in Upload, PutFails(i) PROVE JobEffect(u)
  BY <1>10, DocFields, JobMoves DEF PutFails, JobEffect, TypeOK
<1>11. ASSUME NEW i \in Upload, mergeStoredAttachments(i) PROVE JobEffect(u)
  <2>1. job[i].at = "merge"
    BY <1>11 DEF mergeStoredAttachments
  <2>2. CASE job' = [job EXCEPT ![i] = Idle]
    BY <2>2 DEF JobEffect, TypeOK
  <2>3. CASE job' = [job EXCEPT ![i] = [job[i] EXCEPT !.at = "clean"]]
    <3>1. job'[i].at = "clean" /\ (u # i => job'[u] = job[u])
      BY <2>1, <2>3, DocFields DEF TypeOK
    <3> QED BY <2>1, <3>1 DEF JobEffect
  <2> QED BY <1>11, <2>2, <2>3 DEF mergeStoredAttachments
<1>12. ASSUME NEW i \in Upload, JobCleans(i) PROVE JobEffect(u)
  BY <1>12, DocFields, JobMoves DEF JobCleans, JobEffect, TypeOK
<1>13. ASSUME NEW i \in Upload, Deadline(i) PROVE JobEffect(u)
  BY <1>13, DocFields, JobMoves DEF Deadline, JobEffect, TypeOK
<1>14. ASSUME NEW i \in Upload, CheckWhy(i) PROVE JobEffect(u)
  BY <1>14, DocFields, JobMoves DEF CheckWhy, JobEffect, TypeOK
<1>15. ASSUME NEW i \in Upload, Retry(i) PROVE JobEffect(u)
  BY <1>15, DocFields, JobMoves DEF Retry, JobEffect, TypeOK
<1>16. ASSUME NEW i \in Upload, LoopFails(i) PROVE JobEffect(u)
  BY <1>16, DocFields, JobMoves DEF LoopFails, JobEffect, TypeOK
<1>17. ASSUME NEW i \in Upload, LoopCleans(i) PROVE JobEffect(u)
  BY <1>17, DocFields, JobMoves DEF LoopCleans, JobEffect, TypeOK
<1>18. ASSUME NEW i \in Worker, Find(i) PROVE JobEffect(u)
  BY <1>18, DocFields, JobMoves DEF Find, JobEffect, TypeOK
<1>19. ASSUME NEW i \in Worker, claimMapAssetProcessing(i) PROVE JobEffect(u)
  BY <1>19, DocFields, JobMoves DEF claimMapAssetProcessing, JobEffect, TypeOK
<1>20. ASSUME NEW i \in Worker, ReadClaim(i) PROVE JobEffect(u)
  BY <1>20, DocFields, JobMoves DEF ReadClaim, JobEffect, TypeOK
<1>21. ASSUME NEW i \in Worker, Convert(i) PROVE JobEffect(u)
  BY <1>21, DocFields, JobMoves DEF Convert, JobEffect, TypeOK
<1>22. ASSUME NEW i \in Worker, StillOwned(i) PROVE JobEffect(u)
  BY <1>22, DocFields, JobMoves DEF StillOwned, JobEffect, TypeOK
<1>23. ASSUME NEW i \in Worker, putNormalizedAttachment(i) PROVE JobEffect(u)
  BY <1>23, DocFields, JobMoves DEF putNormalizedAttachment, JobEffect, TypeOK
<1>24. ASSUME NEW i \in Worker, Commit(i) PROVE JobEffect(u)
  BY <1>24, DocFields, JobMoves DEF Commit, JobEffect, TypeOK
<1>25. ASSUME NEW i \in Worker, ReportProgress(i) PROVE JobEffect(u)
  BY <1>25, DocFields, JobMoves DEF ReportProgress, JobEffect, TypeOK
<1>26. ASSUME NEW i \in Worker, StoringFails(i) PROVE JobEffect(u)
  BY <1>26, DocFields, JobMoves DEF StoringFails, JobEffect, TypeOK
<1>27. ASSUME NEW i \in Worker, WorkerStops(i) PROVE JobEffect(u)
  BY <1>27, DocFields, JobMoves DEF WorkerStops, JobEffect, TypeOK
<1>28. CASE SweepLists
  BY <1>28, DocFields, JobMoves DEF SweepLists, JobEffect, TypeOK
<1>29. CASE SweepFails
  BY <1>29, DocFields, JobMoves DEF SweepFails, JobEffect, TypeOK
<1>30. CASE SweepCleans
  BY <1>30, DocFields, JobMoves DEF SweepCleans, JobEffect, TypeOK
<1>31. CASE ClaimGoesStale
  BY <1>31, DocFields, JobMoves DEF ClaimGoesStale, JobEffect, TypeOK
<1>32. CASE ApiRestarts
  BY <1>32, DocFields, JobMoves DEF ApiRestarts, JobEffect, TypeOK
<1> QED BY <1>1, <1>2, <1>3, <1>4, <1>5, <1>6, <1>7, <1>8, <1>9, <1>10, <1>11, <1>12, <1>13, <1>14, <1>15, <1>16, <1>17, <1>18, <1>19, <1>20, <1>21, <1>22, <1>23, <1>24, <1>25, <1>26, <1>27, <1>28, <1>29, <1>30, <1>31, <1>32
     DEF Next, WorkerStep, SweepStep

LEMMA WorkerSteps ==
  ASSUME TypeOK, NumbersOK, Next, NEW w \in Worker
  PROVE  WorkerEffect(w)
<1>1. CASE createMapAsset
  BY <1>1, DocFields, WorkerFields DEF createMapAsset, WorkerEffect, TypeOK
<1>2. CASE replaceMapAssetFiles
  BY <1>2, DocFields, WorkerFields DEF replaceMapAssetFiles, WorkerEffect, TypeOK
<1>3. CASE stageUploadFiles
  BY <1>3, DocFields, WorkerFields DEF stageUploadFiles, WorkerEffect, TypeOK
<1>4. CASE StagingFails
  BY <1>4, DocFields, WorkerFields DEF StagingFails, WorkerEffect, TypeOK
<1>5. CASE DropPrevious
  BY <1>5, DocFields, WorkerFields DEF DropPrevious, WorkerEffect, TypeOK
<1>6. CASE deleteMapAsset
  BY <1>6, DocFields, WorkerFields DEF deleteMapAsset, WorkerEffect, TypeOK
<1>7. ASSUME NEW i \in Upload, UploadTimesOut(i) PROVE WorkerEffect(w)
  BY <1>7, DocFields, WorkerFields DEF UploadTimesOut, WorkerEffect, TypeOK
<1>8. ASSUME NEW i \in Upload, Try(i) PROVE WorkerEffect(w)
  BY <1>8, DocFields, WorkerFields DEF Try, WorkerEffect, TypeOK
<1>9. ASSUME NEW i \in Upload, putOriginalFilesFromDisk(i) PROVE WorkerEffect(w)
  BY <1>9, DocFields, WorkerFields DEF putOriginalFilesFromDisk, WorkerEffect, TypeOK
<1>10. ASSUME NEW i \in Upload, PutFails(i) PROVE WorkerEffect(w)
  BY <1>10, DocFields, WorkerFields DEF PutFails, WorkerEffect, TypeOK
<1>11. ASSUME NEW i \in Upload, mergeStoredAttachments(i) PROVE WorkerEffect(w)
  BY <1>11, DocFields, WorkerFields DEF mergeStoredAttachments, WorkerEffect, TypeOK
<1>12. ASSUME NEW i \in Upload, JobCleans(i) PROVE WorkerEffect(w)
  BY <1>12, DocFields, WorkerFields DEF JobCleans, WorkerEffect, TypeOK
<1>13. ASSUME NEW i \in Upload, Deadline(i) PROVE WorkerEffect(w)
  BY <1>13, DocFields, WorkerFields DEF Deadline, WorkerEffect, TypeOK
<1>14. ASSUME NEW i \in Upload, CheckWhy(i) PROVE WorkerEffect(w)
  BY <1>14, DocFields, WorkerFields DEF CheckWhy, WorkerEffect, TypeOK
<1>15. ASSUME NEW i \in Upload, Retry(i) PROVE WorkerEffect(w)
  BY <1>15, DocFields, WorkerFields DEF Retry, WorkerEffect, TypeOK
<1>16. ASSUME NEW i \in Upload, LoopFails(i) PROVE WorkerEffect(w)
  BY <1>16, DocFields, WorkerFields DEF LoopFails, WorkerEffect, TypeOK
<1>17. ASSUME NEW i \in Upload, LoopCleans(i) PROVE WorkerEffect(w)
  BY <1>17, DocFields, WorkerFields DEF LoopCleans, WorkerEffect, TypeOK
<1>18. ASSUME NEW i \in Worker, Find(i) PROVE WorkerEffect(w)
  BY <1>18, DocFields, WorkerFields DEF Find, WorkerGoes, WorkerEffect, TypeOK
<1>19. ASSUME NEW i \in Worker, claimMapAssetProcessing(i) PROVE WorkerEffect(w)
  BY <1>19, DocFields, WorkerFields DEF claimMapAssetProcessing, WorkerGoes, WorkerEffect, TypeOK
<1>20. ASSUME NEW i \in Worker, ReadClaim(i) PROVE WorkerEffect(w)
  BY <1>20, DocFields, WorkerFields DEF ReadClaim, WorkerGoes, WorkerEffect, TypeOK
<1>21. ASSUME NEW i \in Worker, Convert(i) PROVE WorkerEffect(w)
  BY <1>21, DocFields, WorkerFields DEF Convert, WorkerGoes, WorkerEffect, TypeOK
<1>22. ASSUME NEW i \in Worker, StillOwned(i) PROVE WorkerEffect(w)
  BY <1>22, DocFields, WorkerFields DEF StillOwned, WorkerGoes, WorkerEffect, TypeOK
<1>23. ASSUME NEW i \in Worker, putNormalizedAttachment(i) PROVE WorkerEffect(w)
  BY <1>23, DocFields, WorkerFields DEF putNormalizedAttachment, WorkerGoes, Upload, WorkerEffect, TypeOK
<1>24. ASSUME NEW i \in Worker, Commit(i) PROVE WorkerEffect(w)
  BY <1>24, DocFields, WorkerFields DEF Commit, WorkerGoes, WorkerEffect, TypeOK
<1>25. ASSUME NEW i \in Worker, ReportProgress(i) PROVE WorkerEffect(w)
  BY <1>25, DocFields, WorkerFields DEF ReportProgress, WorkerGoes, WorkerEffect, TypeOK
<1>26. ASSUME NEW i \in Worker, StoringFails(i) PROVE WorkerEffect(w)
  BY <1>26, DocFields, WorkerFields DEF StoringFails, WorkerGoes, WorkerEffect, TypeOK
<1>27. ASSUME NEW i \in Worker, WorkerStops(i) PROVE WorkerEffect(w)
  BY <1>27, DocFields, WorkerFields DEF WorkerStops, WorkerGoes, WorkerEffect, TypeOK
<1>28. CASE SweepLists
  BY <1>28, DocFields, WorkerFields DEF SweepLists, WorkerEffect, TypeOK
<1>29. CASE SweepFails
  BY <1>29, DocFields, WorkerFields DEF SweepFails, WorkerEffect, TypeOK
<1>30. CASE SweepCleans
  BY <1>30, DocFields, WorkerFields DEF SweepCleans, WorkerEffect, TypeOK
<1>31. CASE ClaimGoesStale
  BY <1>31, DocFields, WorkerFields DEF ClaimGoesStale, WorkerEffect, TypeOK
<1>32. CASE ApiRestarts
  BY <1>32, DocFields, WorkerFields DEF ApiRestarts, WorkerEffect, TypeOK
<1> QED BY <1>1, <1>2, <1>3, <1>4, <1>5, <1>6, <1>7, <1>8, <1>9, <1>10, <1>11, <1>12, <1>13, <1>14, <1>15, <1>16, <1>17, <1>18, <1>19, <1>20, <1>21, <1>22, <1>23, <1>24, <1>25, <1>26, <1>27, <1>28, <1>29, <1>30, <1>31, <1>32
     DEF Next, WorkerStep, SweepStep

LEMMA ObjectSteps ==
  ASSUME TypeOK, NumbersOK, Next
  PROVE  ObjectEffect
<1>1. CASE createMapAsset
  BY <1>1 DEF createMapAsset, ObjectEffect, objects
<1>2. CASE replaceMapAssetFiles
  BY <1>2 DEF replaceMapAssetFiles, ObjectEffect, objects
<1>3. CASE stageUploadFiles
  BY <1>3 DEF stageUploadFiles, ObjectEffect, objects
<1>4. CASE StagingFails
  BY <1>4 DEF StagingFails, ObjectEffect, objects
<1>5. CASE DropPrevious
  BY <1>5 DEF DropPrevious, ObjectEffect, objects
<1>6. CASE deleteMapAsset
  BY <1>6 DEF deleteMapAsset, ObjectEffect, objects
<1>7. ASSUME NEW i \in Upload, UploadTimesOut(i) PROVE ObjectEffect
  BY <1>7 DEF UploadTimesOut, ObjectEffect, objects
<1>8. ASSUME NEW i \in Upload, Try(i) PROVE ObjectEffect
  BY <1>8 DEF Try, ObjectEffect, objects
<1>9. ASSUME NEW i \in Upload, putOriginalFilesFromDisk(i) PROVE ObjectEffect
  <2>1. job[i].file # 0
    BY <1>9, JobMoves, Bounds DEF putOriginalFilesFromDisk
  <2> QED BY <1>9, <2>1 DEF putOriginalFilesFromDisk, ObjectEffect, objects
<1>10. ASSUME NEW i \in Upload, PutFails(i) PROVE ObjectEffect
  <2>1. job[i].file # 0
    BY <1>10, JobMoves, Bounds DEF PutFails
  <2> QED BY <1>10, <2>1 DEF PutFails, ObjectEffect, objects
<1>11. ASSUME NEW i \in Upload, mergeStoredAttachments(i) PROVE ObjectEffect
  BY <1>11 DEF mergeStoredAttachments, ObjectEffect, objects
<1>12. ASSUME NEW i \in Upload, JobCleans(i) PROVE ObjectEffect
  BY <1>12 DEF JobCleans, ObjectEffect, objects
<1>13. ASSUME NEW i \in Upload, Deadline(i) PROVE ObjectEffect
  BY <1>13 DEF Deadline, ObjectEffect, objects
<1>14. ASSUME NEW i \in Upload, CheckWhy(i) PROVE ObjectEffect
  BY <1>14 DEF CheckWhy, ObjectEffect, objects
<1>15. ASSUME NEW i \in Upload, Retry(i) PROVE ObjectEffect
  BY <1>15 DEF Retry, ObjectEffect, objects
<1>16. ASSUME NEW i \in Upload, LoopFails(i) PROVE ObjectEffect
  BY <1>16 DEF LoopFails, ObjectEffect, objects
<1>17. ASSUME NEW i \in Upload, LoopCleans(i) PROVE ObjectEffect
  BY <1>17 DEF LoopCleans, ObjectEffect, objects
<1>18. ASSUME NEW i \in Worker, Find(i) PROVE ObjectEffect
  BY <1>18 DEF Find, ObjectEffect, objects
<1>19. ASSUME NEW i \in Worker, claimMapAssetProcessing(i) PROVE ObjectEffect
  BY <1>19 DEF claimMapAssetProcessing, ObjectEffect, objects
<1>20. ASSUME NEW i \in Worker, ReadClaim(i) PROVE ObjectEffect
  BY <1>20 DEF ReadClaim, ObjectEffect, objects
<1>21. ASSUME NEW i \in Worker, Convert(i) PROVE ObjectEffect
  BY <1>21 DEF Convert, ObjectEffect, objects
<1>22. ASSUME NEW i \in Worker, StillOwned(i) PROVE ObjectEffect
  BY <1>22 DEF StillOwned, ObjectEffect, objects
<1>23. ASSUME NEW i \in Worker, putNormalizedAttachment(i) PROVE ObjectEffect
  <2>1. worker[i].file # 0
    BY <1>23, WorkerFields DEF putNormalizedAttachment
  <2> QED BY <1>23, <2>1 DEF putNormalizedAttachment, ObjectEffect, objects
<1>24. ASSUME NEW i \in Worker, Commit(i) PROVE ObjectEffect
  BY <1>24 DEF Commit, ObjectEffect, objects
<1>25. ASSUME NEW i \in Worker, ReportProgress(i) PROVE ObjectEffect
  BY <1>25 DEF ReportProgress, ObjectEffect, objects
<1>26. ASSUME NEW i \in Worker, StoringFails(i) PROVE ObjectEffect
  <2>1. worker[i].file # 0
    BY <1>26, WorkerFields DEF StoringFails
  <2> QED BY <1>26, <2>1 DEF StoringFails, ObjectEffect, objects
<1>27. ASSUME NEW i \in Worker, WorkerStops(i) PROVE ObjectEffect
  BY <1>27 DEF WorkerStops, ObjectEffect, objects
<1>28. CASE SweepLists
  BY <1>28 DEF SweepLists, ObjectEffect, objects
<1>29. CASE SweepFails
  BY <1>29 DEF SweepFails, ObjectEffect, objects
<1>30. CASE SweepCleans
  BY <1>30 DEF SweepCleans, ObjectEffect, objects
<1>31. CASE ClaimGoesStale
  BY <1>31 DEF ClaimGoesStale, ObjectEffect, objects
<1>32. CASE ApiRestarts
  BY <1>32 DEF ApiRestarts, ObjectEffect, objects
<1> QED BY <1>1, <1>2, <1>3, <1>4, <1>5, <1>6, <1>7, <1>8, <1>9, <1>10, <1>11, <1>12, <1>13, <1>14, <1>15, <1>16, <1>17, <1>18, <1>19, <1>20, <1>21, <1>22, <1>23, <1>24, <1>25, <1>26, <1>27, <1>28, <1>29, <1>30, <1>31, <1>32
     DEF Next, WorkerStep, SweepStep

LEMMA RequestSteps ==
  ASSUME TypeOK, NumbersOK, Next
  PROVE  RequestEffect
<1>1. CASE createMapAsset
  BY <1>1, DocFields DEF createMapAsset, RequestEffect, TypeOK, Settled, objects
<1>2. CASE replaceMapAssetFiles
  BY <1>2, DocFields DEF replaceMapAssetFiles, RequestEffect, TypeOK, Settled, objects
<1>3. CASE stageUploadFiles
  BY <1>3, DocFields DEF stageUploadFiles, RequestEffect, TypeOK, Settled, objects
<1>4. CASE StagingFails
  BY <1>4, DocFields DEF StagingFails, RequestEffect, TypeOK, Settled, objects
<1>5. CASE DropPrevious
  BY <1>5, DocFields DEF DropPrevious, RequestEffect, TypeOK, Settled, objects
<1>6. CASE deleteMapAsset
  BY <1>6, DocFields DEF deleteMapAsset, RequestEffect, TypeOK, Settled, objects
<1>7. ASSUME NEW i \in Upload, UploadTimesOut(i) PROVE RequestEffect
  BY <1>7, DocFields DEF UploadTimesOut, RequestEffect, TypeOK, Settled, objects
<1>8. ASSUME NEW i \in Upload, Try(i) PROVE RequestEffect
  BY <1>8, DocFields DEF Try, RequestEffect, TypeOK, Settled, objects
<1>9. ASSUME NEW i \in Upload, putOriginalFilesFromDisk(i) PROVE RequestEffect
  BY <1>9, DocFields DEF putOriginalFilesFromDisk, RequestEffect, TypeOK, Settled, objects
<1>10. ASSUME NEW i \in Upload, PutFails(i) PROVE RequestEffect
  BY <1>10, DocFields DEF PutFails, RequestEffect, TypeOK, Settled, objects
<1>11. ASSUME NEW i \in Upload, mergeStoredAttachments(i) PROVE RequestEffect
  BY <1>11, DocFields DEF mergeStoredAttachments, RequestEffect, TypeOK, Settled, objects
<1>12. ASSUME NEW i \in Upload, JobCleans(i) PROVE RequestEffect
  BY <1>12, DocFields DEF JobCleans, RequestEffect, TypeOK, Settled, objects
<1>13. ASSUME NEW i \in Upload, Deadline(i) PROVE RequestEffect
  BY <1>13, DocFields DEF Deadline, RequestEffect, TypeOK, Settled, objects
<1>14. ASSUME NEW i \in Upload, CheckWhy(i) PROVE RequestEffect
  BY <1>14, DocFields DEF CheckWhy, RequestEffect, TypeOK, Settled, objects
<1>15. ASSUME NEW i \in Upload, Retry(i) PROVE RequestEffect
  BY <1>15, DocFields DEF Retry, RequestEffect, TypeOK, Settled, objects
<1>16. ASSUME NEW i \in Upload, LoopFails(i) PROVE RequestEffect
  BY <1>16, DocFields DEF LoopFails, RequestEffect, TypeOK, Settled, objects
<1>17. ASSUME NEW i \in Upload, LoopCleans(i) PROVE RequestEffect
  BY <1>17, DocFields DEF LoopCleans, RequestEffect, TypeOK, Settled, objects
<1>18. ASSUME NEW i \in Worker, Find(i) PROVE RequestEffect
  BY <1>18, DocFields DEF Find, RequestEffect, TypeOK, Settled, objects
<1>19. ASSUME NEW i \in Worker, claimMapAssetProcessing(i) PROVE RequestEffect
  BY <1>19, DocFields DEF claimMapAssetProcessing, RequestEffect, TypeOK, Settled, objects
<1>20. ASSUME NEW i \in Worker, ReadClaim(i) PROVE RequestEffect
  BY <1>20, DocFields DEF ReadClaim, RequestEffect, TypeOK, Settled, objects
<1>21. ASSUME NEW i \in Worker, Convert(i) PROVE RequestEffect
  BY <1>21, DocFields DEF Convert, RequestEffect, TypeOK, Settled, objects
<1>22. ASSUME NEW i \in Worker, StillOwned(i) PROVE RequestEffect
  BY <1>22, DocFields DEF StillOwned, RequestEffect, TypeOK, Settled, objects
<1>23. ASSUME NEW i \in Worker, putNormalizedAttachment(i) PROVE RequestEffect
  BY <1>23, DocFields DEF putNormalizedAttachment, RequestEffect, TypeOK, Settled, objects
<1>24. ASSUME NEW i \in Worker, Commit(i) PROVE RequestEffect
  BY <1>24, DocFields DEF Commit, RequestEffect, TypeOK, Settled, objects
<1>25. ASSUME NEW i \in Worker, ReportProgress(i) PROVE RequestEffect
  BY <1>25, DocFields DEF ReportProgress, RequestEffect, TypeOK, Settled, objects
<1>26. ASSUME NEW i \in Worker, StoringFails(i) PROVE RequestEffect
  BY <1>26, DocFields DEF StoringFails, RequestEffect, TypeOK, Settled, objects
<1>27. ASSUME NEW i \in Worker, WorkerStops(i) PROVE RequestEffect
  BY <1>27, DocFields DEF WorkerStops, RequestEffect, TypeOK, Settled, objects
<1>28. CASE SweepLists
  BY <1>28, DocFields DEF SweepLists, RequestEffect, TypeOK, Settled, objects
<1>29. CASE SweepFails
  BY <1>29, DocFields DEF SweepFails, RequestEffect, TypeOK, Settled, objects
<1>30. CASE SweepCleans
  BY <1>30, DocFields DEF SweepCleans, RequestEffect, TypeOK, Settled, objects
<1>31. CASE ClaimGoesStale
  BY <1>31, DocFields DEF ClaimGoesStale, RequestEffect, TypeOK, Settled, objects
<1>32. CASE ApiRestarts
  BY <1>32, DocFields DEF ApiRestarts, RequestEffect, TypeOK, Settled, objects
<1> QED BY <1>1, <1>2, <1>3, <1>4, <1>5, <1>6, <1>7, <1>8, <1>9, <1>10, <1>11, <1>12, <1>13, <1>14, <1>15, <1>16, <1>17, <1>18, <1>19, <1>20, <1>21, <1>22, <1>23, <1>24, <1>25, <1>26, <1>27, <1>28, <1>29, <1>30, <1>31, <1>32
     DEF Next, WorkerStep, SweepStep

-----------------------------------------------------------------------------
(* The invariant is kept.                                                  *)
LEMMA NextTypes ==
  ASSUME TypeOK, NumbersOK, Next
  PROVE  TypeOK'
BY RequestKeepsTypes, LoopKeepsTypes, WorkerKeepsTypes, RestKeepsTypes DEF Next

LEMMA StoresFields ==
  ASSUME TypeOK, NEW u \in Upload, Stores(u)
  PROVE  /\ asset'.status = asset.status /\ asset'.upload = asset.upload
         /\ asset'.stored = u /\ asset'.claim = asset.claim
         /\ isMapAssetInProgress /\ asset.status \notin {"ready", "failed"}
         /\ job[u].at = "merge" /\ u # 0
BY DocFields, Bounds DEF Stores, isMapAssetInProgress

LEMMA ReadiesFields ==
  ASSUME TypeOK, NEW w \in Worker, Readies(w)
  PROVE  /\ asset'.status = "ready" /\ asset'.upload = asset.upload
         /\ asset'.stored = asset.stored /\ asset.status = "processing"
BY DocFields DEF Readies, ClaimIsMine

LEMMA CountsGrow ==
  ASSUME Inv, Next
  PROVE  uploads \in Nat /\ uploads <= uploads' /\ claims \in Nat /\ claims <= claims'
<1>1. AssetEffect /\ uploads \in Nat /\ claims \in Nat
  BY AssetSteps, Bounds DEF Inv, TypeOK
<1>2. asset = NoAsset => uploads = 0
  BY DocFields DEF Inv, NumbersOK
<1>3. SameNumbers \/ Starts \/ Claims
  BY <1>1 DEF AssetEffect, AsWas, Deletes, PutsBack, GivesUp, UsesUp, Fails, Stores, Readies
<1> QED BY <1>1, <1>2, <1>3 DEF SameNumbers, Starts, Claims

LEMMA NextNumbers ==
  ASSUME Inv, Next
  PROVE  NumbersOK'
<1>1. /\ AssetEffect /\ TypeOK /\ TypeOK' /\ NumbersOK /\ RequestOK
      /\ \A u \in Upload : LoopEffect(u) /\ JobEffect(u)
      /\ \A w \in Worker : WorkerEffect(w)
  BY AssetSteps, LoopSteps, JobSteps, WorkerSteps, NextTypes DEF Inv
<1>2. /\ asset'.status \notin Gone => asset'.upload \in 1..uploads'
      /\ asset'.status = "absent" => uploads' = 0
      /\ asset'.claim <= claims'
      /\ uploads <= uploads' /\ claims <= claims'
  <2> USE <1>1, DocFields DEF NumbersOK, TypeOK, Gone, SameNumbers
  <2>1. CASE AsWas
    BY <2>1 DEF AsWas
  <2>2. CASE Starts
    BY <2>2 DEF Starts, Settled
  <2>3. CASE Deletes
    BY <2>3 DEF Deletes
  <2>4. CASE PutsBack
    BY <2>4 DEF PutsBack, RequestOK, Settled
  <2>5. CASE GivesUp \/ UsesUp \/ Fails
    BY <2>5 DEF GivesUp, UsesUp, Fails, isMapAssetInProgress, mapAssetIsClaimable
  <2>6. CASE Claims
    BY <2>6 DEF Claims, mapAssetIsClaimable
  <2>7. CASE \E u \in Upload : Stores(u)
    BY <2>7 DEF Stores
  <2>8. CASE \E w \in Worker : Readies(w)
    BY <2>8 DEF Readies, ClaimIsMine
  <2> QED BY <2>1, <2>2, <2>3, <2>4, <2>5, <2>6, <2>7, <2>8 DEF AssetEffect
<1>3. ASSUME NEW u \in Upload, u > uploads'
      PROVE  loop'[u] = Idle /\ job'[u] = Idle
  <2>0. u > uploads
    BY <1>1, <1>3, CountsGrow, Bounds DEF Upload, TypeOK
  <2>1. u > uploads /\ loop[u] = Idle /\ job[u] = Idle /\ Idle.at = "idle"
    BY <1>1, <2>0, DocFields DEF NumbersOK
  <2>2. u # uploads
    BY <2>1, CountsGrow, Bounds DEF Upload
  <2> QED BY <1>1, <2>1, <2>2 DEF LoopEffect, JobEffect
<1>4. ASSUME NEW w \in Worker, worker'[w].at \in {"convert", "fail", "own", "put", "commit"}
      PROVE  worker'[w].claim \in 1..claims'
  <2>1. asset.claim \in Nat /\ asset.claim <= claims /\ claims \in Nat /\ claims' \in Nat
    BY <1>1 DEF TypeOK, Doc, NumbersOK
  <2>2. worker'[w].claim \in 1..claims
    BY <1>1, <1>4, <2>1 DEF WorkerEffect, NumbersOK
  <2> QED BY <1>2, <2>1, <2>2
<1> QED BY <1>2, <1>3, <1>4 DEF NumbersOK

LEMMA NextRequest ==
  ASSUME Inv, Next
  PROVE  RequestOK'
<1>1. /\ AssetEffect /\ RequestEffect /\ TypeOK /\ TypeOK' /\ NumbersOK /\ RequestOK
      /\ \A u \in Upload : LoopEffect(u) /\ JobEffect(u)
  BY AssetSteps, LoopSteps, JobSteps, RequestSteps, NextTypes DEF Inv
<1> SUFFICES ASSUME request' # Idle
             PROVE  RequestOK'
  BY DEF RequestOK
<1>2. CASE request' = request /\ request # Idle
  <2>0. /\ uploads > 0 /\ loop[uploads] = Idle /\ job[uploads] = Idle
        /\ request' # Idle
    BY <1>1, <1>2 DEF RequestOK
  <2>01. uploads' = uploads
    <3>1. CASE AsWas \/ Deletes \/ PutsBack \/ GivesUp \/ UsesUp \/ Fails \/ Claims
      BY <3>1 DEF AsWas, Deletes, PutsBack, GivesUp, UsesUp, Fails, Claims, SameNumbers
    <3>2. CASE (\E u \in Upload : Stores(u)) \/ (\E w \in Worker : Readies(w))
      BY <3>2 DEF Stores, Readies, SameNumbers
    <3>3. CASE Starts
      BY <1>2, <3>3 DEF Starts
    <3> QED BY <1>1, <3>1, <3>2, <3>3 DEF AssetEffect
  <2>1. /\ uploads' = uploads /\ uploads \in Upload
        /\ loop[uploads] = Idle /\ job[uploads] = Idle /\ Idle.at = "idle"
    BY <1>1, <2>0, <2>01, DocFields, Bounds DEF TypeOK
  <2>2. loop'[uploads] = Idle /\ job'[uploads] = Idle
    BY <1>1, <1>2, <2>1 DEF LoopEffect, JobEffect
  <2>3. asset'.status \notin Gone =>
          asset'.upload = uploads /\ asset'.stored # uploads
    <3> USE <1>1, <1>2, <2>1, DocFields DEF RequestOK, TypeOK, Gone, SameNumbers
    <3>1. CASE AsWas
      BY <3>1 DEF AsWas
    <3>2. CASE Starts
      BY <3>2 DEF Starts
    <3>3. CASE Deletes
      BY <3>3 DEF Deletes
    <3>4. CASE PutsBack
      BY <3>4 DEF PutsBack
    <3>5. CASE GivesUp \/ UsesUp \/ Fails
      BY <3>5 DEF GivesUp, UsesUp, Fails, isMapAssetInProgress, mapAssetIsClaimable
    <3>6. CASE Claims
      BY <3>6 DEF Claims, mapAssetIsClaimable
    <3>7. CASE \E u \in Upload : Stores(u)
      BY <3>7 DEF Stores, isMapAssetInProgress
    <3>8. CASE \E w \in Worker : Readies(w)
      BY <3>8 DEF Readies, ClaimIsMine
    <3> QED BY <3>1, <3>2, <3>3, <3>4, <3>5, <3>6, <3>7, <3>8 DEF AssetEffect
  <2>4. claims <= claims'
    BY CountsGrow
  <2> QED BY <1>1, <1>2, <2>1, <2>2, <2>3, <2>4 DEF RequestOK, TypeOK, Doc
<1>3. CASE /\ asset = NoAsset \/ asset.status \in Settled
           /\ request' = [at |-> "stage", previous |-> asset]
           /\ asset' = Fresh(uploads') /\ UNCHANGED <<loop, job, objects>>
           /\ uploads' = IF asset = NoAsset THEN 1 ELSE uploads + 1
  <2>0. uploads' = uploads + 1 /\ uploads \in Nat
    BY <1>1, <1>3, DocFields, CountsGrow DEF NumbersOK
  <2>1. uploads' \in Upload /\ uploads' > uploads
    BY <1>1, <2>0, Bounds DEF TypeOK
  <2>2. loop'[uploads'] = Idle /\ job'[uploads'] = Idle
    BY <1>1, <1>3, <2>1 DEF NumbersOK
  <2>3. asset'.upload = uploads' /\ asset'.stored # uploads'
    BY <1>1, <1>3, <2>1, DocFields, Bounds
  <2>4. asset # NoAsset => asset.upload \in 1..(uploads' - 1)
    BY <1>1, <1>3 DEF NumbersOK, Settled, Gone, TypeOK
  <2>5. asset.claim <= claims'
    <3>1. claims <= claims'
      BY CountsGrow
    <3> QED BY <1>1, <3>1 DEF NumbersOK, TypeOK, Doc
  <2> QED BY <1>3, <2>1, <2>2, <2>3, <2>4, <2>5, Bounds DEF RequestOK, Upload
<1>4. CASE /\ request.at = "stage" /\ request' = [request EXCEPT !.at = "drop"]
           /\ UNCHANGED <<asset, uploads, loop, job, objects>>
  <2>1. request # Idle /\ request'.previous = request.previous
    BY <1>1, <1>4, DocFields DEF TypeOK
  <2>2. claims <= claims'
    BY CountsGrow
  <2> QED BY <1>1, <1>4, <2>1, <2>2 DEF RequestOK, TypeOK, Doc
<1> QED BY <1>1, <1>2, <1>3, <1>4 DEF RequestEffect

LEMMA NextObjects ==
  ASSUME Inv, Next
  PROVE  ObjectsOK'
<1>1. /\ AssetEffect /\ RequestEffect /\ ObjectEffect /\ TypeOK /\ TypeOK' /\ NumbersOK' 
      /\ RequestOK /\ \A u \in Upload : JobEffect(u)
  BY AssetSteps, RequestSteps, ObjectSteps, JobSteps, NextTypes, NextNumbers DEF Inv
<1>2. ASSUME request'.at = "stage", asset'.status \notin Gone,
             request'.previous.status = "ready",
             request'.previous.stored = request'.previous.upload
      PROVE  original' # 0 /\ normalized' # 0
  <2>1. CASE request' = request /\ request # Idle
    <3>1. asset.status \notin Gone
      <4>1. CASE AsWas
        BY <1>2, <4>1 DEF AsWas
      <4>2. ~Starts
        BY <2>1 DEF Starts
      <4>3. ~Deletes
        BY <1>1, <1>2, DocFields DEF Deletes, Gone
      <4>4. CASE \/ PutsBack \/ GivesUp \/ UsesUp \/ Claims \/ Fails
        BY <4>4 DEF PutsBack, GivesUp, UsesUp, Claims, Fails, isMapAssetInProgress,
           mapAssetIsClaimable, Gone
      <4>5. CASE (\E u \in Upload : Stores(u)) \/ (\E w \in Worker : Readies(w))
        BY <1>1, <4>5, StoresFields, ReadiesFields DEF isMapAssetInProgress, Gone
      <4> QED BY <1>1, <4>1, <4>2, <4>3, <4>4, <4>5 DEF AssetEffect
    <3>2. original # 0 /\ normalized # 0
      BY <1>2, <2>1, <3>1 DEF Inv, ObjectsOK
    <3> QED BY <1>1, <1>2, <2>1, <3>2, DocFields DEF ObjectEffect, Gone
  <2>2. CASE /\ asset = NoAsset \/ asset.status \in Settled
             /\ request' = [at |-> "stage", previous |-> asset]
             /\ asset' = Fresh(uploads') /\ UNCHANGED <<loop, job, objects>>
    BY <1>2, <2>2, DocFields DEF Inv, ReadyHasItsObjects, objects
  <2>3. CASE request' = Idle
    BY <1>1, <1>2, <2>3, DocFields
  <2>4. CASE request.at = "stage" /\ request' = [request EXCEPT !.at = "drop"]
    BY <1>1, <1>2, <2>4, DocFields DEF TypeOK
  <2> QED BY <1>1, <2>1, <2>2, <2>3, <2>4 DEF RequestEffect
<1>3. ASSUME isMapAssetInProgress', original' = 0,
             asset'.stored = asset'.upload \/ job'[asset'.upload].at = "merge"
      PROVE  FALSE
  <2>1. asset'.upload \in Upload
    BY <1>1, <1>3, Bounds DEF NumbersOK, isMapAssetInProgress, Gone, Upload, TypeOK
  <2>2. JobEffect(asset'.upload)
    BY <1>1, <2>1
  <2>3. CASE original' = original
    <3>1. ~(isMapAssetInProgress /\ (asset.stored = asset.upload \/ job[asset.upload].at = "merge"))
      BY <1>3, <2>3 DEF Inv, ObjectsOK
    <3>2. job'[asset'.upload].at = "merge" => job[asset'.upload].at = "merge"
      BY <1>1, <1>3, <2>2, DocFields DEF JobEffect
    <3>3. CASE AsWas
      BY <1>3, <3>1, <3>2, <3>3 DEF AsWas, isMapAssetInProgress
    <3>4. CASE Starts
      <4>1. asset'.upload = uploads' /\ asset'.stored = 0 /\ uploads' > uploads
        BY <3>4, <1>1, CountsGrow, DocFields DEF Starts, Inv, NumbersOK
      <4>2. job'[uploads'] = Idle
        BY <2>1, <3>4, <4>1 DEF Starts, Inv, NumbersOK
      <4> QED BY <1>1, <1>3, <2>1, <4>1, <4>2, DocFields, Bounds
    <3>5. CASE Deletes \/ GivesUp \/ UsesUp \/ Fails
      BY <1>3, <3>5, <1>1, DocFields DEF Deletes, GivesUp, UsesUp, Fails, isMapAssetInProgress
    <3>6. CASE PutsBack
      BY <1>3, <3>6, <1>1, DocFields DEF PutsBack, RequestOK, isMapAssetInProgress, Settled
    <3>7. CASE Claims
      BY <1>1, <1>3, <3>1, <3>7, DocFields DEF Claims, mapAssetIsClaimable, isMapAssetInProgress
    <3>8. CASE \E u \in Upload : Stores(u)
      BY <1>1, <1>3, <3>1, <3>2, <3>8, DocFields DEF Stores
    <3>9. CASE \E w \in Worker : Readies(w)
      BY <1>1, <1>3, <3>9, DocFields DEF Readies, isMapAssetInProgress
    <3> QED BY <1>1, <3>3, <3>4, <3>5, <3>6, <3>7, <3>8, <3>9 DEF AssetEffect
  <2>4. CASE asset' = Removed
    BY <1>1, <1>3, <2>4, DocFields DEF isMapAssetInProgress
  <2>5. CASE request.at = "drop" /\ UNCHANGED <<asset, job, uploads>>
    <3>1. request # Idle /\ asset.status \notin Gone
      BY <1>1, <1>3, <2>5, DocFields DEF isMapAssetInProgress, Gone
    <3> QED BY <1>1, <1>3, <2>5, <3>1, DocFields DEF RequestOK
  <2> QED BY <1>1, <1>3, <2>3, <2>4, <2>5 DEF ObjectEffect
<1> QED BY <1>2, <1>3 DEF ObjectsOK

LEMMA NextHolder ==
  ASSUME Inv, Next, NEW w \in Worker, ClaimIsMine(w)',
         \/ worker'[w].at \in {"own", "put", "commit"}
         \/ worker'[w].at = "convert" /\ worker'[w].stored # 0
  PROVE  /\ asset'.stored # 0
         /\ worker'[w].at = "commit" /\ normalized' = 0 =>
              asset'.stored # asset'.upload /\ job'[asset'.upload].at \notin {"put", "merge"}
<1>1. /\ AssetEffect /\ ObjectEffect /\ TypeOK /\ WorkerEffect(w) /\ RequestOK
      /\ NumbersOK /\ HolderOK /\ \A u \in Upload : JobEffect(u)
  BY AssetSteps, ObjectSteps, JobSteps, WorkerSteps DEF Inv
<1>2. asset'.status = "processing" /\ asset'.claim = worker'[w].claim
  BY DEF ClaimIsMine
<1>3. CASE /\ worker'[w].at = "convert" /\ worker'[w].stored = asset.stored /\ UNCHANGED asset
  BY <1>3
<1>4. CASE /\ worker'[w].claim = worker[w].claim
           /\ \/ worker[w].at \in {"own", "put", "commit"}
              \/ worker[w].at = "convert" /\ worker[w].stored # 0
           /\ worker'[w].at = "commit" /\ normalized' = 0 => worker'[w] = worker[w]
  <2>1. worker[w].claim \in 1..claims /\ claims \in Nat
    BY <1>1, <1>4 DEF NumbersOK, TypeOK
  <2>2. AsWas \/ \E u \in Upload : Stores(u)
    <3>1. ~Starts /\ ~Deletes /\ ~GivesUp /\ ~UsesUp /\ ~Fails
      BY <1>1, <1>2, DocFields DEF Starts, Deletes, GivesUp, UsesUp, Fails
    <3>2. ~PutsBack
      BY <1>1, <1>2, DocFields DEF PutsBack, RequestOK, Settled
    <3>3. ~Claims
      BY <1>1, <1>2, <1>4, <2>1, DocFields DEF Claims
    <3>4. ~(\E x \in Worker : Readies(x))
      BY <1>1, <1>2, ReadiesFields
    <3> QED BY <1>1, <3>1, <3>2, <3>3, <3>4 DEF AssetEffect
  <2>3. ClaimIsMine(w) /\ asset'.upload = asset.upload
    <3>1. CASE AsWas
      BY <1>2, <1>4, <3>1 DEF AsWas, ClaimIsMine
    <3>2. CASE \E u \in Upload : Stores(u)
      BY <1>1, <1>2, <1>4, <3>2, StoresFields DEF ClaimIsMine
    <3> QED BY <2>2, <3>1, <3>2
  <2>4. asset.stored # 0
    BY <1>1, <1>4, <2>3 DEF HolderOK
  <2>5. asset'.stored # 0
    <3>1. CASE AsWas
      BY <2>4, <3>1 DEF AsWas
    <3>2. CASE \E u \in Upload : Stores(u)
      BY <1>1, <3>2, StoresFields
    <3> QED BY <2>2, <3>1, <3>2
  <2>6. ASSUME worker'[w].at = "commit", normalized' = 0
        PROVE  asset'.stored # asset'.upload /\ job'[asset'.upload].at \notin {"put", "merge"}
    <3>1. worker[w].at = "commit"
      BY <1>4, <2>6
    <3>2. asset.upload \in Upload /\ asset.status \notin Gone
      BY <1>1, <2>3, Bounds DEF NumbersOK, ClaimIsMine, Gone, Upload, TypeOK
    <3>3. JobEffect(asset.upload)
      BY <1>1, <3>2
    <3>4. CASE normalized' = normalized
      <4>1. asset.stored # asset.upload /\ job[asset.upload].at \notin {"put", "merge"}
        BY <1>1, <2>3, <2>6, <3>1, <3>4 DEF HolderOK
      <4>2. job'[asset.upload].at \notin {"put", "merge"}
        BY <2>4, <3>3, <4>1, DocFields, <1>1 DEF JobEffect
      <4>3. asset'.stored # asset.upload
        <5>1. CASE AsWas
          BY <4>1, <5>1 DEF AsWas
        <5>2. ASSUME NEW u \in Upload, Stores(u) PROVE asset'.stored # asset.upload
          BY <1>1, <4>1, <5>2, StoresFields
        <5> QED BY <2>2, <5>1, <5>2
      <4> QED BY <2>3, <4>2, <4>3
    <3>5. CASE asset' = Removed
      BY <1>1, <1>2, <3>5, DocFields
    <3>6. CASE request.at = "drop" /\ UNCHANGED <<asset, job, uploads>>
      <4>1. request # Idle
        BY <1>1, <3>6, DocFields
      <4> QED BY <1>1, <3>2, <3>6, <4>1, DocFields DEF RequestOK
    <3> QED BY <1>1, <2>6, <3>4, <3>5, <3>6 DEF ObjectEffect
  <2> QED BY <2>5, <2>6
<1> QED BY <1>1, <1>3, <1>4 DEF WorkerEffect

LEMMA NextReady ==
  ASSUME Inv, Next, asset'.status = "ready", asset'.stored = asset'.upload
  PROVE  original' # 0 /\ normalized' # 0
<1>1. /\ AssetEffect /\ ObjectEffect /\ TypeOK /\ RequestOK
      /\ HolderOK /\ ObjectsOK /\ ReadyHasItsObjects
  BY AssetSteps, ObjectSteps DEF Inv
<1>2. CASE AsWas
  <2>1. asset.status = "ready" /\ asset.stored = asset.upload
    BY <1>2 DEF AsWas
  <2>2. ~(request.at = "drop")
    <3>1. request.at = "drop" => request # Idle
      BY <1>1, DocFields
    <3> QED BY <1>1, <2>1, <3>1 DEF RequestOK, Gone
  <2>3. asset' # Removed
    BY <1>1, DocFields
  <2> QED BY <1>1, <2>1, <2>2, <2>3 DEF ObjectEffect, ReadyHasItsObjects
<1>3. CASE PutsBack
  BY <1>1, <1>3 DEF PutsBack, ObjectsOK, objects
<1>4. ASSUME NEW w \in Worker, Readies(w) PROVE original' # 0 /\ normalized' # 0
  <2>1. /\ worker[w].at = "commit" /\ ClaimIsMine(w) /\ asset.stored = asset.upload
        /\ UNCHANGED objects
    BY <1>1, <1>4, DocFields DEF Readies
  <2>2. isMapAssetInProgress
    BY <2>1 DEF ClaimIsMine, isMapAssetInProgress
  <2> QED BY <1>1, <2>1, <2>2 DEF ObjectsOK, HolderOK, objects
<1>5. ~Starts /\ ~Deletes /\ ~GivesUp /\ ~UsesUp /\ ~Fails /\ ~Claims
  BY <1>1, DocFields DEF Starts, Deletes, GivesUp, UsesUp, Fails, Claims
<1>6. ~(\E u \in Upload : Stores(u))
  BY <1>1, StoresFields
<1> QED BY <1>1, <1>2, <1>3, <1>4, <1>5, <1>6 DEF AssetEffect

LEMMA InitInv ==
  ASSUME Init
  PROVE  Inv
<1>1. Idle.at = "idle" /\ Idle \in LoopState /\ Idle \in JobState /\ Idle \in WorkerState
  BY IdleIsAState DEF Idle
<1>2. NoAsset \in Doc /\ NoAsset.status = "absent" /\ NoAsset.claim = 0
  <2>1. Fresh(0) \in Doc /\ Fresh(0).claim = 0
    BY Bounds DEF Fresh, Doc
  <2> QED BY <2>1 DEF NoAsset, Doc, Gone
<1>3. TypeOK
  BY <1>1, <1>2, Bounds DEF Init, TypeOK
<1>4. NumbersOK /\ RequestOK
  BY <1>1, <1>2 DEF Init, NumbersOK, RequestOK, Gone
<1>5. ObjectsOK /\ HolderOK /\ ReadyHasItsObjects
  BY <1>1, <1>2 DEF Init, ObjectsOK, HolderOK, ReadyHasItsObjects, isMapAssetInProgress, ClaimIsMine
<1> QED BY <1>3, <1>4, <1>5 DEF Inv

LEMMA NextInv ==
  ASSUME Inv, [Next]_vars
  PROVE  Inv'
<1>1. CASE Next
  <2>1. TypeOK' /\ NumbersOK' /\ RequestOK' /\ ObjectsOK'
    BY <1>1, NextTypes, NextNumbers, NextRequest, NextObjects DEF Inv
  <2>2. HolderOK'
    BY <1>1, NextHolder DEF HolderOK
  <2>3. ReadyHasItsObjects'
    BY <1>1, NextReady DEF ReadyHasItsObjects
  <2> QED BY <2>1, <2>2, <2>3 DEF Inv
<1>2. CASE UNCHANGED vars
  BY <1>2 DEF vars, objects, Inv, TypeOK, NumbersOK, RequestOK, ObjectsOK, HolderOK,
     ReadyHasItsObjects, isMapAssetInProgress, ClaimIsMine
<1> QED BY <1>1, <1>2

LEMMA Invariant == Spec => []Inv
BY InitInv, NextInv, PTL DEF Spec

-----------------------------------------------------------------------------
(* Every variable keeps its type; no asset is claimed more often than      *)
(* MAP_ASSET_PROCESSING_MAX_ATTEMPTS allows.                               *)
THEOREM TypeCorrect == Spec => []TypeOK
<1>1. Inv => TypeOK
  BY DEF Inv
<1> QED BY <1>1, Invariant, PTL

(* A ready layer has the objects it lists, with any number of workers and  *)
(* uploads, through failures, restarts, replacements and restores.         *)
THEOREM ReadyIsComplete == Spec => []ReadyHasItsObjects
<1>1. Inv => ReadyHasItsObjects
  BY DEF Inv
<1> QED BY <1>1, Invariant, PTL

(* The document of a settled upload changes no more, whoever works on.     *)
THEOREM SettledStays == Spec => SettledOnce
<1>1. ASSUME Inv, Next, asset.status \in Settled, asset'.upload = asset.upload
      PROVE  asset' = asset \/ asset'.status = "deleted"
  <2>1. /\ AssetEffect /\ TypeOK /\ RequestOK
        /\ asset.upload \in 1..uploads /\ uploads \in Nat
    BY <1>1, AssetSteps, CountsGrow DEF Inv, NumbersOK, Settled, Gone
  <2>2. CASE AsWas
    BY <1>1, <2>2 DEF AsWas
  <2>3. CASE Starts
    <3>1. uploads' = uploads + 1 /\ asset'.upload = uploads'
      BY <1>1, <2>1, <2>3, DocFields DEF Starts, Settled
    <3> QED BY <1>1, <2>1, <3>1
  <2>4. CASE Deletes
    BY <2>1, <2>4, DocFields DEF Deletes
  <2>5. CASE PutsBack
    <3>1. request # Idle
      BY <2>1, <2>5, DocFields DEF PutsBack
    <3>2. asset.upload = uploads /\ asset'.upload \in 1..(uploads - 1)
      BY <1>1, <2>1, <2>5, <3>1 DEF PutsBack, RequestOK
    <3> QED BY <1>1, <2>1, <3>2
  <2>6. ~GivesUp /\ ~UsesUp /\ ~Fails /\ ~Claims
    BY <1>1 DEF GivesUp, UsesUp, Fails, Claims, isMapAssetInProgress, mapAssetIsClaimable, Settled
  <2>7. ~(\E u \in Upload : Stores(u)) /\ ~(\E w \in Worker : Readies(w))
    BY <1>1 DEF Stores, Readies, isMapAssetInProgress, ClaimIsMine, Settled
  <2> QED BY <2>1, <2>2, <2>3, <2>4, <2>5, <2>6, <2>7 DEF AssetEffect
<1>2. Inv /\ [Next]_vars =>
        [asset.status \in Settled /\ asset'.upload = asset.upload
           => asset' = asset \/ asset'.status = "deleted"]_vars
  BY <1>1
<1> QED BY <1>2, Invariant, PTL DEF Spec, SettledOnce

(* An upload that arrived fails, while it waits for a worker, only after   *)
(* its last claim.                                                         *)
THEOREM ArrivedStays == Spec => ArrivedIsKept
<1>1. ASSUME Inv, Next, asset.status = "pending", asset.stored # 0,
             asset'.status = "failed", asset'.upload = asset.upload
      PROVE  asset.attempts = MaxClaims
  <2>1. /\ AssetEffect /\ TypeOK /\ RequestOK
        /\ asset.upload \in 1..uploads /\ uploads \in Nat
    BY <1>1, AssetSteps, CountsGrow DEF Inv, NumbersOK, Gone
  <2>2. CASE UsesUp
    <3>1. asset.attempts \in 0..MaxClaims /\ asset.attempts >= MaxClaims
      BY <2>1, <2>2 DEF UsesUp, Exhausted, TypeOK, Doc
    <3> QED BY <3>1, Bounds
  <2>3. ~PutsBack
    <3>1. PutsBack => request # Idle
      BY <2>1, DocFields DEF PutsBack
    <3> QED BY <1>1, <2>1, <3>1 DEF PutsBack, RequestOK, Gone
  <2>4. ~AsWas /\ ~Starts /\ ~Deletes /\ ~GivesUp /\ ~Fails /\ ~Claims
    BY <1>1, <2>1, DocFields DEF AsWas, Starts, Deletes, GivesUp, Fails, Claims
  <2>5. ~(\E u \in Upload : Stores(u)) /\ ~(\E w \in Worker : Readies(w))
    BY <1>1, <2>1, StoresFields, ReadiesFields
  <2> QED BY <2>1, <2>2, <2>3, <2>4, <2>5 DEF AssetEffect
<1>2. Inv /\ [Next]_vars =>
        [asset.status = "pending" /\ asset.stored # 0
           /\ asset'.status = "failed" /\ asset'.upload = asset.upload
           => asset.attempts = MaxClaims]_vars
  BY <1>1
<1> QED BY <1>2, Invariant, PTL DEF Spec, ArrivedIsKept
===============================================================================
