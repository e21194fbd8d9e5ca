# FAIMS3 in TLA+

A verification project for FAIMS3, a system for collecting field data: an offline-first app whose
PouchDB databases synchronise with CouchDB, a management front end (Control Centre), an API
(Conductor), a spatial worker and a shared library. It contains specifications of the parts that
carry the system's own logic, model checking of small instances with TLC, and proofs checked with
TLAPS. Paths below are relative to `src/`.

## 1. Inventory

For every component: its state, its operations, who it interacts with, what is hard in it and what
makes it correct. Components 1 to 5, the worker loop of 6 and the layer cache of 12 are modelled;
the others are planned or left out (sections 2, 8).

1. **Data engine** (`library/data-model/src/databaseEngine/engine.ts`). *State*: per record one
   record document (`heads`, `revisions`), revision documents (`parents`, `avps`: field -> AVP id,
   `deleted`) and attribute-value-pair (AVP) documents, which revisions share. *Operations*:
   createRecord, createRevision (fork), deleteRecord (a tombstone revision), updateRevision (save),
   stampUpdatedAtIfNewer, reads. *Interacts with* the edit form, viewRecord, RelatedRecord and the
   records API (`api/src/api/records.ts`), all on the same CouchDB/PouchDB. *Hard*: several
   documents per call without a transaction; 409s answered by writing again with a newer `_rev`;
   overwriting shared documents in place; clients that stop anywhere. *Correct when* heads are the
   leaves, a deletion is final, history does not change, no reader meets a dangling id, a save
   stores what the form showed.
2. **Edit form saving** (`library/forms/lib/formModule/formManagers/EditableFormManager.tsx`).
   *State*: the form's values and the refs `pendingValues`, `isSaving`, `edited`,
   `contentSavedThisSession`, the debounce, the in-flight fork. *Operations*: onChange, debounced
   save, flushSave, handleAddAttachment. *Interacts with* the engine and with `editRecord.tsx`,
   which blocks leaving while something is pending. *Hard*: edits, failures and flushes around
   asynchronous saves. *Correct when* nothing typed is lost, the status is honest, a flush ends.
3. **Startup migration lock** (`api/src/couchdb/startupMigrationLock.ts`). *State*: one CouchDB
   document; per replica an error streak. *Operations*: claim, wait, steal, settle. *Interacts with*
   `startupMigrations.ts`, which runs the migrations under it and fails open. *Hard*: replicas
   booting together, dead or slow doers, skewed clocks, lost answers. *Correct when* one replica
   runs an attempt, only an expired attempt is stolen, only its runner settles it, and nobody waits
   for ever.
4. **Record merging and CouchDB conflicts** (`library/data-model/src/data_storage/internals.ts`,
   `merging.ts`). *State*: conflicting versions of the record document. *Operations*: updateHeads,
   mergeRecordConflicts, mergeHeads (fast-forward and three-way merges of AVPs). *Hard*: replicas; a
   get shows one of several versions; a put repeated after a 409 may land on another one. *Correct
   when* history stays reachable from the heads, no edit is lost to a conflict, replicas converge.
   mergeHeads is called from a developer route of the API (`api/src/api/devtools.ts:581`) and tests
   only.
5. **Map assets pipeline** (`api/src/couchdb/mapAssets/store.ts`). *State*: per asset a status,
   claim, attempt count, heartbeat and stage; objects in a store; staged files. *Operations*:
   create, replace, delete, store originals (in the background, retried, with a deadline), claim,
   report, commit, fail stale uploads. *Hard*: claims and uploads that time out but go on, uploads
   that share object keys, processes that die. *Correct when* a settled layer stays settled, a ready
   one has its objects, what arrived is not given up, every upload settles.
6. **Spatial worker and capacity** (`api/src/spatial/`, `api/src/services/capacityProvider.ts`).
   *State*: idle clock, desired workers. *Operations*: the worker loop, reconciliation. *Correct
   when* a runnable job is eventually run and idle workers stop.
7. **Authentication, tokens, invites** (`api/src/couchdb/refreshTokens.ts`, `invites.ts`,
   `emailReset.ts`, `verificationChallenges.ts`, `downloadGrants.ts`, `longLivedTokens.ts`,
   `ttlCleanup.ts`). *State*: documents with expiry and use counts. *Hard*: concurrent redemption;
   the user is saved apart from the invite. *Correct when* each is used no more than allowed and
   nothing expired is accepted.
8. **Permissions** (`library/data-model/src/permission/`): pure functions over roles and resources.
9. **Conditionals and expressions** (`library/data-model/src/uiSpecification/`): pure evaluation.
10. **Database and notebook migrations** (`library/data-model/src/data_storage/migrations/`).
    *State*: the version of each database. *Hard*: interrupted and repeated runs.
11. **Field app state** (`app/src/context/slices/`): projects with replication handles, sync state,
    logins. *Hard*: activation and deactivation around asynchronous work.
12. **Contextual layer cache** (`app/src/gui/components/maps/contextualLayerStore.ts`) and **offline
    map tiles** (`library/forms/lib/components/maps/`): downloads, cancellation, clean-up of
    unreferenced files, a bounded load queue. *Correct when* a file the index names is whole and is
    not deleted, no slot is lost, every call returns.
13. **Attachments** (`.../services/attachments/couch.ts`,
    `api/src/services/attachmentStorageService.ts`).
14. **Related records and plans** (`RelatedRecord`, `notebookView.tsx`, `plans/`): writes to two
    records without a transaction.
15. **Listing, search, history** (queries); **Control Centre and designer** (`web/`); **exports and
    backup**; **deployment and build**: read-only, user interface, or input and output.

`PROJECT.json` lists the same components with their sources, and every hazard at its line with the
properties that would catch it.

## 2. Plan

Built, in this order: `RevisionStore` (what the engine promises), `DataEngine` (how it keeps it),
`FormSave`, `StartupMigrationLock`, `MapAssets`, `ContextualLayers`, `RecordSync`; then proofs of
every safety property that the passing runs check, and of the refinement between the first two.

Left, most important first:

| module | what | abstract specification / properties | runs, bounds | theorems |
|---|---|---|---|---|
| `Invites` | use count, expiry, concurrent redemption, the user saved apart | uses never exceed the limit | 2 users, 1 invite | the use count |
| `RelatedRecords` | a child created and its parent's link saved, two records of `DataEngine` | a link names a record that exists | 2 records, 1 crash | |
| `DbMigrations` | version bookkeeping, interrupted runs | each step applied in order | 3 versions, 1 crash | versions never go back |
| `MapTiles` | load queue, reference counts of tiles | a tile in use is not removed | 2 maps, 3 tiles | counts are right |
| `Permissions`, `Conditionals` | pure operators | against a reference definition | all small inputs | lemmas on role inheritance |

Further proofs: for `MapAssets`, that a layer's objects go away only with the layer; for
`RecordSync`, that the heads a database shows are pairwise unrelated as long as no put is repeated;
for `DataEngine`, which promises of `RevisionStore` remain when calls overlap but nobody clashes.

## 3. Modules

| module | models | state | actions |
|---|---|---|---|
| `RevisionStore` | the engine's calls on one record, each atomic | record, revisions, AVPs; open forms | CreateRecord, OpenRecord, FirstEdit, Save, DeleteRecord, ApiCreateRevision, ApiUpdateRevision, CloseRecord |
| `DataEngine` | the same calls split at their awaits, several clients | the documents with their `_rev`; per client the call it is in | one action per read, put, retry and bulk write; Crash |
| `RecordSync` | one record document on several databases, with its version tree | versions (`ver`), which database holds which (`has`), the calls under way | Fork, Stamp, StartMerge, FastForward, MergePair, PutOk, PutAgain, Abandon, Push, Pull |
| `FormSave` | EditableFormManager | the refs by their names; version of the form and of the database; steps of saves, attachments and flush | Edit, Autosave, Write, SaveOk/Fails, Forked/ForkFails, the attachment's and the flush's steps |
| `StartupMigrationLock` | the lock | the document; per instance its step, clock reading and lock reading | one action per await of tryClaim, waitForDoer, settleLock; Tick, Crash |
| `MapAssets` | one map layer, the API, the sweep, the workers | the document, the objects, staged files; per upload its retry loop and last attempt; per worker its job | one action per conditional write and per call to the object store; deadlines, WorkerStops, ApiRestarts |
| `ContextualLayers` | the layer cache of the field app | index, files, slots and their waiters, the mutex, per asset the chain of its calls; per call its step | Call, Enter, Cancel, the steps of a transfer, Commit, Clean, Delete, Sweep, ResetStore, Restart |
| `MC*` | instances and symmetry for TLC | | |
| `RevisionStoreProofs`, `DataEngineProofs`, `RecordSyncProofs`, `FormSaveProofs`, `StartupMigrationLockProofs`, `MapAssetsProofs`, `ContextualLayersProofs` | theorems about the module of that name | | |
| `DataEngineRefinement` | the theorem that `DataEngine` implements `RevisionStore` | | |

`DataEngine` is composed with `RevisionStore` by a refinement mapping (`RS`, property `Sequential`).
The mapping is that a revision comes into being when the record lists it and an AVP when a stored
map names it; before, no reader can find them. A save is then up to two abstract saves, as the
in-place writes take effect before the map is rewritten. `FormSave` takes from `DataEngine` what
matters to a form: a save that another save overtook may have lost its in-place writes and still
report success. `RecordSync` takes from it the put of a record document, read, written and repeated
after a 409, and adds what `DataEngine` leaves out: databases that replicate.

What the models abstract:

- `RevisionStore`, `DataEngine`: a value stands for data, annotation and attachments together, which
  the engine compares and writes together. Timestamps, types, relationships and validation are left
  out. `None` is a field that is not sent. A base or revision of another record is refused in the
  code and never offered here. `exclusive` of `RevisionStore` records whether the record has been
  open in one form at a time so far; `overlap` of `DataEngine` is chosen at the start.
- `DataEngine`: hydrating a revision and its parent is one read; `bulkDocs` is one step, with its
  per-document 409 ignored as in the code; an error other than a 409 ends the call as `Crash` does.
  `createRecord` with initial data is createRecord followed by Update. The reads that let
  stampUpdatedAtIfNewer decide not to stamp change nothing and are left out: such a call is no call.
  `returned` and `linked` record history: which ids a client was handed, which AVPs a reader could
  find.
- `RecordSync`: `Editor` names the databases on which the record is edited: devices, and the server,
  where the records API forks and saves (`api/src/api/records.ts:358`, 480). A device pushes and
  pulls; that both go on is the sync mode `both` of `createPouchDbReplication`
  (`app/src/context/slices/helpers/databaseHelpers.ts:425-505`), which also knows `push` and `pull`:
  with those, `Converges` is not claimed. Version numbers stand for CouchDB's `_rev`s, their order
  for that of the hashes among versions of one generation; a fresh number is any unused one, so
  every order occurs. Revision and AVP documents have fresh ids, replicate without conflicts and are
  left out. A put is accepted on any leaf, as PouchDB does. How a merge settles fields is a choice
  of the code that no property is about. mergeRecordConflicts does nothing as it is called
  (`merging.ts:393`; the record was read without its conflicts). The pair to merge is taken from the
  heads shown when the pair starts; the code takes it from the list it read first, so with four
  heads its index can slip to a head already merged. `dropped` records what a repeated put wrote
  over.
- `FormSave`: the form's values are the number of the last edit. Between two awaits the code runs
  alone, so it is one action. The flush may see an `edited` of an earlier render (`FlushDrained`).
  Leaving the page, computed and templated fields, visibility and removing an attachment are left
  out; a flush may start while an attachment is being stored, which the interface prevents, so the
  model does more than the code. `Autosaves` names the debounced saves that can be under way at
  once: saves overlap only when one outlasts the debounce.
- `StartupMigrationLock`: an instance is one process, since ids are fresh for each. Nothing in the
  API deletes the lock, so the branches for a document that vanished are left out. Pauses have any
  length. `TimeMatters` stops the clock where all comparisons have become constant. A put that fails
  may have been stored. `finishedAtMs` and messages are left out.
- `MapAssets`: the last read of a conditional write and its put are one step, since the put is
  refused unless the document is still what was read and is then tried from the read again; giving
  up after five clashes is left out. `late` stands for both two-hour limits, an attempt's and an
  upload's. Companion files go with their original. A worker's own files are apart from the API's. A
  worker's listing and its first read are one step. Links, names, styles and downloads are left out;
  a conversion may fail at any time. `stored` records whose loop listed the original: the document
  holds a location, which is the same key for every upload. Errors of CouchDB inside the retry loop
  are left out.
- `ContextualLayers`: a batch of downloads is one call after another. The listing of files and the
  filter of a sweep are one step. What is persisted is persisted at once. Paint preferences, seen
  hashes and object URLs are left out.

## 4. Runs

| run | what it shows | states |
|---|---|---|
| `store` | forms and API clients fork, save and delete in any order: `HeadsAreLeaves`, `TombstoneStaysHead`, `AvpsOfOwnLine`, `SaveTakesEffect`; as long as the record was open in one form at a time, one head and sound sharing (`ExclusiveInv`) and frozen history (`OnlyEditedLeafChanges`) | 27 thousand |
| `engine` | two clients interleave, clash, retry, give up and stop: `ListedHeadsAreLeaves`, `NoDanglingId`, history is lost at repeated puts only (`HistoryLostToRepeatsOnly`); one call at a time, stopping anywhere, implements `RevisionStore` (`Sequential`), since what it has read is still so when it writes (`SequentialInv`) | 833 thousand |
| `engine_repeat` | violation: `RecordPutsKeepHistory` (finding 1) | |
| `form_serial` | saves that do not overlap, with edits, failures, attachments and flushes at any moment: `StatusIsHonest`, `OneWorkingRevision`, `FlushPersists`, `FlushEnds`, `EditsReachTheDatabase` | 150 thousand |
| `form_overlap` | violation: `FlushPersists` when saves overlap (finding 2) | |
| `lock` | two replicas, two crashes, hung doers, failing calls, lost answers: `OneRunnerPerAttempt`, `SettledByItsRunner`, `StealsOnlyExpired`, `HistoryIsComplete`, `WaitersSawAnOutcome`, `NobodyWaitsForEver` | 373 thousand |
| `assets` | an upload and its replacement, two workers, the sweep, a failure or a stop anywhere: `SettledOnce`, `ReadyHasItsObjects`, `ArrivedIsKept` | 1.2 million |
| `assets_live` | with two failures every upload ends ready, failed or deleted: `EveryUploadSettles` | 23 thousand |
| `assets_late_put` | violation: `ReadyIsTheUpload` (finding 3) | |
| `layers` | two downloads, cancelled or failing anywhere, on a phone and in a browser, with clean-ups, a reset and a restart: `NeverTorn`, `DeletesOnlyUnnamed`, `SlotsAreHeld`, `EveryCallReturns` | 140 thousand |
| `record_sync` | two devices fork and stamp one record, the server merges it, all replicate: `HistoryIsReachable`, `AcknowledgedIsKept`, `Converges` | 583 thousand |
| `record_sync_conflict` | violation: `ConflictIsShown` (finding 4) | |

Each module's `TypeOK` is checked in the first of its runs.

**Bounds.** `store`: three revisions give a fork next to a fork, or of a fork, and a tombstone; two
AVPs and two fields let a value reach the wrong field; two values are a change and a revert.
`engine`: three revisions let two clients fork one base and clash; `MaxCalls = 5` is create and any
four of fork, delete, save and stamp; `MaxRetries = 1` lets a call clash, retry, clash again and
give up, all branches of the retry. `form_serial`: three edits let one come before, during and after
a save (an attachment under way adds one to the bound); `MaxFailed = 2` (3 in the code) and three
errors let a flush succeed after a failure and exhaust its attempts; two flushes let the second see
what the first left in `contentSavedThisSessionRef`. `lock`: `Timeout = 2` separates young, almost
expired and expired; `MaxHistory = 1` makes the limit bite at the second attempt; two crashes leave
a lock behind twice. Skewed clocks and more than two instances are left to the theorems, which hold
for any skew and number. `assets`: two uploads are a layer and its replacement, two claims let the
second worker take over from the first and the limit bite, two tries let an upload be retried; one
failure together with deadlines that may pass at any moment reaches every error path; `assets_live`
has two, so that a worker dies and the API restarts. `layers`: two hashes let one asset change under
a download, two downloads wait for one slot or for each other on one asset, one cleaner and one
restart meet both. `record_sync`: four revisions are a record, a fork on each device and a merge;
five versions let a conflict be made, replicated and merged; edits on the server as well would take
the instance past three million states, and are left to the theorems; `MaxOpen = 1` since a call
touches its own database only, so that calls on two databases meet through replication and one open
call per database is enough. Deadlock checking is off in all runs: each system really stops, when
ids or calls are used up or when everybody is done.

**Fairness.** `RevisionStore` and `DataEngine` are safety only. `FormSave`: timers fire, promises
settle and the flush polls every 50 ms, so each of these steps is weakly fair; edits, flushes,
attachments and failures are not. That a save ends is the code's own assumption: `updateRevision`
has no timeout. `StartupMigrationLock`: time passes, and an instance that has started takes its next
step unless it dies; nothing is assumed of the migrations, which may run for ever, nor that an
instance starts. `MapAssets`: time passes, the sweep runs (once a minute) and workers that poll go
on, one that stopped being started again; nothing is assumed of an upload, which the deadline
covers. `ContextualLayers`: a transfer ends at last, with its bytes or an error, which the code
assumes, and the event loop runs what is ready, so each download's own steps, and each clean-up's,
are weakly fair taken together; calls, cancellations and failures are not fair. `RecordSync`:
replication is live and retries (`live`, `retry` of the PouchDB sync, in both directions), so each
push and pull is weakly fair; nobody has to edit or merge. Failures and crashes are never fair and
are bounded in number.

## 5. Findings

1. **A fork, a delete or a stamp can take back another's revision** (`engine.ts:519`).
   `updateRecordHeads` reads the record, computes its new lists and puts them; after a 409 the same
   lists are put again with the newer `_rev`. Of two forks or deletes at once the second takes the
   first's revision, which its caller already has, out of heads and history, where the doc
   (`engine.ts:2795-2797`) says that the call "maintains complete revision history". A stamp
   (`engine.ts:766`) does the same. `ListedHeadsAreLeaves` still holds, since heads and history are
   lost together, so the record stays consistent and the revision is unreachable.
   `HistoryLostToRepeatsOnly` says that this is the only way: a first put loses nothing.
2. **A flush can finish before the last edit is stored** (`EditableFormManager.tsx:367`). All saves
   share `isSavingRef`; a debounced save that starts while the flush's own save is running loses its
   flag when that save ends. It takes a save longer than the debounce (1 s).
3. **A ready layer can be made from the file it replaced** (`store.ts:316`). `withDeadline` gives an
   attempt up without stopping it. The attempt goes on to store its file under the key all uploads
   of the layer use; only the document is guarded. When the layer was replaced meanwhile, a worker
   converts the old file and commits it as the new upload's.
4. **The conflict of two offline edits is not shown** (`engine.ts:3157`). Each edit is in its own
   version of the record document; the version that a get returns has one head, and "in conflict" is
   decided by the number of heads. The other edit is kept (`AcknowledgedIsKept`) and in no part of
   what is shown, until something merges the versions; nothing in the app does.

Noted without a run:

- A revision's AVP id differing from its parent's is read as "already diverged in a previous edit"
  (`engine.ts:2647`). It also differs when the *parent* is saved after the fork: one form is still
  on a revision that a second form has forked. The next save of the fork then overwrites in place an
  AVP that the forked revision wrote. `ExclusiveInv` and `OnlyEditedLeafChanges` hold with one form
  at a time only.
- The doc of `shouldCreateNewAvp` says a new AVP is created when there is no parent revision
  (`engine.ts:2626`); the code then updates in place (2637-2640).
- A PUT of some fields drops the others (`api/src/api/records.ts:472`), where
  `RecordsCRUDApi.md:340` promises that "omitted fields keep their current values".
- When the answer to a claim of the lock is lost, the retry reads its own live lock and waits out
  the timeout (`startupMigrationLock.ts:330`). It recovers (`NobodyWaitsForEver` holds with such
  failures).
- A put that is repeated after a 409 over a version that replication brought in meanwhile writes
  over what only that version listed (`engine.ts:519-525`). It is the repeat of finding 1 with a
  replication in the place of the other call; `AcknowledgedIsKept` leaves these losses out
  (`dropped`) and shows that nothing else loses a revision.
- A replication between a get and the put that follows can make the version that was read lose. The
  put on it is accepted, as it is still a leaf, and the edit is not in what is shown afterwards, on
  the very device that made it (`internals.ts:113`, PouchDB's choice of the winner). This ends in
  what finding 4 is about.
- The sweep decides on a list it read earlier and passes no upload to `failStaleOriginalStores`
  (`store.ts:2087-2111`), so it can fail an upload younger than the one it found stale.
- `createAsyncSemaphore` (`asyncMutex.ts:36-48`) can admit one too many when a slot is freed and
  taken before its waiter runs; the layer cache has a counter of its own, which is right
  (`SlotsAreHeld`).
- A download that finds its file reads the index before it waits for the mutex, and a clean-up in
  between leaves an entry without its file; a slow native removal can delete the file of a retry
  before it is indexed. `DeletesOnlyUnnamed` and `NeverTorn` hold all the same: they promise nothing
  of an entry whose file is not there.

## 6. Proofs

All theorems hold for every value of the constants, from the named ASSUMEs of the modules only
(`None` is new, numbers are naturals, limits are positive, names of different things differ). TLC
evaluates these assumptions in the runs, and every inductive invariant was checked by TLC on the
instances of section 4 before it was proved.

**`RevisionStoreProofs`.** `WriteEffect` says what a save can do: rewrite one revision's map by
keeping entries, taking the parent's or pointing at free ids, and overwrite only AVPs the parent
does not hold. `StepKinds` reduces the eight actions to four effects.

- `TypeCorrect` is inductive as it stands.
- `TreeInvariant`, `TreeCorrect`, `DeletionsAreFinal`: `HeadsAreLeaves` needs that a new revision
  has no child yet, which `TreeOK` gives: whoever has a parent is stored, and so is the parent.
  `TombstoneStaysHead` needs `HeadsAreLeaves` and the guard of the fork. The two are shown together
  in `TreeInvariant` and stated apart: `TreeCorrect` is about the heads, `DeletionsAreFinal` about
  the tombstones.
- `AvpInvariant`, `SavesTakeEffect`: a save reads back as the form showed it only if no AVP serves
  two fields, or the second write would undo the first. `OneFieldPerAvp` says so for all revisions
  at once, and `AvpsAllocated` (whatever is named has an owner) is what makes the ids of new AVPs
  really new.
- `NoValueCrossesBranches`: `AvpsOfOwnLine` speaks of the line of ancestors, a recursive function.
  Its equation has one solution as long as the parents form no cycle, so the invariant carries that
  very fact (`OneLine`): it holds when there are no parents, and a fork extends the one solution by
  one entry, as the new revision is nobody's parent. No induction is needed. With it a fork's line
  contains its base's, and a save takes AVPs from the parent or makes them, so owners stay on the
  line.
- `ExclusiveCorrect`: with one form at a time. `OwnOrInherited` is the heart of it: a head's AVP is
  its own or its parent's. A save on the head keeps that; a fork keeps it as the copied AVPs are now
  those of the parent; and the parent, no longer a head, is never written again. This step fails
  once two forms have been open.
- `HistoryIsFrozen`: an overwritten AVP differs from the parent's, so by `OwnOrInherited` it belongs
  to the edited leaf, and no other revision holds it.

**`DataEngineProofs`.** `ListedHeadsAreLeaves` is far from inductive: heads and history are computed
in one step and written in a later one, over whatever is there by then. `Inv` adds what makes it so:

- `BodiesOK`: what a call is about to put has heads that are the leaves of its own history, whether
  or not it is stale. That is why a lost update does not break the record.
- `NamedIsStored`: a body lists stored revisions only, and a stored revision never changes its
  parent (`RevsStay`), so leaves computed earlier still are leaves when they are written
  (`LeavesStay`).
- `NewIsSecret`: until the record lists it, nobody but its maker knows a new revision, so it has no
  child when its maker computes the heads.
- `BeginningOK`: before the first revision is stored, no client can do anything but store it.
- `MapsOK`: maps that calls have read or made name stored AVPs, and AVPs stay (`AvpsStay`).

- `PutsAreFresh` (beside `Inv`, which it needs): a put that has not clashed and quotes the current
  `_rev` lists all that the record lists, since every change of the record raises its `_rev`. The
  repeated put keeps its body and takes the new `_rev`, so nothing of the kind holds of it.

`FirstPutsKeepHistory` (`HistoryLostToRepeatsOnly`) follows from the last, and `HeadsCorrect` and
`IdsCorrect` from the others, with any number of clients, clashes and crashes. `Changes` says what a
client may be doing after a step, so the invariants about calls are shown once for all others.

**`DataEngineRefinement`.** When calls do not overlap, `DataEngine` implements `RevisionStore`:

- `CallsInTurnSeeTheStore`. `Inv` allows what a call has read to be stale. `SequentialInv` says that
  it is not when only one call is under way, and what the remains of calls that stopped look like:
  revisions the record does not list and AVPs that no map names. Its heart is `PlanOK`: the map a
  save is about to put differs from the stored one only in AVPs of the parent or in new ones of its
  own, with other data. This stays true while the save overwrites other AVPs in place.
- `CallsInTurnImplement` (`Sequential`). One lemma for each step shows that `SequentialInv` is kept
  and that the step is an abstract one or changes nothing that is mapped. Reads, AVP writes nobody
  can find yet, clashes and crashes are stutters; the put of the record is a fork or a deletion; the
  bulk write of overwrites and the put of the map are a save each, of the data read back so far
  (`AbstractSave`). `AbstractStrategies` is what makes the second one legal: what the engine decided
  at hydration (keep, revert, overwrite, create) is what `RevisionStore` decides about the state
  after the first. A call that stops between the two has made one abstract save, of some of its
  fields.
- `CallsInTurnKeepPromises` carries the theorems about `RevisionStore` over to the stored documents:
  `RevisionStoreProofs` is instantiated under the same mapping, so that a deletion stays a head and
  no value crosses branches or fields, whatever the engine's calls do and wherever they stop. The
  theorems assume nothing of sessions, so `{"creator"}` will do. The mapping sets `exclusive` to
  FALSE, as other forms and API clients may call too: what is promised of one form at a time
  (`ExclusiveInv`, frozen history) is not carried over.

With calls that overlap the refinement fails, as section 5 shows; `DataEngineProofs` is what holds
then.

**`RecordSyncProofs`.** `TypeOK` includes that a database that holds a version holds the line it
grew from. `Inv` adds `LinesOK` (a version is one longer than the one it grew from), `AncestryOK`
(ancestry is a strict partial order) and `PutsOK` (what an open call will put leads from its heads
to all it lists, and no other call makes the same revision). `HistoryStaysReachable`: every revision
a version lists is a head or an ancestor of one, whatever is merged and replicated.
`AcknowledgedStays` needs `KeptOK`: what a version lists, its children list, but for what `dropped`
records. The theorems hold with edits on any of the databases (`Editor`), the server's through the
records API among them; the runs have them on the two devices.

**`FormSaveProofs`.** `ForksOK`: a fork is made only when none was, whoever waits for it; with it
`OneRevision`. For `StatusCorrect` and `FlushCorrect` no save outlasts the debounce
(`~SavesOverlap`): `OneSaveAtATime` then makes `isSaving` mean that a save is under way, and
`StatusIsHonest` is inductive with it. Finding 2 is that step without the assumption. `FlushOK` says
what the flush knows at each step.

**`StartupMigrationLockProofs`.** The inductive invariant is `Inv`:

- `ReadsAreCurrent`: an instance about to put has read no later `_rev`, and the very document if the
  `_rev` is still current. This is what optimistic concurrency gives, and all else rests on it.
- `ClaimsAreJustified`: who is about to claim has read a lock that was free or expired at its clock.
- `AttemptsAreOwned`: attempts only grow, `mine` never exceeds the lock's, and a holder that knows
  of its claim holds the current attempt.
- `OutcomesAreReal`: a settled lock carries the outcome of an instance whose callback ended.

`AttemptsAreExclusive`, `LedgerCorrect`, `WaitersAreRight` are conjuncts of `Inv`; `NoEarlySteal`
and `SettlementIsTheRunners` are action properties that follow from it. Crashes, failures and lost
answers are in `Next` and so in the proofs. `LatestRows` and `OneMoreRow` are about the capped
history.

**`MapAssetsProofs`.** `NumbersOK`: uploads and claims have numbers of their own, so a stale writer
is recognised. `RequestOK`: what a create or replace under way may still put back. `ObjectsOK`:
which upload's files may be where, given who can still write or drop them. `HolderOK`: a worker
whose claim is the document's has the objects it has stored. `ReadyIsComplete` follows; it is stated
for a layer whose original its own upload stored, and finding 3 is about the others. `SettledStays`
and `ArrivedStays` are action properties.

**`ContextualLayersProofs`.** The inductive invariant is in three parts.

- *Turns.* `OneWorksOnAnAsset`: whoever works on an asset, even a native transfer that was given up
  and still writes, is the first of the asset's chain, so it is alone there (`WorkerIsAlone`).
  Chains and lines are sequences; `RemoveHead` and `RemoveOnly` say what is left when one leaves.
- *Slots.* `SlotInv`: `active` is the number of downloads between being granted a slot and giving it
  back, and somebody waits only if all are taken; whoever stands in line stands there once
  (`WaitersWait`). A slot goes to the first waiter without the count changing; that step is where a
  slot could be lost.
- *Files.* `NamedWhenWritten`: while a file is transferred or taken back the index does not name it,
  and what is about to be named is not half written. `HolderPurges`: only the holder of the mutex
  has files to delete, none of them named. `NeverTorn` and `DeletesOnlyUnnamed` follow, the latter
  as an action property: every lemma about a step also shows that it keeps the named files (`Kept`).

`SlotsAreHeld` counts a set of downloads, so it takes the library's facts on cardinalities; nothing
is assumed of how many downloads there are, as the holders are finitely many by the invariant
itself.

## 7. Model-checked only

Every safety property that a passing run checks, invariant or action property, is the statement of a
theorem of section 6. Liveness under fairness is out of the prover's reach and stays with TLC:
`FlushEnds`, `EditsReachTheDatabase`, `NobodyWaitsForEver`, `EveryUploadSettles`,
`EveryCallReturns`, `Converges`. So do the four violations of section 5, which a counterexample
settles.

## 8. Not modelled, and why

- *Planned, not yet there*: invites and tokens, writes to two related records, database migrations,
  offline map tiles, permissions, conditionals (section 2). Permissions and conditionals are tables
  and an interpreter without state, covered by unit tests; a model would repeat them.
- *Left out*: listing, search and history (they change nothing), the Control Centre and designer
  (user interface over the API), exports and backup (formats and streams), deployment and build.
  They are most of the repository's lines, so the models stand for a small share of them.
- *In the modelled components*: the engine's queries, createRelatedRecord, plan references and
  validation errors; the finish dialog, computed and templated fields of the form; branches of the
  lock for a document somebody deletes; links, names, styles, downloads and companions of map
  assets; the reconciler that starts spatial workers (calls to a cloud provider); how fields are
  merged; paint preferences and object URLs of the layer cache; logging everywhere.
