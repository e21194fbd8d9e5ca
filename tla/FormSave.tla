------------------------------- MODULE FormSave -------------------------------
(***************************************************************************)
(* How an open edit form gets what the user types into the database        *)
(* (EditableFormManager): a debounced autosave, the flush that runs before *)
(* Finish and navigation, and attachments that write to the same revision. *)
(*                                                                         *)
(* Saves are asynchronous: edits arrive while one is under way, one may    *)
(* fail, and one that outlasts the debounce overlaps the next.  The form's *)
(* values are represented by a version number that every edit raises; the  *)
(* database by the version it holds.                                       *)
(***************************************************************************)
EXTENDS Naturals, FiniteSets

CONSTANTS
  Autosaves,         \* debounced saves that may be under way at once
  SavesOverlap, \* FALSE: each is over before the debounce of the next ends
  MaxFailed,    \* FLUSH_SAVE_MAX_FAILED_ATTEMPTS (3 in the code)
  MaxEdits,     \* bound: edits in a behaviour
  MaxErrors,    \* bound: engine calls that fail in a behaviour
  MaxFlushes    \* bound: flushes in a behaviour

ASSUME SavesOverlapIsBoolean == SavesOverlap \in BOOLEAN
ASSUME BoundsAreNatural == {MaxFailed, MaxEdits, MaxErrors, MaxFlushes} \subseteq Nat
ASSUME SomeFailureIsAllowed == MaxFailed > 0

Own    == "own"      \* the save that a flush runs itself
Attach == "attach"   \* the handler that adds an attachment
Savers == Autosaves \cup {Own}

ASSUME AutosavesAreOthers == {Own, Attach} \cap Autosaves = {}

VARIABLES
  form,       \* version of form.state.values
  stored,     \* version the working revision holds
  pending,    \* pendingValuesRef
  isSaving,   \* isSavingRef
  edited,     \* editedRef
  saved,      \* contentSavedThisSessionRef
  timer,      \* the debounced save is armed
  fork,       \* createRevision of the session: "none", "running", "done"
  forks,      \* revisions the session has created
  at,         \* step of each saver and of the attachment handler
  snap,       \* version a save is writing
  raced,      \* saves that had another save commit since they began to write
  flush,      \* step of flushSave
  failed,     \* failedSaves of the flush
  errors, flushes  \* counts for the bounds

refs == <<pending, isSaving, edited, saved>>
vars == <<form, stored, refs, timer, fork, forks, at, snap, raced, flush, failed,
          errors, flushes>>

-----------------------------------------------------------------------------
(* A new record already has its working revision (mode "new").             *)
Init ==
  /\ form = 0 /\ stored = 0
  /\ pending = FALSE /\ isSaving = FALSE /\ edited = FALSE /\ saved = FALSE
  /\ timer = FALSE
  /\ fork \in {"none", "done"} /\ forks = 0
  /\ at = [p \in Savers \cup {Attach} |-> "idle"]
  /\ snap = [s \in Savers |-> 0] /\ raced = {}
  /\ flush = "idle" /\ failed = 0 /\ errors = 0 /\ flushes = 0

InFlight == {s \in Savers : at[s] # "idle"}

(* Mutant: an edit during a save does not arm the debounce.                *)
ArmWhenIdle == timer' = (timer \/ ~isSaving)

ArmTimer == timer' = TRUE

(* onChange.                                                               *)
Changed == form' = form + 1 /\ pending' = TRUE /\ ArmTimer

(* The user edits a field.                                                 *)
Edit ==
  /\ form < MaxEdits
  /\ Changed
  /\ UNCHANGED <<stored, isSaving, edited, saved, fork, forks, at, snap, raced,
                 flush, failed, errors, flushes>>

-----------------------------------------------------------------------------
(* Mutant: every caller creates a revision of its own.                     *)
AlwaysFork == /\ fork' = IF fork = "done" THEN "done" ELSE "running"
              /\ forks' = IF fork = "done" THEN forks ELSE forks + 1

(* ensureWorkingRevision: create the revision unless that was done or is   *)
(* under way, in which case the caller awaits the same promise.            *)
EnsureRevision == /\ fork' = IF fork = "none" THEN "running" ELSE fork
                  /\ forks' = IF fork = "none" THEN forks + 1 ELSE forks

Forked ==
  /\ fork = "running"
  /\ fork' = "done" /\ edited' = TRUE
  /\ UNCHANGED <<form, stored, pending, isSaving, saved, timer, forks, at, snap,
                 raced, flush, failed, errors, flushes>>

(* What follows the end of a save in the flush that awaits it.             *)
OwnSaveEnds(ends, ok) ==
  /\ flush' = IF Own \in ends THEN "loop" ELSE flush
  /\ failed' = IF Own \in ends /\ ~ok THEN failed + 1 ELSE failed

(* createRevision throws: all who await it fail, and a later one retries.  *)
ForkFails ==
  /\ fork = "running" /\ errors < MaxErrors
  /\ errors' = errors + 1 /\ fork' = "none"
  /\ LET waiting == {p \in DOMAIN at : at[p] = "ensure"} IN
       /\ at' = [p \in DOMAIN at |-> IF p \in waiting THEN "idle" ELSE at[p]]
       /\ IF waiting \cap Savers # {}
          THEN pending' = TRUE /\ isSaving' = FALSE
          ELSE UNCHANGED <<pending, isSaving>>
       /\ OwnSaveEnds(waiting, FALSE)
  /\ forks' = forks - 1
  /\ UNCHANGED <<form, stored, edited, saved, timer, snap, raced, flushes>>

-----------------------------------------------------------------------------
(* performSave, up to the first await.                                     *)
BeginSave(s) ==
  /\ at[s] = "idle"
  /\ isSaving' = TRUE /\ pending' = FALSE
  /\ at' = [at EXCEPT ![s] = "ensure"]
  /\ EnsureRevision

(* The debounce of 1000 ms runs out.                                       *)
Autosave(s) ==
  /\ timer
  /\ SavesOverlap \/ InFlight = {}
  /\ timer' = FALSE
  /\ BeginSave(s)
  /\ UNCHANGED <<form, stored, edited, saved, snap, raced, flush, failed, errors,
                 flushes>>

(* With the revision at hand: take form.state.values, call updateRevision. *)
Write(s) ==
  /\ at[s] = "ensure" /\ fork = "done"
  /\ edited' = TRUE
  /\ at' = [at EXCEPT ![s] = "write"]
  /\ snap' = [snap EXCEPT ![s] = form]
  /\ raced' = raced \ {s}
  /\ UNCHANGED <<form, stored, pending, isSaving, saved, timer, fork, forks, flush,
                 failed, errors, flushes>>

(* Mutant: pending is cleared when the save ends, not when it begins.      *)
ClearAtEnd == pending' = FALSE

(* The outcome of a save that succeeded leaves the pending flag alone.     *)
KeepPending == UNCHANGED pending

(* updateRevision succeeds.  After another save committed meanwhile, the   *)
(* AVP overwrite may have clashed, which the engine ignores (PutOverwrites *)
(* of DataEngine): the value is lost and the save still succeeds.          *)
SaveOk(s) ==
  /\ at[s] = "write"
  /\ stored' \in {snap[s]} \cup (IF s \in raced THEN {stored} ELSE {})
  /\ raced' = raced \cup {t \in Savers \ {s} : at[t] = "write"}
  /\ saved' = TRUE /\ isSaving' = FALSE
  /\ KeepPending
  /\ at' = [at EXCEPT ![s] = "idle"]
  /\ OwnSaveEnds({s}, TRUE)
  /\ UNCHANGED <<form, edited, timer, fork, forks, snap, errors, flushes>>

(* The catch of performSave: what was taken over is pending again.         *)
FlagFailure == pending' = TRUE

(* Mutant: the flag is released by saves that succeed only.                *)
StaySaving == UNCHANGED isSaving

(* The finally of performSave.                                             *)
ReleaseSaving == isSaving' = FALSE

(* updateRevision throws.                                                  *)
SaveFails(s) ==
  /\ at[s] = "write" /\ errors < MaxErrors
  /\ errors' = errors + 1
  /\ FlagFailure /\ ReleaseSaving
  /\ at' = [at EXCEPT ![s] = "idle"]
  /\ OwnSaveEnds({s}, FALSE)
  /\ UNCHANGED <<form, stored, edited, saved, timer, fork, forks, snap, raced, flushes>>

-----------------------------------------------------------------------------
(* handleAddAttachment: ensure the revision, store the file, set the field. *)
AddAttachment ==
  /\ at[Attach] = "idle" /\ form < MaxEdits
  /\ at' = [at EXCEPT ![Attach] = "ensure"]
  /\ EnsureRevision
  /\ UNCHANGED <<form, stored, refs, timer, snap, raced, flush, failed, errors, flushes>>

StoreAttachment ==
  /\ at[Attach] = "ensure" /\ fork = "done"
  /\ edited' = TRUE
  /\ at' = [at EXCEPT ![Attach] = "store"]
  /\ UNCHANGED <<form, stored, pending, isSaving, saved, timer, fork, forks, snap,
                 raced, flush, failed, errors, flushes>>

SetAttachment ==
  /\ at[Attach] = "store"
  /\ at' = [at EXCEPT ![Attach] = "idle"]
  /\ Changed
  /\ UNCHANGED <<stored, isSaving, edited, saved, fork, forks, snap, raced, flush,
                 failed, errors, flushes>>

-----------------------------------------------------------------------------
(* flushSave: cancel the debounce, then wait for a save under way.         *)
Flush ==
  /\ flush = "idle" /\ flushes < MaxFlushes
  /\ flushes' = flushes + 1
  /\ timer' = FALSE /\ flush' = "drain" /\ failed' = 0
  /\ UNCHANGED <<form, stored, refs, fork, forks, at, snap, raced, errors>>

RunOwnSave ==
  /\ BeginSave(Own) /\ flush' = "await"
  /\ UNCHANGED <<form, stored, edited, saved, timer, snap, raced, failed, errors, flushes>>

FlushTo(step) ==
  /\ flush' = step
  /\ UNCHANGED <<form, stored, refs, timer, fork, forks, at, snap, raced, failed,
                 errors, flushes>>

(* edited is read from the last render, which may be behind editedRef.     *)
ShouldWrite(rendered) == pending \/ rendered \/ saved

(* Drained: write the current values when this session has written any.    *)
FlushDrained ==
  /\ flush = "drain" /\ ~isSaving
  /\ \E rendered \in {FALSE, edited} :
       IF ShouldWrite(rendered) THEN RunOwnSave ELSE FlushTo("loop")

(* Mutant: one failure too many.                                           *)
ExhaustedLate == failed > MaxFailed

Exhausted == failed >= MaxFailed

(* Until nothing is pending or being saved: give up after MaxFailed        *)
(* failures, save again what is pending, or wait for a save under way.     *)
FlushGivesUp ==
  /\ flush = "loop" /\ (pending \/ isSaving)
  /\ Exhausted
  /\ FlushTo("idle")

FlushSavesAgain ==
  /\ flush = "loop" /\ pending /\ ~isSaving
  /\ ~Exhausted
  /\ RunOwnSave

(* Mutant: the flush does not look at what came in during its save.        *)
SaveEnded == ~isSaving

Settled == ~pending /\ ~isSaving

FlushSettled ==
  /\ flush = "loop" /\ Settled
  /\ FlushTo("stamp")

(* stampUpdatedAtIfNewer returns, or throws.                               *)
FlushDone ==
  /\ flush = "stamp" /\ flush' = "idle" /\ saved' = FALSE
  /\ UNCHANGED <<form, stored, pending, isSaving, edited, timer, fork, forks, at,
                 snap, raced, failed, errors, flushes>>

StampFails ==
  /\ flush = "stamp" /\ flush' = "idle"
  /\ errors < MaxErrors /\ errors' = errors + 1
  /\ UNCHANGED <<form, stored, refs, timer, fork, forks, at, snap, raced, failed, flushes>>

-----------------------------------------------------------------------------
Works(s) == Write(s) \/ SaveOk(s)

Next ==
  \/ Edit \/ Forked \/ ForkFails
  \/ \E s \in Autosaves : Autosave(s)
  \/ \E s \in Savers : Write(s) \/ SaveOk(s) \/ SaveFails(s)
  \/ AddAttachment \/ StoreAttachment \/ SetAttachment
  \/ Flush \/ FlushDrained \/ FlushGivesUp \/ FlushSavesAgain \/ FlushSettled
  \/ FlushDone \/ StampFails

(* Timers fire, promises settle, the flush polls; nobody has to edit,      *)
(* finish or attach, and no call has to fail.                              *)
Fairness ==
  /\ WF_vars(Forked)
  /\ WF_vars(\E s \in Autosaves : Autosave(s))
  /\ \A s \in Savers : WF_vars(Works(s))
  /\ WF_vars(StoreAttachment) /\ WF_vars(SetAttachment)
  /\ WF_vars(FlushDrained) /\ WF_vars(FlushGivesUp) /\ WF_vars(FlushSavesAgain)
  /\ WF_vars(FlushSettled) /\ WF_vars(FlushDone)

Spec == Init /\ [][Next]_vars /\ Fairness

-----------------------------------------------------------------------------
FlagsOK ==
  /\ pending \in BOOLEAN /\ isSaving \in BOOLEAN /\ timer \in BOOLEAN
  /\ edited \in BOOLEAN /\ saved \in BOOLEAN

CountsOK ==
  /\ form \in Nat /\ stored \in 0..form
  /\ snap \in [Savers -> 0..form]
  /\ forks \in Nat /\ failed \in 0..MaxFailed
  /\ errors \in 0..MaxErrors /\ flushes \in 0..MaxFlushes

StepsOK ==
  /\ fork \in {"none", "running", "done"}
  /\ at \in [Savers \cup {Attach} -> {"idle", "ensure", "write", "store"}]
  /\ raced \subseteq Savers
  /\ flush \in {"idle", "drain", "await", "loop", "stamp"}

TypeOK == FlagsOK /\ CountsOK /\ StepsOK

(* A session works on one revision: autosaves, the flush and attachments   *)
(* that start together do not fork the record twice                        *)
(* (ensureWorkingRevision and its in-flight promise).                      *)
OneWorkingRevision == forks <= 1

(* When neither flag is up, which is when editRecord.tsx lets the user     *)
(* leave the page, the database holds what the form shows; also after      *)
(* failed saves and edits made during a save.                              *)
StatusIsHonest == ~pending /\ ~isSaving => stored = form

(* flushSave: "Finish / nav must persist current form state when this      *)
(* session edited".  When the flush goes on to stamp the record, the form  *)
(* and the database agree.                                                 *)
FlushPersists == [][flush = "loop" /\ flush' = "stamp" => stored = form]_vars

(* A flush ends, whatever fails and whatever else is being saved: it never *)
(* waits for ever on isSavingRef or retries for ever.                      *)
FlushEnds == flush # "idle" ~> flush = "idle"

(* Unless a call fails, what was typed reaches the database without the    *)
(* user's doing anything more, also when typed during a save.              *)
EditsReachTheDatabase == form # stored ~> form = stored \/ errors > 0

-----------------------------------------------------------------------------
(* What makes these inductive.                                             *)

(* The session has at most one revision, and none it has not asked for.    *)
ForksOK ==
  /\ fork = "none" => forks = 0
  /\ fork = "running" => forks = 1
  /\ fork = "done" => forks \in 0..1

(* The flush that runs a save awaits it, and has failures left.            *)
FlushOK ==
  /\ at[Own] # "idle" => flush = "await" /\ failed < MaxFailed
  /\ flush = "drain" => failed = 0

(* Saves that do not overlap: the flag says whether one is under way, and  *)
(* what it writes is what the form shows unless something is pending.      *)
OneSaveAtATime ==
  ~SavesOverlap =>
    /\ \A s, t \in Savers : at[s] # "idle" /\ at[t] # "idle" => s = t
    /\ isSaving <=> \E s \in Savers : at[s] # "idle"
    /\ \A s \in Savers : at[s] = "write" =>
         s \notin raced /\ (~pending => snap[s] = form)

Inv ==
  /\ TypeOK /\ ForksOK /\ FlushOK /\ OneSaveAtATime
  /\ ~SavesOverlap => StatusIsHonest
=============================================================================
