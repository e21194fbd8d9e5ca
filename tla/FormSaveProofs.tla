---------------------------- MODULE FormSaveProofs ----------------------------
(***************************************************************************)
(* What TLAPS proves of FormSave, for any number of autosaves, edits,      *)
(* failures and flushes.                                                   *)
(***************************************************************************)
EXTENDS FormSave, TLAPS

(* The own save and the attachment handler are no autosaves.               *)
LEMMA Names ==
  /\ Own \in Savers /\ Attach \notin Savers /\ Own # Attach
  /\ \A s \in Autosaves : s # Own /\ s \in Savers
BY AutosavesAreOthers DEF Own, Attach, Savers

LEMMA Constants ==
  /\ MaxFailed \in Nat /\ MaxEdits \in Nat /\ MaxErrors \in Nat /\ MaxFlushes \in Nat
  /\ MaxFailed > 0 /\ SavesOverlap \in BOOLEAN
BY BoundsAreNatural, SomeFailureIsAllowed, SavesOverlapIsBoolean

-----------------------------------------------------------------------------
LEMMA InitInv == Init => Inv
<1> SUFFICES ASSUME Init PROVE Inv
  OBVIOUS
<1>1. \A p \in Savers \cup {Attach} : at[p] = "idle"
  BY DEF Init
<1>3. FlagsOK
  BY Zenon DEF Init, FlagsOK
<1>4. CountsOK
  <2>1. stored \in 0..form /\ snap \in [Savers -> 0..form]
    BY DEF Init
  <2>. QED
    BY <2>1, Constants DEF Init, CountsOK
<1>5. StepsOK
  BY DEF Init, StepsOK
<1>6. ForksOK /\ FlushOK
  BY <1>1, Names DEF Init, ForksOK, FlushOK
<1>7. OneSaveAtATime
  BY <1>1 DEF Init, OneSaveAtATime
<1>8. StatusIsHonest
  BY DEF Init, StatusIsHonest
<1>. QED
  BY <1>3, <1>4, <1>5, <1>6, <1>7, <1>8 DEF Inv, TypeOK

-----------------------------------------------------------------------------
(* The flags are Booleans, whatever the step.                              *)
LEMMA FlagsStep ==
  ASSUME FlagsOK, [Next]_vars
  PROVE  FlagsOK'
<1>. USE DEF FlagsOK
<1>1. CASE UNCHANGED vars
  BY <1>1, Zenon DEF vars, refs
<1>2. CASE Edit \/ AddAttachment \/ StoreAttachment \/ SetAttachment
  BY <1>2, Zenon DEF Edit, AddAttachment, StoreAttachment, SetAttachment, Changed, ArmTimer, refs
<1>3. CASE Forked \/ ForkFails
  BY <1>3, Zenon DEF Forked, ForkFails
<1>4. ASSUME NEW s \in Savers, Autosave(s) \/ Write(s) \/ SaveOk(s) \/ SaveFails(s)
      PROVE  FlagsOK'
  BY <1>4, Zenon DEF Autosave, BeginSave, Write, SaveOk, KeepPending, SaveFails,
                     FlagFailure, ReleaseSaving
<1>5. CASE Flush \/ FlushDone \/ StampFails
  BY <1>5, Zenon DEF Flush, FlushDone, StampFails, refs
<1>6. CASE FlushDrained \/ FlushGivesUp \/ FlushSavesAgain \/ FlushSettled
  BY <1>6, Zenon DEF FlushDrained, FlushGivesUp, FlushSavesAgain, FlushSettled,
                     RunOwnSave, BeginSave, FlushTo, refs
<1>. QED
  BY <1>1, <1>2, <1>3, <1>4, <1>5, <1>6, Names, Zenon DEF Next

(* The steps that savers, the fork and the flush may be at.                *)
LEMMA StepsStep ==
  ASSUME StepsOK, [Next]_vars
  PROVE  StepsOK'
<1>. USE Names DEF StepsOK
<1>1. CASE UNCHANGED vars
  BY <1>1 DEF vars
<1>2. CASE Edit \/ SetAttachment
  BY <1>2 DEF Edit, SetAttachment
<1>3. CASE AddAttachment \/ StoreAttachment
  BY <1>3 DEF AddAttachment, StoreAttachment, EnsureRevision
<1>4. CASE Forked
  BY <1>4 DEF Forked
<1>5. CASE ForkFails
  BY <1>5 DEF ForkFails, OwnSaveEnds
<1>6. ASSUME NEW s \in Savers, Autosave(s)
      PROVE  StepsOK'
  BY <1>6 DEF Autosave, BeginSave, EnsureRevision
<1>7. ASSUME NEW s \in Savers, Write(s) \/ SaveOk(s) \/ SaveFails(s)
      PROVE  StepsOK'
  BY <1>7 DEF Write, SaveOk, SaveFails, OwnSaveEnds
<1>8. CASE Flush \/ FlushDone \/ StampFails
  BY <1>8 DEF Flush, FlushDone, StampFails
<1>9. CASE FlushDrained \/ FlushGivesUp \/ FlushSavesAgain \/ FlushSettled
  BY <1>9 DEF FlushDrained, FlushGivesUp, FlushSavesAgain, FlushSettled, RunOwnSave,
              BeginSave, EnsureRevision, FlushTo
<1>. QED
  BY <1>1, <1>2, <1>3, <1>4, <1>5, <1>6, <1>7, <1>8, <1>9, Zenon DEF Next

(* Versions never run ahead of the form, and counters keep their bounds.   *)
LEMMA CountsStep ==
  ASSUME CountsOK, StepsOK, ForksOK, FlushOK, [Next]_vars
  PROVE  CountsOK'
<1>. USE Constants, Names DEF CountsOK
<1>1. CASE UNCHANGED vars
  BY <1>1 DEF vars
<1>2. CASE Edit \/ SetAttachment
  <2>1. form' = form + 1 /\ UNCHANGED <<stored, snap, forks, failed, errors, flushes>>
    BY <1>2, Zenon DEF Edit, SetAttachment, Changed
  <2>. QED
    BY <2>1
<1>3. CASE AddAttachment \/ StoreAttachment
  BY <1>3 DEF AddAttachment, StoreAttachment, EnsureRevision
<1>4. CASE Forked
  BY <1>4 DEF Forked
<1>5. CASE ForkFails
  BY <1>5 DEF ForkFails, OwnSaveEnds, ForksOK, FlushOK, StepsOK
<1>6. ASSUME NEW s \in Savers, Autosave(s) \/ Write(s)
      PROVE  CountsOK'
  BY <1>6 DEF Autosave, BeginSave, EnsureRevision, Write
<1>7. ASSUME NEW s \in Savers, SaveOk(s)
      PROVE  CountsOK'
  BY <1>7 DEF SaveOk, OwnSaveEnds
<1>8. ASSUME NEW s \in Savers, SaveFails(s)
      PROVE  CountsOK'
  BY <1>8 DEF SaveFails, OwnSaveEnds, FlushOK
<1>9. CASE Flush
  BY <1>9 DEF Flush
<1>10. CASE FlushDone \/ StampFails
  BY <1>10 DEF FlushDone, StampFails
<1>11. CASE FlushDrained \/ FlushGivesUp \/ FlushSavesAgain \/ FlushSettled
  <2>1. \/ EnsureRevision /\ UNCHANGED <<form, stored, snap, failed, errors, flushes>>
        \/ UNCHANGED <<form, stored, snap, forks, failed, errors, flushes>>
    BY <1>11, Zenon DEF FlushDrained, FlushGivesUp, FlushSavesAgain, FlushSettled,
                        RunOwnSave, BeginSave, FlushTo
  <2>. QED
    BY <2>1 DEF EnsureRevision
<1>. QED
  BY <1>1, <1>2, <1>3, <1>4, <1>5, <1>6, <1>7, <1>8, <1>9, <1>10, <1>11,
     Zenon DEF Next

(* One revision for each session.                                          *)
LEMMA ForksStep ==
  ASSUME ForksOK, [Next]_vars
  PROVE  ForksOK'
<1>. USE DEF ForksOK
<1>1. CASE UNCHANGED vars
  BY <1>1 DEF vars
<1>2. CASE Edit \/ SetAttachment
  BY <1>2 DEF Edit, SetAttachment
<1>3. CASE AddAttachment \/ StoreAttachment
  BY <1>3 DEF AddAttachment, StoreAttachment, EnsureRevision
<1>4. CASE Forked
  BY <1>4 DEF Forked
<1>5. CASE ForkFails
  BY <1>5 DEF ForkFails
<1>6. ASSUME NEW s \in Savers, Autosave(s)
      PROVE  ForksOK'
  BY <1>6 DEF Autosave, BeginSave, EnsureRevision
<1>7. ASSUME NEW s \in Savers, Write(s) \/ SaveOk(s) \/ SaveFails(s)
      PROVE  ForksOK'
  BY <1>7 DEF Write, SaveOk, SaveFails
<1>8. CASE Flush \/ FlushDone \/ StampFails
  BY <1>8 DEF Flush, FlushDone, StampFails
<1>9. CASE FlushDrained \/ FlushGivesUp \/ FlushSavesAgain \/ FlushSettled
  <2>1. EnsureRevision \/ UNCHANGED <<fork, forks>>
    BY <1>9, Zenon DEF FlushDrained, FlushGivesUp, FlushSavesAgain, FlushSettled,
                       RunOwnSave, BeginSave, FlushTo
  <2>. QED
    BY <2>1 DEF EnsureRevision
<1>. QED
  BY <1>1, <1>2, <1>3, <1>4, <1>5, <1>6, <1>7, <1>8, <1>9, Names, Zenon DEF Next

(* The flush waits for the save it runs, and only then.                    *)
LEMMA FlushStep ==
  ASSUME FlushOK, StepsOK, CountsOK, [Next]_vars
  PROVE  FlushOK'
<1>. USE Constants, Names DEF FlushOK
<1>1. CASE UNCHANGED vars
  BY <1>1 DEF vars
<1>2. CASE Edit
  BY <1>2 DEF Edit
<1>3. CASE AddAttachment \/ StoreAttachment \/ SetAttachment
  BY <1>3 DEF AddAttachment, StoreAttachment, SetAttachment, StepsOK
<1>4. CASE Forked
  BY <1>4 DEF Forked
<1>5. CASE ForkFails
  BY <1>5 DEF ForkFails, OwnSaveEnds, StepsOK
<1>6. ASSUME NEW s \in Autosaves, Autosave(s)
      PROVE  FlushOK'
  BY <1>6 DEF Autosave, BeginSave, StepsOK
<1>7. ASSUME NEW s \in Savers, Write(s)
      PROVE  FlushOK'
  BY <1>7 DEF Write, StepsOK
<1>8. ASSUME NEW s \in Savers, SaveOk(s) \/ SaveFails(s)
      PROVE  FlushOK'
  BY <1>8 DEF SaveOk, SaveFails, OwnSaveEnds, StepsOK
<1>9. CASE Flush \/ FlushDone \/ StampFails
  BY <1>9 DEF Flush, FlushDone, StampFails
<1>10. CASE FlushDrained
  BY <1>10 DEF FlushDrained, RunOwnSave, BeginSave, FlushTo, StepsOK
<1>11. CASE FlushSavesAgain
  BY <1>11 DEF FlushSavesAgain, Exhausted, RunOwnSave, BeginSave, StepsOK, CountsOK
<1>12. CASE FlushGivesUp \/ FlushSettled
  BY <1>12 DEF FlushGivesUp, FlushSettled, FlushTo
<1>. QED
  BY <1>1, <1>2, <1>3, <1>4, <1>5, <1>6, <1>7, <1>8, <1>9, <1>10, <1>11, <1>12, Zenon
  DEF Next

-----------------------------------------------------------------------------
(* Without overlap, a save that begins finds no other under way.           *)
LEMMA BeginSaveSerial ==
  ASSUME ~SavesOverlap, FlagsOK, StepsOK, OneSaveAtATime,
         NEW s \in Savers, BeginSave(s), UNCHANGED <<form, snap, raced, stored>>,
         \A t \in Savers : at[t] = "idle"
  PROVE  OneSaveAtATime' /\ StatusIsHonest'
<1>1. /\ at'[s] = "ensure" /\ isSaving' = TRUE
      /\ \A t \in Savers : t # s => at'[t] = "idle"
  BY DEF BeginSave, StepsOK
<1>. QED
  BY <1>1 DEF OneSaveAtATime, StatusIsHonest

(* A save that ends leaves nobody else saving.                             *)
LEMMA EndSaveSerial ==
  ASSUME ~SavesOverlap, StepsOK, OneSaveAtATime, NEW s \in Savers, at[s] # "idle",
         at' = [at EXCEPT ![s] = "idle"], isSaving' = FALSE
  PROVE  OneSaveAtATime'
<1>1. \A t \in Savers : at'[t] = "idle"
  BY DEF OneSaveAtATime, StepsOK
<1>. QED
  BY <1>1 DEF OneSaveAtATime

(* What no save and no flag changes.                                       *)
LEMMA NothingSerial ==
  ASSUME OneSaveAtATime, StatusIsHonest,
         UNCHANGED <<form, stored, pending, isSaving, snap, raced>>,
         \A s \in Savers : at'[s] = at[s]
  PROVE  OneSaveAtATime' /\ StatusIsHonest'
BY DEF OneSaveAtATime, StatusIsHonest

LEMMA SerialStep ==
  ASSUME ~SavesOverlap, FlagsOK, StepsOK, CountsOK, OneSaveAtATime, StatusIsHonest,
         [Next]_vars
  PROVE  OneSaveAtATime' /\ StatusIsHonest'
<1>. USE Names
<1>1. CASE UNCHANGED vars
  BY <1>1, NothingSerial DEF vars, refs
<1>2. CASE Edit \/ SetAttachment
  <2>1. /\ form' = form + 1 /\ pending' = TRUE
        /\ UNCHANGED <<isSaving, raced>> /\ \A s \in Savers : at'[s] = at[s]
    BY <1>2 DEF Edit, SetAttachment, Changed, StepsOK
  <2>. QED
    BY <2>1 DEF OneSaveAtATime, StatusIsHonest
<1>3. CASE AddAttachment \/ StoreAttachment
  <2>1. \A s \in Savers : at'[s] = at[s]
    BY <1>3 DEF AddAttachment, StoreAttachment, StepsOK
  <2>. QED
    BY <1>3, <2>1, NothingSerial DEF AddAttachment, StoreAttachment, refs
<1>4. CASE Forked
  BY <1>4, NothingSerial DEF Forked
<1>5. CASE ForkFails
  <2>1. /\ UNCHANGED <<form, stored, snap, raced>>
        /\ \A s \in Savers : at'[s] = IF at[s] = "ensure" THEN "idle" ELSE at[s]
    BY <1>5 DEF ForkFails, StepsOK
  <2>2. CASE \E s \in Savers : at[s] = "ensure"
    <3>1. pending' = TRUE /\ isSaving' = FALSE
      BY <1>5, <2>2 DEF ForkFails, StepsOK
    <3>2. \A s \in Savers : at'[s] = "idle"
      BY <2>1, <2>2 DEF OneSaveAtATime
    <3>. QED
      BY <3>1, <3>2 DEF OneSaveAtATime, StatusIsHonest
  <2>3. CASE ~ \E s \in Savers : at[s] = "ensure"
    <3>1. UNCHANGED <<pending, isSaving>>
      BY <1>5, <2>3 DEF ForkFails, StepsOK
    <3>. QED
      BY <2>1, <2>3, <3>1, NothingSerial
  <2>. QED
    BY <2>2, <2>3
<1>6. ASSUME NEW s \in Autosaves, Autosave(s)
      PROVE  OneSaveAtATime' /\ StatusIsHonest'
  <2>1. \A t \in Savers : at[t] = "idle"
    BY <1>6 DEF Autosave, InFlight
  <2>. QED
    BY <1>6, <2>1, BeginSaveSerial DEF Autosave
<1>7. ASSUME NEW s \in Savers, Write(s)
      PROVE  OneSaveAtATime' /\ StatusIsHonest'
  <2>1. /\ at[s] = "ensure" /\ at'[s] = "write" /\ snap'[s] = form /\ s \notin raced'
        /\ UNCHANGED <<form, stored, pending, isSaving>>
        /\ \A t \in Savers : t # s => at'[t] = at[t] /\ snap'[t] = snap[t]
        /\ raced' \subseteq raced
    BY <1>7 DEF Write, StepsOK, CountsOK
  <2>. QED
    BY <2>1 DEF OneSaveAtATime, StatusIsHonest
<1>8. ASSUME NEW s \in Savers, SaveOk(s)
      PROVE  OneSaveAtATime' /\ StatusIsHonest'
  <2>1. s \notin raced /\ (~pending => snap[s] = form)
    BY <1>8 DEF SaveOk, OneSaveAtATime
  <2>2. stored' = snap[s] /\ UNCHANGED <<form, pending>>
    BY <1>8, <2>1 DEF SaveOk, KeepPending
  <2>3. StatusIsHonest'
    BY <2>1, <2>2 DEF StatusIsHonest
  <2>4. OneSaveAtATime'
    BY <1>8, EndSaveSerial DEF SaveOk
  <2>. QED
    BY <2>3, <2>4
<1>9. ASSUME NEW s \in Savers, SaveFails(s)
      PROVE  OneSaveAtATime' /\ StatusIsHonest'
  <2>1. StatusIsHonest'
    BY <1>9 DEF SaveFails, FlagFailure, StatusIsHonest
  <2>2. OneSaveAtATime'
    BY <1>9, EndSaveSerial DEF SaveFails, ReleaseSaving
  <2>. QED
    BY <2>1, <2>2
<1>10. CASE Flush \/ FlushDone \/ StampFails
  BY <1>10, NothingSerial DEF Flush, FlushDone, StampFails, refs
<1>11. CASE FlushGivesUp \/ FlushSettled
  BY <1>11, NothingSerial DEF FlushGivesUp, FlushSettled, FlushTo, refs
<1>12. CASE FlushDrained \/ FlushSavesAgain
  <2>1. ~isSaving /\ (RunOwnSave \/ \E step \in {"loop"} : FlushTo(step))
    BY <1>12 DEF FlushDrained, FlushSavesAgain
  <2>2. CASE RunOwnSave
    <3>1. \A t \in Savers : at[t] = "idle"
      BY <2>1 DEF OneSaveAtATime
    <3>. QED
      BY <2>2, <3>1, BeginSaveSerial DEF RunOwnSave
  <2>3. CASE FlushTo("loop")
    BY <2>3, NothingSerial DEF FlushTo, refs
  <2>. QED
    BY <2>1, <2>2, <2>3
<1>. QED
  BY <1>1, <1>2, <1>3, <1>4, <1>5, <1>6, <1>7, <1>8, <1>9, <1>10, <1>11, <1>12, Zenon
  DEF Next

-----------------------------------------------------------------------------
LEMMA InvStep == Inv /\ [Next]_vars => Inv'
<1>. SUFFICES ASSUME Inv, [Next]_vars PROVE Inv'
  OBVIOUS
<1>1. TypeOK' /\ ForksOK' /\ FlushOK'
  BY FlagsStep, StepsStep, CountsStep, ForksStep, FlushStep DEF Inv, TypeOK
<1>2. CASE SavesOverlap
  BY <1>1, <1>2 DEF Inv, OneSaveAtATime
<1>3. CASE ~SavesOverlap
  BY <1>1, <1>3, SerialStep DEF Inv, TypeOK
<1>. QED
  BY <1>2, <1>3

LEMMA Inductive == Spec => []Inv
BY InitInv, InvStep, PTL DEF Spec

(* The flags are flags, the counters keep their bounds, no version in the  *)
(* database or on its way there is one the form never had, and savers and  *)
(* flush are at the steps the code has.                                    *)
THEOREM TypeCorrect == Spec => []TypeOK
<1>1. Inv => TypeOK
  BY DEF Inv
<1>. QED
  BY <1>1, Inductive, PTL

(* However many autosaves, attachments and flushes ask for it at once, a   *)
(* session has one working revision (ensureWorkingRevision).               *)
THEOREM OneRevision == Spec => []OneWorkingRevision
<1>1. Inv => OneWorkingRevision
  BY DEF Inv, TypeOK, StepsOK, ForksOK, OneWorkingRevision
<1>. QED
  BY <1>1, Inductive, PTL

(* Where no save outlasts the debounce, a form with neither flag up is in  *)
(* the database, whatever failed before.                                   *)
THEOREM StatusCorrect ==
  ASSUME ~SavesOverlap
  PROVE  Spec => []StatusIsHonest
<1>1. Inv => StatusIsHonest
  BY DEF Inv
<1>. QED
  BY <1>1, Inductive, PTL

(* Where no save outlasts the debounce, a flush that goes on to stamp the  *)
(* record has written what the form shows.                                 *)
THEOREM FlushCorrect ==
  ASSUME ~SavesOverlap
  PROVE  Spec => FlushPersists
<1>1. Inv /\ [Next]_vars => [flush = "loop" /\ flush' = "stamp" => stored = form]_vars
  <2>. SUFFICES ASSUME Inv, Next, flush = "loop", flush' = "stamp"
                PROVE  stored = form
    BY DEF vars
  <2>1. FlushSettled
    <3>1. ~(Forked \/ Edit \/ AddAttachment \/ StoreAttachment \/ SetAttachment)
      BY DEF Forked, Edit, AddAttachment, StoreAttachment, SetAttachment
    <3>2. ~(Flush \/ FlushDrained \/ FlushGivesUp \/ FlushSavesAgain \/ FlushDone \/ StampFails)
      BY DEF Flush, FlushDrained, FlushGivesUp, FlushSavesAgain, FlushDone, StampFails,
             RunOwnSave, FlushTo
    <3>3. ~ForkFails
      BY DEF ForkFails, OwnSaveEnds
    <3>4. \A s \in Savers : ~(Autosave(s) \/ Write(s) \/ SaveOk(s) \/ SaveFails(s))
      BY DEF Autosave, Write, SaveOk, SaveFails, OwnSaveEnds
    <3>. QED
      BY <3>1, <3>2, <3>3, <3>4, Names, Zenon DEF Next
  <2>. QED
    BY <2>1 DEF FlushSettled, Settled, Inv, StatusIsHonest
<1>. QED
  BY <1>1, Inductive, PTL DEF Spec, FlushPersists
=============================================================================
