--------------------- MODULE StartupMigrationLockProofs ---------------------
(***************************************************************************)
(* Theorems about StartupMigrationLock, for any number of instances, any   *)
(* timeout, skew and history limit, and any number of failures, crashes    *)
(* and steps an instance lags behind.                                      *)
(***************************************************************************)
EXTENDS StartupMigrationLock, SequenceTheorems, TLAPS

LEMMA Numbers ==
  /\ Timeout \in Nat /\ MaxSkew \in Nat /\ MaxErrors \in Nat
  /\ MaxHistory \in Nat /\ MaxHistory > 0 /\ MaxIoErrors \in Nat /\ MaxIoErrors > 0
BY NumbersAreNatural

(* How many rows slice(-MAX_LOCK_HISTORY) keeps. *)
LEMMA LatestRows ==
  ASSUME NEW rows \in Seq(Row)
  PROVE  /\ Latest(rows) \in Seq(Row)
         /\ Len(Latest(rows)) = IF Len(rows) < MaxHistory THEN Len(rows) ELSE MaxHistory
<1> DEFINE first == IF Len(rows) > MaxHistory THEN Len(rows) - MaxHistory + 1 ELSE 1
<1>1. Len(rows) \in Nat /\ \A k \in 1..Len(rows) : rows[k] \in Row
  BY ElementOfSeq, LenProperties
<1>2. first \in Int /\ first >= 1
  BY <1>1, Numbers
<1>3. \A k \in first..Len(rows) : rows[k] \in Row
  BY <1>1, <1>2
<1> HIDE DEF first
<1>4. /\ SubSeq(rows, first, Len(rows)) \in Seq(Row)
      /\ Len(SubSeq(rows, first, Len(rows)))
           = IF first <= Len(rows) THEN Len(rows) - first + 1 ELSE 0
  <2>1. Len(rows) \in Int
    BY <1>1
  <2> QED BY <1>2, <1>3, <2>1, SubSeqProperties
<1>5. Latest(rows) = SubSeq(rows, first, Len(rows))
  BY DEF Latest, first
<1>6. CASE Len(rows) > MaxHistory
  <2>1. first = Len(rows) - MaxHistory + 1
    BY <1>6 DEF first
  <2> QED BY <1>1, <1>4, <1>5, <1>6, <2>1, Numbers
<1>7. CASE ~(Len(rows) > MaxHistory)
  <2>1. first = 1
    BY <1>7 DEF first
  <2> QED BY <1>1, <1>4, <1>5, <1>7, <2>1, Numbers
<1> QED BY <1>6, <1>7

LEMMA OneMoreRow ==
  ASSUME NEW rows \in Seq(Row), NEW row \in Row, Len(rows) <= MaxHistory
  PROVE  /\ Latest(Append(rows, row)) \in Seq(Row)
         /\ Len(Latest(Append(rows, row)))
              = IF Len(rows) < MaxHistory THEN Len(rows) + 1 ELSE MaxHistory
<1>1. Append(rows, row) \in Seq(Row) /\ Len(Append(rows, row)) = Len(rows) + 1
  BY AppendProperties
<1>2. Len(rows) \in Nat
  BY LenProperties
<1>3. /\ Latest(Append(rows, row)) \in Seq(Row)
      /\ Len(Latest(Append(rows, row)))
           = IF Len(Append(rows, row)) < MaxHistory THEN Len(Append(rows, row))
             ELSE MaxHistory
  BY <1>1, LatestRows
<1> QED BY <1>1, <1>2, <1>3, Numbers

-----------------------------------------------------------------------------
(* A put that CouchDB accepts: instance i claims, or settles, what it read. *)
ClaimWrite(i)  == pc[i] = "put" /\ UpToDate(i) /\ lock' = Claimed(seen[i], i)
SettleWrite(i) == pc[i] = "record" /\ UpToDate(i)
                    /\ lock' = SettledAs(seen[i], i, outcome[i])

(* The document after a claim.                                             *)
LEMMA AfterClaim ==
  ASSUME Inv, NEW i \in Instance, ClaimWrite(i)
  PROVE  /\ seen[i] = lock
         /\ lock' \in Doc /\ Len(lock'.history) <= MaxHistory
         /\ lock'.rev = lock.rev + 1 /\ lock'.attempt = lock.attempt + 1
         /\ lock'.status = "running" /\ lock'.holder = i /\ lock'.startedAt = at[i]
         /\ HistoryIsComplete'
<1>1. seen[i] = lock
  BY DEF Inv, ReadsAreCurrent, ClaimWrite, UpToDate
<1>2. lock \in Doc /\ Len(lock.history) <= MaxHistory /\ at[i] \in Nat
  BY DEF Inv, TypeOK
<1>3. lock.history \in Seq(Row) /\ Len(lock.history) \in Nat /\ lock.attempt \in Nat
  BY <1>2, LenProperties DEF Doc
<1>4. lock' = [rev |-> lock.rev + 1, status |-> "running", holder |-> i,
               startedAt |-> at[i], attempt |-> lock.attempt + 1,
               history |-> archiveRunningAttempt(lock)]
  BY <1>1 DEF ClaimWrite, Claimed
<1>5. /\ archiveRunningAttempt(lock) \in Seq(Row)
      /\ Len(archiveRunningAttempt(lock))
           = IF lock.attempt < MaxHistory THEN lock.attempt ELSE MaxHistory
  <2>1. CASE lock.status = "running"
    <3>1. [holder |-> lock.holder, status |-> "timed_out"] \in Row
      BY <2>1 DEF Inv, AttemptsAreOwned, Row
    <3>2. lock.attempt > 0
      BY <2>1 DEF Inv, AttemptsAreOwned
    <3>3. Len(lock.history)
            = IF lock.attempt - 1 < MaxHistory THEN lock.attempt - 1 ELSE MaxHistory
      BY <2>1 DEF Inv, HistoryIsComplete
    <3>4. /\ Latest(Append(lock.history, [holder |-> lock.holder, status |-> "timed_out"]))
                \in Seq(Row)
          /\ Len(Latest(Append(lock.history,
                               [holder |-> lock.holder, status |-> "timed_out"])))
               = IF Len(lock.history) < MaxHistory THEN Len(lock.history) + 1
                 ELSE MaxHistory
      BY <1>2, <1>3, <3>1, OneMoreRow
    <3>5. archiveRunningAttempt(lock) = Latest(Append(lock.history,
            [holder |-> lock.holder, status |-> "timed_out"]))
      BY <2>1 DEF archiveRunningAttempt
    <3> QED BY <1>3, <3>2, <3>3, <3>4, <3>5, Numbers
  <2>2. CASE lock.status # "running"
    BY <2>2, <1>3 DEF archiveRunningAttempt, Inv, HistoryIsComplete
  <2> QED BY <2>1, <2>2
<1>6. lock' \in Doc
  BY <1>2, <1>4, <1>5 DEF Doc
<1>7. Len(lock'.history) <= MaxHistory
  BY <1>3, <1>4, <1>5, Numbers
<1>8. HistoryIsComplete'
  BY <1>3, <1>4, <1>5 DEF HistoryIsComplete
<1> QED BY <1>1, <1>4, <1>6, <1>7, <1>8

(* The document after a settlement.                                        *)
LEMMA AfterSettle ==
  ASSUME Inv, NEW i \in Instance, SettleWrite(i)
  PROVE  /\ seen[i] = lock /\ lock.status = "running" /\ mine[i] = lock.attempt
         /\ lock' \in Doc /\ Len(lock'.history) <= MaxHistory
         /\ lock'.rev = lock.rev + 1 /\ lock'.attempt = lock.attempt
         /\ lock'.status = outcome[i] /\ lock'.status \in Settled
         /\ HistoryIsComplete'
<1>1. seen[i] = lock
  BY DEF Inv, ReadsAreCurrent, SettleWrite, UpToDate
<1>2. lock.status = "running" /\ lock.holder = i /\ mine[i] = lock.attempt
  BY <1>1 DEF Inv, AttemptsAreOwned, SettleWrite, Holds
<1>3. outcome[i] \in Settled
  BY DEF Inv, OutcomesAreReal, SettleWrite
<1>4. lock \in Doc /\ Len(lock.history) <= MaxHistory
  BY DEF Inv, TypeOK
<1>5. lock.history \in Seq(Row) /\ Len(lock.history) \in Nat /\ lock.attempt \in Nat
  BY <1>4, LenProperties DEF Doc
<1>6. [holder |-> i, status |-> outcome[i]] \in Row
  BY <1>3 DEF Row
<1> DEFINE rows == Latest(Append(lock.history, [holder |-> i, status |-> outcome[i]]))
<1>7. rows \in Seq(Row) /\ Len(rows) = IF Len(lock.history) < MaxHistory
                                       THEN Len(lock.history) + 1 ELSE MaxHistory
  BY <1>4, <1>5, <1>6, OneMoreRow
<1>8. lock' = [lock EXCEPT !.rev = lock.rev + 1, !.status = outcome[i], !.history = rows]
  BY <1>1 DEF SettleWrite, SettledAs
<1> HIDE DEF rows
<1>9. /\ lock' = [rev |-> lock.rev + 1, status |-> outcome[i], holder |-> lock.holder,
                   startedAt |-> lock.startedAt, attempt |-> lock.attempt,
                   history |-> rows]
      /\ lock'.history = rows
  BY <1>4, <1>8 DEF Doc
<1>10. lock' \in Doc
  BY <1>3, <1>4, <1>7, <1>9 DEF Doc
<1>11. Len(lock'.history) <= MaxHistory
  BY <1>5, <1>7, <1>9, Numbers
<1>12. HistoryIsComplete'
  <2>1. lock.attempt > 0
    BY <1>2 DEF Inv, AttemptsAreOwned
  <2>2. Len(lock.history)
          = IF lock.attempt - 1 < MaxHistory THEN lock.attempt - 1 ELSE MaxHistory
    BY <1>2 DEF Inv, HistoryIsComplete
  <2>3. lock'.attempt = lock.attempt /\ lock'.status # "running" /\ lock'.history = rows
    BY <1>3, <1>9 DEF Settled
  <2> QED BY <1>5, <1>7, <2>1, <2>2, <2>3, Numbers DEF HistoryIsComplete
<1> QED BY <1>1, <1>2, <1>3, <1>10, <1>11, <1>12, <1>9

-----------------------------------------------------------------------------
(* One step of an instance leaves the others where they are, and it writes *)
(* the lock only as above.                                                 *)
LEMMA InitInv == Init => Inv
<1> SUFFICES ASSUME Init PROVE Inv
  OBVIOUS
<1> USE DEF Init, Missing
<1>1. TypeOK
  BY Numbers DEF TypeOK, Doc, PcValue
<1>2. ReadsAreCurrent /\ AttemptsAreOwned /\ OutcomesAreReal
  BY DEF ReadsAreCurrent, AttemptsAreOwned, OutcomesAreReal, Settled
<1>3. ClaimsAreJustified
  BY Numbers DEF ClaimsAreJustified
<1>4. OneRunnerPerAttempt /\ WaitersSawAnOutcome
  BY DEF OneRunnerPerAttempt, WaitersSawAnOutcome
<1>5. HistoryIsComplete
  BY Numbers DEF HistoryIsComplete
<1> QED BY <1>1, <1>2, <1>3, <1>4, <1>5 DEF Inv

(* What a step does to the instances: nothing but to i, if to any.         *)
Alone(i) ==
  \A j \in Instance \ {i} :
    /\ pc'[j] = pc[j] /\ at'[j] = at[j] /\ seen'[j] = seen[j]
    /\ mine'[j] = mine[j] /\ outcome'[j] = outcome[j] /\ observed'[j] = observed[j]

(* The steps of an instance by what they do to the state the invariant is  *)
(* about; the lock is unchanged where it is not mentioned.                 *)
Begins(i) ==   \* Start, Poll: read the clock
  /\ pc[i] \in {"off", "claim", "wait"} /\ pc'[i] \in {"get", "poll"}
  /\ UNCHANGED <<lock, ghost>> /\ at'[i] = clock(i)
Reads(i) ==    \* ReadToClaim, ReadToSettle: go on to write
  /\ \/ /\ pc[i] = "get" /\ pc'[i] = "put"
        /\ lock.status # "running" \/ isExpired(lock, at[i])
     \/ pc[i] = "settle" /\ pc'[i] = "record" /\ Holds(lock, i)
  /\ UNCHANGED <<lock, ghost>> /\ seen'[i] = lock /\ at'[i] = at[i]
Claims(i) ==
  /\ ClaimWrite(i) /\ pc'[i] = "run"
  /\ mine' = [mine EXCEPT ![i] = lock'.attempt]
  /\ UNCHANGED <<outcome, observed>> /\ at'[i] = 0
Leaves(i) ==   \* to where it neither writes nor runs the callback
  /\ UNCHANGED <<mine, outcome>> /\ at'[i] \in {0, at[i]}
  /\ \/ pc'[i] \in Ended
     \/ /\ pc[i] \in {"get", "put", "poll"}
        /\ pc'[i] \in {"claim", "wait"}
  /\ \/ UNCHANGED <<lock, observed>>
     \/ ClaimWrite(i) /\ UNCHANGED observed
     \/ SettleWrite(i) /\ UNCHANGED observed
     \/ /\ UNCHANGED lock /\ lock.status \in Settled
        /\ observed' = [observed EXCEPT ![i] = lock.status]
Returns(i) ==  \* RunEnds
  /\ pc[i] = "run" /\ pc'[i] = "settle"
  /\ outcome'[i] \in Settled
  /\ UNCHANGED <<lock, mine, observed>> /\ at'[i] = at[i]

LEMMA StepKinds ==
  ASSUME TypeOK, Next
  PROVE  \/ Tick
         \/ /\ UNCHANGED <<now, skew>>
            /\ \E i \in Instance : /\ Alone(i)
                                   /\ \/ Begins(i) \/ Reads(i) \/ Claims(i)
                                      \/ Leaves(i) \/ Returns(i)
<1> USE DEF TypeOK, Alone, Goto, Forget, vars, local, ghost
<1>1. SUFFICES ASSUME NEW i \in Instance,
               Step(i) \/ RunEnds(i) \/ ClaimFails(i) \/ SettleFails(i)
                 \/ PollFails(i) \/ Crash(i)
        PROVE /\ UNCHANGED <<now, skew>> /\ Alone(i)
              /\ Begins(i) \/ Reads(i) \/ Claims(i) \/ Leaves(i) \/ Returns(i)
  BY DEF Next
<1>2. CASE Start(i) \/ Poll(i)
  BY <1>2 DEF Start, Poll, Begins
<1>3. CASE ReadToClaim(i)
  BY <1>3 DEF ReadToClaim, Reads, Leaves
<1>4. CASE Claim(i)
  BY <1>4 DEF Claim, Claims, ClaimWrite
<1>5. CASE ClaimConflict(i)
  BY <1>5 DEF ClaimConflict, Leaves
<1>6. CASE ReadToSettle(i)
  BY <1>6 DEF ReadToSettle, Reads, Leaves, Ended
<1>7. CASE Settle(i) \/ SettleConflict(i) \/ SettleFails(i)
  BY <1>7 DEF Settle, SettleConflict, SettleFails, Leaves, SettleWrite, Ended
<1>8. CASE ReadToWait(i)
  BY <1>8 DEF ReadToWait, Decide, Leaves, Ended
<1>9. CASE ClaimFails(i) \/ PollFails(i)
  BY <1>9 DEF ClaimFails, PollFails, CallFails, Leaves, ClaimWrite, Ended
<1>10. CASE Crash(i)
  BY <1>10 DEF Crash, Leaves, Ended
<1>11. CASE RunEnds(i)
  BY <1>11 DEF RunEnds, Returns
<1> QED BY <1>1, <1>2, <1>3, <1>4, <1>5, <1>6, <1>7, <1>8, <1>9, <1>10, <1>11 DEF Step

-----------------------------------------------------------------------------
LEMMA LockSteps ==
  ASSUME Inv, Next
  PROVE  \/ UNCHANGED lock
         \/ \E i \in Instance : ClaimWrite(i) \/ SettleWrite(i)
<1>1. TypeOK
  BY DEF Inv
<1> QED BY <1>1, StepKinds DEF Tick, Begins, Reads, Claims, Leaves, Returns

LEMMA TypeStep == Inv /\ Next => TypeOK'
<1> SUFFICES ASSUME Inv, Next PROVE TypeOK'
  OBVIOUS
<1>1. TypeOK
  BY DEF Inv
<1>2. lock' \in Doc /\ Len(lock'.history) <= MaxHistory
  BY <1>1, LockSteps, AfterClaim, AfterSettle DEF TypeOK
<1> DEFINE LocalsOK ==
      /\ now \in Nat /\ skew \in [Instance -> 0..MaxSkew]
      /\ pc \in [Instance -> PcValue]
      /\ at \in [Instance -> Nat] /\ seen \in [Instance -> Doc]
      /\ streak \in [Instance -> 0..MaxIoErrors]
      /\ \A i \in Instance : streak[i] = MaxIoErrors => pc[i] = "threw"
      /\ mine \in [Instance -> Nat]
      /\ outcome \in [Instance -> Settled \cup {"none"}]
      /\ observed \in [Instance -> Settled \cup {"none"}]
      /\ errors \in 0..MaxErrors
<1>3. LocalsOK'
  <2>1. LocalsOK /\ lock \in Doc
    BY <1>1 DEF TypeOK
  <2>2. Missing \in Doc
    BY DEF Missing, Doc
  <2>3. \A i \in Instance : clock(i) \in Nat
    BY <2>1, Numbers DEF clock
  <2>4. lock'.attempt \in Nat
    BY <1>2 DEF Doc
  <2>5. CASE Tick
    BY <2>1, <2>5 DEF Tick, local, ghost
  <2>6. ASSUME NEW i \in Instance,
               Step(i) \/ RunEnds(i) \/ ClaimFails(i) \/ SettleFails(i)
                 \/ PollFails(i) \/ Crash(i)
        PROVE  LocalsOK'
    <3> USE DEF Goto, Forget, local, ghost, PcValue, Ended
    <3>1. CASE Start(i) \/ Poll(i)
      BY <2>1, <2>3, <3>1 DEF Start, Poll
    <3>2. CASE ReadToClaim(i)
      BY <2>1, <2>2, <3>2, Numbers DEF ReadToClaim
    <3>3. CASE Claim(i) \/ ClaimConflict(i)
      BY <2>1, <2>2, <2>4, <3>3, Numbers DEF Claim, ClaimConflict
    <3>4. CASE ReadToSettle(i) \/ Settle(i) \/ SettleConflict(i)
      BY <2>1, <2>2, <3>4 DEF ReadToSettle, Settle, SettleConflict
    <3>5. CASE ReadToWait(i)
      BY <2>1, <2>2, <3>5, Numbers DEF ReadToWait, Decide
    <3>6. CASE ClaimFails(i) \/ PollFails(i)
      <4>1. CallFails(i, "claim") \/ CallFails(i, "wait")
        BY <3>6 DEF ClaimFails, PollFails
      <4>2. pc[i] # "threw"
        BY <3>6 DEF ClaimFails, PollFails
      <4>3. streak' \in [Instance -> 0..MaxIoErrors]
        BY <2>1, <4>1, <4>2, Numbers DEF CallFails
      <4>4. \A j \in Instance : streak'[j] = MaxIoErrors => pc'[j] = "threw"
        BY <2>1, <4>1, Numbers DEF CallFails
      <4>5. errors' \in 0..MaxErrors
        BY <2>1, <4>1, Numbers DEF CallFails
      <4>6. UNCHANGED <<now, skew, ghost>>
        BY <4>1 DEF CallFails
      <4>7. /\ pc' \in [Instance -> PcValue]
            /\ at' \in [Instance -> Nat] /\ seen' \in [Instance -> Doc]
        BY <2>1, <2>2, <4>1 DEF CallFails
      <4> QED BY <2>1, <4>3, <4>4, <4>5, <4>6, <4>7
    <3>7. CASE SettleFails(i) \/ Crash(i)
      BY <2>1, <2>2, <3>7, Numbers DEF SettleFails, Crash
    <3>8. CASE RunEnds(i)
      BY <2>1, <3>8 DEF RunEnds
    <3> QED BY <2>6, <3>1, <3>2, <3>3, <3>4, <3>5, <3>6, <3>7, <3>8 DEF Step
  <2> QED BY <2>5, <2>6 DEF Next
<1> QED BY <1>2, <1>3 DEF TypeOK

LEMMA ReadsStep == Inv /\ Next => ReadsAreCurrent'
<1> SUFFICES ASSUME Inv, Next, NEW j \in Instance, pc'[j] \in {"put", "record"}
             PROVE  /\ seen'[j].rev <= lock'.rev
                    /\ seen'[j].rev = lock'.rev => seen'[j] = lock'
  BY DEF ReadsAreCurrent
<1>1. TypeOK /\ lock.rev \in Nat /\ lock'.rev \in Nat /\ seen[j].rev \in Nat
  BY TypeStep DEF Inv, TypeOK, Doc
<1>2. CASE Tick
  BY <1>2 DEF Tick, Inv, ReadsAreCurrent, local
<1>3. ASSUME NEW i \in Instance, Alone(i),
             Begins(i) \/ Reads(i) \/ Claims(i) \/ Leaves(i) \/ Returns(i)
      PROVE  /\ seen'[j].rev <= lock'.rev
             /\ seen'[j].rev = lock'.rev => seen'[j] = lock'
  <2>1. CASE j = i
    BY <1>1, <1>3, <2>1 DEF Begins, Reads, Claims, Leaves, Returns, Ended
  <2>2. CASE j # i
    <3>1. /\ seen'[j] = seen[j] /\ seen[j].rev <= lock.rev
          /\ seen[j].rev = lock.rev => seen[j] = lock
      BY <1>3, <2>2 DEF Alone, Inv, ReadsAreCurrent
    <3>2. UNCHANGED lock \/ lock'.rev = lock.rev + 1
      BY LockSteps, AfterClaim, AfterSettle
    <3> QED BY <1>1, <3>1, <3>2
  <2> QED BY <2>1, <2>2
<1> QED BY <1>1, <1>2, <1>3, StepKinds

LEMMA JustifiedStep == Inv /\ Next => ClaimsAreJustified'
<1> SUFFICES ASSUME Inv, Next, NEW j \in Instance
             PROVE  /\ at'[j] <= now' + MaxSkew
                    /\ pc'[j] = "put" => \/ seen'[j].status # "running"
                                         \/ isExpired(seen'[j], at'[j])
  BY DEF ClaimsAreJustified, isExpired
<1>1. TypeOK /\ now \in Nat /\ at[j] \in Nat /\ skew[j] \in 0..MaxSkew
  BY DEF Inv, TypeOK
<1>2. /\ at[j] <= now + MaxSkew
      /\ pc[j] = "put" => seen[j].status # "running" \/ isExpired(seen[j], at[j])
  BY DEF Inv, ClaimsAreJustified
<1>3. CASE Tick
  BY <1>1, <1>2, <1>3, Numbers DEF Tick, local
<1>4. ASSUME UNCHANGED <<now, skew>>, NEW i \in Instance, Alone(i),
             Begins(i) \/ Reads(i) \/ Claims(i) \/ Leaves(i) \/ Returns(i)
      PROVE  /\ at'[j] <= now' + MaxSkew
             /\ pc'[j] = "put" => \/ seen'[j].status # "running"
                                  \/ isExpired(seen'[j], at'[j])
  <2>1. CASE j = i
    BY <1>1, <1>2, <1>4, <2>1, Numbers
    DEF Begins, Reads, Claims, Leaves, Returns, Ended, clock
  <2>2. CASE j # i
    BY <1>2, <1>4, <2>2 DEF Alone
  <2> QED BY <2>1, <2>2
<1> QED BY <1>1, <1>3, <1>4, StepKinds
LEMMA AttemptsStep == Inv /\ Next => AttemptsAreOwned'
<1> SUFFICES ASSUME Inv, Next PROVE AttemptsAreOwned'
  OBVIOUS
<1>1. /\ lock.attempt \in Nat /\ lock'.attempt \in Nat
      /\ \A j \in Instance : mine[j] \in Nat
  BY TypeStep DEF Inv, TypeOK, Doc
<1>2. \/ UNCHANGED lock
      \/ lock'.status = "running" /\ lock'.attempt = lock.attempt + 1
                                  /\ lock'.holder \in Instance
      \/ lock'.status # "running" /\ lock'.attempt = lock.attempt
  BY LockSteps, AfterClaim, AfterSettle DEF Settled
<1>3. lock'.status = "running" => lock'.attempt > 0 /\ lock'.holder \in Instance
  BY <1>1, <1>2 DEF Inv, AttemptsAreOwned
<1>4. ASSUME NEW j \in Instance
      PROVE  /\ mine'[j] <= lock'.attempt
             /\ pc'[j] \in {"off", "claim", "get", "put", "wait", "poll"} => mine'[j] = 0
             /\ pc'[j] \in {"run", "settle", "record"} => mine'[j] # 0
             /\ lock'.status = "running" /\ lock'.holder = j /\ mine'[j] # 0
                  => mine'[j] = lock'.attempt
             /\ pc'[j] = "record" => Holds(seen'[j], j)
  <2> USE DEF Holds
  <2>1. /\ mine[j] <= lock.attempt
        /\ pc[j] \in {"off", "claim", "get", "put", "wait", "poll"} => mine[j] = 0
        /\ pc[j] \in {"run", "settle", "record"} => mine[j] # 0
        /\ lock.status = "running" /\ lock.holder = j /\ mine[j] # 0
             => mine[j] = lock.attempt
        /\ pc[j] = "record" => Holds(seen[j], j)
    BY DEF Inv, AttemptsAreOwned
  <2>2. CASE Tick
    BY <2>1, <2>2 DEF Tick, local, ghost
  <2>3. ASSUME NEW i \in Instance, Alone(i),
               Begins(i) \/ Reads(i) \/ Claims(i) \/ Leaves(i) \/ Returns(i)
        PROVE  /\ mine'[j] <= lock'.attempt
               /\ pc'[j] \in {"off", "claim", "get", "put", "wait", "poll"} => mine'[j] = 0
               /\ pc'[j] \in {"run", "settle", "record"} => mine'[j] # 0
               /\ lock'.status = "running" /\ lock'.holder = j /\ mine'[j] # 0
                    => mine'[j] = lock'.attempt
               /\ pc'[j] = "record" => Holds(seen'[j], j)
    <3>1. \/ UNCHANGED lock
          \/ lock'.status = "running" /\ lock'.holder = i
          \/ lock'.status # "running"
      BY <2>3, AfterClaim, AfterSettle
      DEF Begins, Reads, Claims, Leaves, Returns, Settled
    <3>2. CASE j # i
      BY <1>1, <1>2, <2>1, <2>3, <3>1, <3>2 DEF Alone
    <3>3. CASE j = i
      <4>1. CASE Begins(i) \/ Reads(i) \/ Returns(i)
        BY <2>1, <3>3, <4>1 DEF Begins, Reads, Returns, ghost
      <4>2. CASE Claims(i)
        <5>1. mine'[i] = lock'.attempt
          BY <4>2 DEF Claims, Inv, TypeOK
        <5>2. lock'.attempt = lock.attempt + 1
          BY <4>2, AfterClaim DEF Claims
        <5> QED BY <1>1, <3>3, <4>2, <5>1, <5>2 DEF Claims
      <4>3. CASE Leaves(i)
        <5>1. ClaimWrite(i) => mine[i] = 0
          BY <2>1, <3>3 DEF ClaimWrite
        <5>2. \/ UNCHANGED lock
              \/ ClaimWrite(i) /\ lock'.attempt = lock.attempt + 1
              \/ lock'.status # "running" /\ lock'.attempt = lock.attempt
          BY <4>3, AfterClaim, AfterSettle DEF Leaves, Settled
        <5>3. mine'[j] = mine[j]
          BY <4>3 DEF Leaves
        <5>4. \/ pc'[j] \in Ended
              \/ pc'[j] \in {"claim", "wait"} /\ mine[j] = 0
          BY <2>1, <3>3, <4>3 DEF Leaves
        <5> QED BY <1>1, <2>1, <3>3, <5>1, <5>2, <5>3, <5>4 DEF Ended
      <4> QED BY <2>3, <4>1, <4>2, <4>3
    <3> QED BY <3>2, <3>3
  <2>4. TypeOK
    BY DEF Inv
  <2> QED BY <2>2, <2>3, <2>4, StepKinds
<1> QED BY <1>3, <1>4 DEF AttemptsAreOwned

LEMMA OutcomesStep == Inv /\ Next => OutcomesAreReal' /\ WaitersSawAnOutcome'
<1> SUFFICES ASSUME Inv, Next PROVE OutcomesAreReal' /\ WaitersSawAnOutcome'
  OBVIOUS
<1>1. TypeOK /\ OutcomesAreReal /\ WaitersSawAnOutcome
  BY DEF Inv
<1>2. CASE Tick
  BY <1>1, <1>2 DEF Tick, local, ghost, OutcomesAreReal, WaitersSawAnOutcome
<1>3. ASSUME NEW i \in Instance, Alone(i),
             Begins(i) \/ Reads(i) \/ Claims(i) \/ Leaves(i) \/ Returns(i)
      PROVE  OutcomesAreReal' /\ WaitersSawAnOutcome'
  (* An outcome, once there, stays: only Returns sets one.                 *)
  <2>1. \A j \in Instance : outcome[j] # "none" => outcome'[j] = outcome[j]
    BY <1>1, <1>3
    DEF Alone, OutcomesAreReal, Unsettled, Begins, Reads, Claims, Leaves, Returns,
       ghost
  <2>2. \A j \in Instance : /\ pc'[j] \in Unsettled => outcome'[j] = "none"
                            /\ pc'[j] \in {"settle", "record"} => outcome'[j] \in Settled
    <3> SUFFICES ASSUME NEW j \in Instance
                 PROVE  /\ pc'[j] \in Unsettled => outcome'[j] = "none"
                        /\ pc'[j] \in {"settle", "record"} => outcome'[j] \in Settled
      OBVIOUS
    <3>1. CASE j # i
      BY <1>1, <1>3, <3>1 DEF Alone, OutcomesAreReal
    <3> USE DEF Unsettled
    <3>2. CASE j = i /\ ~Claims(i)
      BY <1>1, <1>3, <3>2 DEF OutcomesAreReal, Begins, Reads, Leaves, Returns, ghost, Ended
    <3>3. CASE j = i /\ Claims(i)
      <4>1. outcome[i] = "none"
        BY <3>3, <1>1 DEF Claims, ClaimWrite, OutcomesAreReal
      <4> QED BY <3>3, <4>1 DEF Claims
    <3> QED BY <3>1, <3>2, <3>3
  <2>3. lock'.status \in Settled => \E j \in Instance : outcome'[j] = lock'.status
    <3>1. CASE UNCHANGED lock
      BY <1>1, <2>1, <3>1 DEF OutcomesAreReal, Settled
    <3>2. CASE \E k \in Instance : ClaimWrite(k)
      BY <3>2, AfterClaim DEF Settled
    <3>3. CASE \E k \in Instance : SettleWrite(k)
      BY <2>1, <3>3, AfterSettle DEF Settled
    <3> QED BY <3>1, <3>2, <3>3, LockSteps
  <2>4. \A j \in Instance : \/ observed'[j] = observed[j]
                            \/ lock.status \in Settled /\ observed'[j] = lock.status
    BY <1>1, <1>3 DEF Alone, TypeOK, Begins, Reads, Claims, Leaves, Returns, ghost
  <2>5. WaitersSawAnOutcome'
    BY <1>1, <2>1, <2>4 DEF WaitersSawAnOutcome, OutcomesAreReal, Settled
  <2> QED BY <2>2, <2>3, <2>5 DEF OutcomesAreReal
<1> QED BY <1>1, <1>2, <1>3, StepKinds

LEMMA RunnersStep == Inv /\ Next => OneRunnerPerAttempt'
<1> SUFFICES ASSUME Inv, Next PROVE OneRunnerPerAttempt'
  OBVIOUS
<1>1. /\ TypeOK /\ OneRunnerPerAttempt
      /\ lock.attempt \in Nat /\ \A j \in Instance : mine[j] \in Nat
      /\ \A j \in Instance : mine[j] <= lock.attempt
  BY DEF Inv, TypeOK, Doc, AttemptsAreOwned
<1>2. CASE UNCHANGED mine
  BY <1>1, <1>2 DEF OneRunnerPerAttempt
<1>3. ASSUME NEW i \in Instance, Claims(i) PROVE OneRunnerPerAttempt'
  <2>1. lock'.attempt = lock.attempt + 1
    BY <1>3, AfterClaim DEF Claims
  <2>2. /\ mine'[i] = lock.attempt + 1
        /\ \A j \in Instance \ {i} : mine'[j] = mine[j]
    BY <1>1, <1>3, <2>1 DEF Claims, TypeOK
  <2> QED BY <1>1, <2>2 DEF OneRunnerPerAttempt
<1> QED BY <1>1, <1>2, <1>3, StepKinds
        DEF Tick, Begins, Reads, Leaves, Returns, ghost

LEMMA HistoryStep == Inv /\ Next => HistoryIsComplete'
BY LockSteps, AfterClaim, AfterSettle DEF Inv, HistoryIsComplete

LEMMA InvStep == Inv /\ [Next]_vars => Inv'
<1>1. CASE Next
  BY <1>1, TypeStep, ReadsStep, JustifiedStep, AttemptsStep, OutcomesStep, RunnersStep,
     HistoryStep DEF Inv
<1>2. CASE UNCHANGED vars
  BY <1>2 DEF vars, local, ghost, Inv, TypeOK, ReadsAreCurrent, ClaimsAreJustified,
     AttemptsAreOwned, OutcomesAreReal, OneRunnerPerAttempt, HistoryIsComplete,
     WaitersSawAnOutcome, isExpired, Holds
<1> QED BY <1>1, <1>2

-----------------------------------------------------------------------------
LEMMA Invariance == Spec => []Inv
BY InitInv, InvStep, PTL DEF Spec

(* The variables keep their types and the history its limit.               *)
THEOREM TypeCorrect == Spec => []TypeOK
BY Invariance, PTL DEF Inv

(* Exclusion: an attempt is run by one instance (the revisioned put of     *)
(* tryClaim).                                                              *)
THEOREM AttemptsAreExclusive == Spec => []OneRunnerPerAttempt
BY Invariance, PTL DEF Inv

(* The history on the lock leaves no attempt out (archiveRunningAttempt and *)
(* settleLock).                                                            *)
THEOREM LedgerCorrect == Spec => []HistoryIsComplete
BY Invariance, PTL DEF Inv

(* A waiter attaches the full API only after a real run of the migrations. *)
THEOREM WaitersAreRight == Spec => []WaitersSawAnOutcome
BY Invariance, PTL DEF Inv

(* No steal before its time, whatever the delays between the awaits of     *)
(* tryClaim and whatever clock within MaxSkew each host has.               *)
THEOREM NoEarlySteal == Spec => StealsOnlyExpired
<1>1. Inv /\ [Next]_vars =>
        (lock.status = "running" /\ lock'.attempt # lock.attempt
           => now + MaxSkew >= lock.startedAt + Timeout)
  <2> SUFFICES ASSUME Inv, [Next]_vars, lock.status = "running",
                      lock'.attempt # lock.attempt
               PROVE  now + MaxSkew >= lock.startedAt + Timeout
    OBVIOUS
  <2>1. PICK i \in Instance : ClaimWrite(i)
    BY LockSteps, AfterSettle DEF vars
  <2>2. seen[i] = lock
    BY <2>1, AfterClaim
  <2>3. at[i] >= lock.startedAt + Timeout /\ at[i] <= now + MaxSkew
    BY <2>1, <2>2 DEF Inv, ClaimsAreJustified, ClaimWrite, isExpired
  <2>4. now \in Nat /\ at[i] \in Nat /\ lock.startedAt \in Nat
    BY DEF Inv, TypeOK, Doc
  <2> QED BY <2>3, <2>4, Numbers
<1> QED BY <1>1, Invariance, PTL DEF Spec, StealsOnlyExpired

(* A stolen doer settles nothing (the guard of settleLock and the revision *)
(* its put carries).                                                       *)
THEOREM SettlementIsTheRunners == Spec => SettledByItsRunner
<1>1. Inv /\ [Next]_vars =>
        (lock.status = "running" /\ lock'.status \in Settled
           => /\ lock'.attempt = lock.attempt
              /\ \E i \in Instance : mine[i] = lock.attempt /\ outcome[i] = lock'.status)
  <2> SUFFICES ASSUME Inv, [Next]_vars, lock.status = "running", lock'.status \in Settled
               PROVE  /\ lock'.attempt = lock.attempt
                      /\ \E i \in Instance : /\ mine[i] = lock.attempt
                                             /\ outcome[i] = lock'.status
    OBVIOUS
  <2>1. PICK i \in Instance : SettleWrite(i)
    BY LockSteps, AfterClaim DEF vars, Settled
  <2> QED BY <2>1, AfterSettle
<1> QED BY <1>1, Invariance, PTL DEF Spec, SettledByItsRunner
=============================================================================
