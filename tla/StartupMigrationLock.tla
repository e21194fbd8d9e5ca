------------------------ MODULE StartupMigrationLock ------------------------
(***************************************************************************)
(* The lock that lets one replica of the API run the startup migrations    *)
(* while the others wait (api/src/couchdb/startupMigrationLock.ts): one    *)
(* CouchDB document, written with the revision it was read at.             *)
(*                                                                         *)
(* An Instance is one process: createStartupInstanceId is fresh for each.  *)
(* Each await of the code separates two actions, so an instance may be     *)
(* slow between reading its clock, reading the lock and writing it; it may *)
(* die anywhere; a call may fail, and a put that failed may have committed. *)
(***************************************************************************)
EXTENDS Naturals, Sequences, FiniteSets

CONSTANTS
  Instance,
  Timeout,       \* timeoutMs, in ticks
  MaxSkew,       \* how far the clocks of two hosts are apart
  MaxHistory,    \* MAX_LOCK_HISTORY
  MaxIoErrors,   \* maxIoErrors: failures in a row before giving up
  MaxErrors,     \* bound: failures in a behaviour
  MaxCrashes,    \* bound: crashes in a behaviour
  NoInstance

ASSUME NumbersAreNatural ==
  /\ {Timeout, MaxSkew, MaxErrors, MaxCrashes} \subseteq Nat
  /\ {MaxHistory, MaxIoErrors} \subseteq Nat \ {0}
ASSUME NoInstanceIsNew == NoInstance \notin Instance

VARIABLES
  lock,      \* the document; status "missing" until the first claim
  now, skew, \* time, and by how much each host's clock is ahead of it
  pc,        \* what each instance is about to do
  at,        \* nowMs: the clock as it read it last
  seen,      \* the lock as it read it last
  streak,    \* consecutiveClaimErrors or consecutiveErrors
  mine,      \* the attempt whose callback it runs or ran; 0: none
  outcome,   \* how its callback ended
  observed,  \* what it returned as a waiter
  errors     \* count for the bound MaxErrors

local == <<at, seen, streak>>
ghost == <<mine, outcome, observed>>
vars  == <<lock, now, skew, pc, local, ghost, errors>>

Settled  == {"complete", "failed"}
Ended    == {"done", "threw", "dead"}
clock(i) == now + skew[i]
Goto(i, step) == pc' = [pc EXCEPT ![i] = step]

-----------------------------------------------------------------------------
Missing == [rev |-> 0, status |-> "missing", holder |-> NoInstance, startedAt |-> 0,
            attempt |-> 0, history |-> <<>>]

Init ==
  /\ lock = Missing
  /\ now = 0 /\ skew \in [Instance -> 0..MaxSkew]
  /\ pc = [i \in Instance |-> "off"]
  /\ at = [i \in Instance |-> 0]
  /\ seen = [i \in Instance |-> Missing]
  /\ streak = [i \in Instance |-> 0]
  /\ mine = [i \in Instance |-> 0]
  /\ outcome = [i \in Instance |-> "none"]
  /\ observed = [i \in Instance |-> "none"]
  /\ errors = 0

(* Time is followed while it can still matter to somebody: until the lock  *)
(* is expired for every host, or a claim being made would expire.          *)
TimeMatters ==
  \/ lock.status = "running" /\ now < lock.startedAt + Timeout + MaxSkew
  \/ \E i \in Instance : pc[i] \in {"get", "put"} /\ now < at[i] + Timeout

Tick ==
  /\ TimeMatters
  /\ now' = now + 1
  /\ UNCHANGED <<lock, skew, pc, local, ghost, errors>>

-----------------------------------------------------------------------------
(* Mutant: off by one, a lock may be stolen too early.                     *)
ExpiredEarly(doc, t) == t + 1 >= doc.startedAt + Timeout

isExpired(doc, t) == t >= doc.startedAt + Timeout

(* Mutant: the history grows without limit.                                *)
AllRows(rows) == rows

Latest(rows) ==
  SubSeq(rows, IF Len(rows) > MaxHistory THEN Len(rows) - MaxHistory + 1 ELSE 1,
         Len(rows))

(* Mutant: the attempt a claim steals from leaves no row.                  *)
ForgetStolen(doc) == doc.history

archiveRunningAttempt(doc) ==
  IF doc.status = "running"
  THEN Latest(Append(doc.history, [holder |-> doc.holder, status |-> "timed_out"]))
  ELSE doc.history

Claimed(doc, i) ==
  [rev |-> doc.rev + 1, status |-> "running", holder |-> i, startedAt |-> at[i],
   attempt |-> doc.attempt + 1, history |-> archiveRunningAttempt(doc)]

SettledAs(doc, i, status) ==
  [doc EXCEPT !.rev = doc.rev + 1, !.status = status,
     !.history = Latest(Append(@, [holder |-> i, status |-> status]))]

(* Mutant: the put does not carry the revision that was read.              *)
AnyRevision(i) == TRUE

(* CouchDB accepts a put that carries the current revision.                *)
UpToDate(i) == seen[i].rev = lock.rev

(* What was read goes out of scope.                                        *)
Forget(i) == at' = [at EXCEPT ![i] = 0] /\ seen' = [seen EXCEPT ![i] = Missing]

-----------------------------------------------------------------------------
(* withStartupMigrationLock, and its loop back to tryClaim: read the clock. *)
Start(i) ==
  /\ pc[i] \in {"off", "claim"}
  /\ Goto(i, "get")
  /\ at' = [at EXCEPT ![i] = clock(i)]
  /\ UNCHANGED <<lock, now, skew, seen, streak, ghost, errors>>

(* tryClaim: read the lock; wait for a live doer.                          *)
ReadToClaim(i) ==
  /\ pc[i] = "get"
  /\ IF lock.status = "running" /\ ~isExpired(lock, at[i])
     THEN Goto(i, "wait") /\ Forget(i) /\ streak' = [streak EXCEPT ![i] = 0]
     ELSE Goto(i, "put") /\ seen' = [seen EXCEPT ![i] = lock] /\ UNCHANGED <<at, streak>>
  /\ UNCHANGED <<lock, now, skew, ghost, errors>>

Claim(i) ==
  /\ pc[i] = "put" /\ UpToDate(i)
  /\ lock' = Claimed(seen[i], i)
  /\ mine' = [mine EXCEPT ![i] = lock'.attempt]
  /\ streak' = [streak EXCEPT ![i] = 0]
  /\ Goto(i, "run") /\ Forget(i)
  /\ UNCHANGED <<now, skew, outcome, observed, errors>>

(* 409: somebody else wrote the lock first.                                *)
ClaimConflict(i) ==
  /\ pc[i] = "put" /\ ~UpToDate(i)
  /\ streak' = [streak EXCEPT ![i] = 0]
  /\ Goto(i, "wait") /\ Forget(i)
  /\ UNCHANGED <<lock, now, skew, ghost, errors>>

(* throwIfIoBudgetExceeded, or back to retry after a pause.                *)
CallFails(i, retry) ==
  /\ errors < MaxErrors /\ errors' = errors + 1
  /\ streak' = [streak EXCEPT ![i] = @ + 1]
  /\ Goto(i, IF streak[i] + 1 >= MaxIoErrors THEN "threw" ELSE retry)
  /\ Forget(i)
  /\ UNCHANGED <<now, skew, ghost>>

(* The get or the put of tryClaim fails; the put may have been carried out. *)
ClaimFails(i) ==
  /\ pc[i] \in {"get", "put"}
  /\ CallFails(i, "claim")
  /\ \/ UNCHANGED lock
     \/ pc[i] = "put" /\ UpToDate(i) /\ lock' = Claimed(seen[i], i)

-----------------------------------------------------------------------------
(* runAsDoer: the callback returns or throws.                              *)
RunEnds(i) ==
  /\ pc[i] = "run"
  /\ \E status \in Settled : outcome' = [outcome EXCEPT ![i] = status]
  /\ Goto(i, "settle")
  /\ UNCHANGED <<lock, now, skew, local, mine, observed, errors>>

(* Mutant: settle whatever attempt is running.                             *)
AnyHolder(doc, i) == doc.status = "running"

Holds(doc, i) == doc.status = "running" /\ doc.holder = i

(* settleLock: nothing to settle for an instance that lost the lock.       *)
ReadToSettle(i) ==
  /\ pc[i] = "settle"
  /\ IF Holds(lock, i)
     THEN Goto(i, "record") /\ seen' = [seen EXCEPT ![i] = lock]
     ELSE Goto(i, "done") /\ UNCHANGED seen
  /\ UNCHANGED <<lock, now, skew, at, streak, ghost, errors>>

Settle(i) ==
  /\ pc[i] = "record" /\ UpToDate(i)
  /\ lock' = SettledAs(seen[i], i, outcome[i])
  /\ Goto(i, "done") /\ Forget(i)
  /\ UNCHANGED <<now, skew, streak, ghost, errors>>

SettleConflict(i) ==
  /\ pc[i] = "record" /\ ~UpToDate(i)
  /\ Goto(i, "done") /\ Forget(i)
  /\ UNCHANGED <<lock, now, skew, streak, ghost, errors>>

(* The errors of settleLock are swallowed.                                 *)
SettleFails(i) ==
  /\ pc[i] \in {"settle", "record"}
  /\ errors < MaxErrors /\ errors' = errors + 1
  /\ Goto(i, "done") /\ Forget(i)
  /\ \/ UNCHANGED lock
     \/ pc[i] = "record" /\ UpToDate(i) /\ lock' = SettledAs(seen[i], i, outcome[i])
  /\ UNCHANGED <<now, skew, streak, ghost>>

-----------------------------------------------------------------------------
(* waitForDoer: after a pause, read the clock and then the lock.           *)
Poll(i) ==
  /\ pc[i] = "wait"
  /\ Goto(i, "poll")
  /\ at' = [at EXCEPT ![i] = clock(i)]
  /\ UNCHANGED <<lock, now, skew, seen, streak, ghost, errors>>

(* Mutant: a waiter whose patience ends takes the migrations as done.      *)
GiveUpAndAttach(i) ==
  IF lock.status \in Settled \/ isExpired(lock, at[i])
  THEN Goto(i, "done") /\ observed' = [observed EXCEPT ![i] = "complete"]
  ELSE Goto(i, "wait") /\ UNCHANGED observed

(* Mutant: a waiter polls until the doer settles, dead or alive.           *)
WaitPatiently(i) ==
  IF lock.status \in Settled
  THEN Goto(i, "done") /\ observed' = [observed EXCEPT ![i] = lock.status]
  ELSE Goto(i, "wait") /\ UNCHANGED observed

(* Proceed once the doer has settled; try to claim an expired lock.        *)
Decide(i) ==
  IF lock.status \in Settled
  THEN Goto(i, "done") /\ observed' = [observed EXCEPT ![i] = lock.status]
  ELSE /\ Goto(i, IF isExpired(lock, at[i]) THEN "claim" ELSE "wait")
       /\ UNCHANGED observed

ReadToWait(i) ==
  /\ pc[i] = "poll" /\ lock.status # "missing"
  /\ streak' = [streak EXCEPT ![i] = 0]
  /\ Decide(i) /\ Forget(i)
  /\ UNCHANGED <<lock, now, skew, mine, outcome, errors>>

PollFails(i) ==
  /\ pc[i] = "poll"
  /\ CallFails(i, "wait")
  /\ UNCHANGED lock

Crash(i) ==
  /\ pc[i] \notin Ended \cup {"off"}
  /\ Cardinality({j \in Instance : pc[j] = "dead"}) < MaxCrashes
  /\ Goto(i, "dead") /\ Forget(i)
  /\ UNCHANGED <<lock, now, skew, streak, ghost, errors>>

-----------------------------------------------------------------------------
Step(i) ==
  \/ Start(i) \/ ReadToClaim(i) \/ Claim(i) \/ ClaimConflict(i)
  \/ ReadToSettle(i) \/ Settle(i) \/ SettleConflict(i)
  \/ Poll(i) \/ ReadToWait(i)

Next ==
  \/ Tick
  \/ \E i \in Instance :
       Step(i) \/ RunEnds(i) \/ ClaimFails(i) \/ SettleFails(i) \/ PollFails(i)
               \/ Crash(i)

(* Time passes, and an instance that has started and does not die goes on. *)
(* Nothing says that a callback ends.                                      *)
Fairness == WF_vars(Tick) /\ \A i \in Instance : WF_vars(pc[i] # "off" /\ Step(i))

Spec == Init /\ [][Next]_vars /\ Fairness

-----------------------------------------------------------------------------
Row  == [holder : Instance, status : Settled \cup {"timed_out"}]
Doc  == [rev : Nat, status : Settled \cup {"missing", "running"},
         holder : Instance \cup {NoInstance}, startedAt : Nat, attempt : Nat,
         history : Seq(Row)]
PcValue == {"off", "claim", "get", "put", "run", "settle", "record", "wait", "poll"}
           \cup Ended

TypeOK ==
  /\ lock \in Doc /\ Len(lock.history) <= MaxHistory
  /\ now \in Nat /\ skew \in [Instance -> 0..MaxSkew]
  /\ pc \in [Instance -> PcValue]
  /\ at \in [Instance -> Nat] /\ seen \in [Instance -> Doc]
  /\ streak \in [Instance -> 0..MaxIoErrors]
  /\ \A i \in Instance : streak[i] = MaxIoErrors => pc[i] = "threw"
  /\ mine \in [Instance -> Nat]
  /\ outcome \in [Instance -> Settled \cup {"none"}]
  /\ observed \in [Instance -> Settled \cup {"none"}]
  /\ errors \in 0..MaxErrors

(* The history is a complete ledger up to its limit: however claims, steals *)
(* and settlements race, every attempt but one still running left one row. *)
HistoryIsComplete ==
  LET ended == IF lock.status = "running" THEN lock.attempt - 1 ELSE lock.attempt
  IN  Len(lock.history) = IF ended < MaxHistory THEN ended ELSE MaxHistory

(* Exclusion: no two instances ever run the callback under the same        *)
(* attempt, so whoever runs it next to another has stolen a later one.     *)
OneRunnerPerAttempt ==
  \A i, j \in Instance : mine[i] # 0 /\ mine[i] = mine[j] => i = j

(* A waiter goes on to attach the full API only when some instance has run *)
(* the migrations to the end with the status the waiter returns.           *)
WaitersSawAnOutcome ==
  \A i \in Instance : observed[i] # "none" =>
    \E j \in Instance : outcome[j] = observed[i]

(* A running attempt is stolen no sooner than Timeout after its claim, give *)
(* or take the skew of the clocks; also by an instance that was slow       *)
(* between reading the clock, reading the lock and writing it.             *)
StealsOnlyExpired ==
  [][lock.status = "running" /\ lock'.attempt # lock.attempt
       => now + MaxSkew >= lock.startedAt + Timeout]_vars

(* A running attempt is settled by the instance that ran its callback, with *)
(* how that ended: a doer whose lock was stolen settles nothing.           *)
SettledByItsRunner ==
  [][lock.status = "running" /\ lock'.status \in Settled
       => /\ lock'.attempt = lock.attempt
          /\ \E i \in Instance : mine[i] = lock.attempt /\ outcome[i] = lock'.status]_vars

(* Though a doer may hang, die or fail to settle, whoever has started ends *)
(* up running the migrations itself or going on without (waitForDoer's     *)
(* timeout and steal).                                                     *)
NobodyWaitsForEver ==
  \A i \in Instance : pc[i] = "get" ~> pc[i] \in {"run"} \cup Ended

-----------------------------------------------------------------------------
(* What makes the properties inductive.                                    *)

(* What an instance is about to write over, if the put will be accepted.   *)
ReadsAreCurrent ==
  \A i \in Instance : pc[i] \in {"put", "record"} =>
    /\ seen[i].rev <= lock.rev
    /\ seen[i].rev = lock.rev => seen[i] = lock

(* An instance about to claim read a lock that is free or expired.         *)
ClaimsAreJustified ==
  /\ \A i \in Instance : at[i] <= now + MaxSkew
  /\ \A i \in Instance : pc[i] = "put" =>
       seen[i].status # "running" \/ isExpired(seen[i], at[i])

(* Who has claimed which attempt; a claim whose answer was lost is nobody's. *)
AttemptsAreOwned ==
  /\ lock.status = "running" => lock.attempt > 0 /\ lock.holder \in Instance
  /\ \A i \in Instance : mine[i] <= lock.attempt
  /\ \A i \in Instance :
       pc[i] \in {"off", "claim", "get", "put", "wait", "poll"} => mine[i] = 0
  /\ \A i \in Instance : pc[i] \in {"run", "settle", "record"} => mine[i] # 0
  /\ \A i \in Instance : lock.status = "running" /\ lock.holder = i /\ mine[i] # 0
                           => mine[i] = lock.attempt
  /\ \A i \in Instance : pc[i] = "record" => Holds(seen[i], i)

Unsettled == {"off", "claim", "get", "put", "wait", "poll", "run"}

OutcomesAreReal ==
  /\ \A i \in Instance : pc[i] \in Unsettled => outcome[i] = "none"
  /\ \A i \in Instance : pc[i] \in {"settle", "record"} => outcome[i] \in Settled
  /\ lock.status \in Settled => \E i \in Instance : outcome[i] = lock.status

Inv ==
  /\ TypeOK /\ ReadsAreCurrent /\ ClaimsAreJustified /\ AttemptsAreOwned
  /\ OutcomesAreReal /\ OneRunnerPerAttempt /\ HistoryIsComplete
  /\ WaitersSawAnOutcome
=============================================================================
