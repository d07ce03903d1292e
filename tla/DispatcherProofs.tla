-------------------------- MODULE DispatcherProofs --------------------------
(***************************************************************************)
(* Proofs about Dispatcher for every set of occurrences, workers and       *)
(* cycles, every retry policy and every clock lag.                         *)
(***************************************************************************)
EXTENDS Dispatcher, NumberLemmas, TLAPS

\* Program counters at which a cycle has a row in hand.
Active == {"defer", "begin", "calling", "reached", "persist", "release"}

\* A cycle that is processing a row knows which one.
WorkInHand == \A c \in Cycles : pc[c] \in Active => work[c] \in DispatchWork

TypeInv == TypeOK /\ WorkInHand

-----------------------------------------------------------------------------
(* What the row updates of the SQL statements yield.                       *)

\* A clock reading is a natural number.
LEMMA ReadingIsNat ==
  ASSUME clock \in Nat, NEW now \in Readings
  PROVE  now \in Nat
BY DEF Readings

\* Clearing the claim touches nothing else.
LEMMA UnclaimedType ==
  ASSUME NEW row \in OutboxRow
  PROVE  /\ Unclaimed(row) \in OutboxColumns
         /\ Unclaimed(row).attempts = row.attempts
         /\ Unclaimed(row).owner = None /\ Unclaimed(row).expiresAt = NoTime
<1>1. row \in OutboxColumns /\ NoTime \in Int /\ None \in Workers \cup {None}
  BY DEF OutboxRow, NoTime
<1>2. Unclaimed(row) \in OutboxColumns
  BY <1>1, Zenon DEF Unclaimed, OutboxColumns
<1>3. QED
  BY <1>1, <1>2, Zenon DEF Unclaimed, OutboxColumns

\* transitionDispatch leaves a row the schema accepts.
LEMMA SettledType ==
  ASSUME NEW row \in OutboxRow, NEW s \in OutboxStatus \ {"dispatching"}, NEW t \in Int
  PROVE  /\ Settled(row, s, t) \in OutboxRow
         /\ Settled(row, s, t).status = s
         /\ Settled(row, s, t).attempts = row.attempts
         /\ Settled(row, s, t).owner = None
         /\ Settled(row, s, t).nextAttemptAt = t
<1> DEFINE free == Unclaimed(row)
<1>1. /\ free \in OutboxColumns /\ free.attempts = row.attempts
      /\ free.owner = None /\ free.expiresAt = NoTime
  BY UnclaimedType, Zenon
<1>2. Settled(row, s, t) = [free EXCEPT !.status = s, !.nextAttemptAt = t]
  BY Zenon DEF Settled
<1> HIDE DEF free
<1>3. [free EXCEPT !.status = s, !.nextAttemptAt = t] \in OutboxColumns
  BY <1>1, Zenon DEF OutboxColumns
<1>4. QED
  BY <1>1, <1>2, <1>3, Zenon DEF OutboxRow, OutboxColumns

\* RecoverExhaustedDispatches settles a row as failed.
LEMMA RecoveredType ==
  ASSUME NEW row \in OutboxRow, NEW now \in Int
  PROVE  Recovered(row, now) = Settled(row, "failed", now)
BY Zenon DEF Recovered, Settled

\* ClaimDispatches leaves a row the schema accepts.
LEMMA ClaimedType ==
  ASSUME NEW row \in OutboxRow, NEW w \in Workers, NEW now \in Nat
  PROVE  /\ Claimed(row, w, now) \in OutboxRow
         /\ Claimed(row, w, now).status = "dispatching"
         /\ Claimed(row, w, now).owner = w
         /\ Claimed(row, w, now).expiresAt = now + ClaimTTL
         /\ Claimed(row, w, now).attempts = row.attempts
         /\ Claimed(row, w, now).firstAttemptAt = row.firstAttemptAt
<1>1. now + ClaimTTL \in Int /\ now + ClaimTTL # NoTime /\ w # None
  BY DispatcherAssumption DEF NoTime
<1>2. row \in OutboxColumns
  BY Zenon DEF OutboxRow
<1>3. Claimed(row, w, now) \in OutboxColumns
  BY <1>1, <1>2, Zenon DEF Claimed, OutboxColumns, OutboxStatus
<1>4. QED
  BY <1>1, <1>2, <1>3, Zenon DEF Claimed, OutboxRow, OutboxColumns

\* BeginDispatch leaves a row the schema accepts, with one more attempt.
LEMMA BegunType ==
  ASSUME NEW row \in OutboxRow, NEW now \in Nat
  PROVE  /\ Begun(row, now) \in OutboxRow
         /\ Begun(row, now).status = row.status
         /\ Begun(row, now).owner = row.owner
         /\ Begun(row, now).attempts = row.attempts + 1
         /\ Begun(row, now).expiresAt = row.expiresAt
         /\ Begun(row, now).nextAttemptAt = row.nextAttemptAt
<1>1. row \in OutboxColumns
  BY Zenon DEF OutboxRow
<1> DEFINE first == IF row.firstAttemptAt = NoTime THEN now ELSE row.firstAttemptAt
<1>2. Begun(row, now) = [row EXCEPT !.attempts = row.attempts + 1, !.firstAttemptAt = first]
  BY Zenon DEF Begun
<1>3. first \in Int /\ row.attempts + 1 \in Nat
  BY <1>1 DEF OutboxColumns
<1> HIDE DEF first
<1>4. [row EXCEPT !.attempts = row.attempts + 1, !.firstAttemptAt = first] \in OutboxColumns
  BY <1>1, <1>3, Zenon DEF OutboxColumns
<1>5. QED
  BY <1>1, <1>2, <1>4, Zenon DEF OutboxRow, OutboxColumns

\* The equation of the shifts up to k.
Doubling(f, k) == f = [i \in 0..k |-> IF i = 0 THEN 1 ELSE 2 * f[i - 1]]

\* It has a solution, found one shift at a time.
LEMMA DoublingExists == \A k \in Nat : \E f : Doubling(f, k)
<1> SUFFICES ASSUME NEW k \in Nat PROVE \E f : Doubling(f, k)
  BY Zenon
<1> DEFINE step == [x \in Nat |-> 2 * x]
<1>1. step \in [Nat -> Nat] /\ 1 \in Nat
  OBVIOUS
<1>2. PICK f \in [0..k -> Nat] : Iterating(f, k, 1, step)
  <2> HIDE DEF step
  <2> QED
    BY <1>1, Iterates, Zenon
<1>3. \A i \in 0..k : f[i] = IF i = 0 THEN 1 ELSE 2 * f[i - 1]
  <2>1. \A i \in 0..k : i # 0 => f[i - 1] \in Nat
    OBVIOUS
  <2> QED
    BY <1>2, <2>1, Zenon DEF Iterating
<1> QED
  BY <1>3, Zenon DEF Doubling

\* A shift of one is positive.
LEMMA ShiftedType ==
  ASSUME NEW k \in Nat
  PROVE  Shifted(k) \in Nat \ {0}
<1> DEFINE f == CHOOSE g : Doubling(g, k)
<1>1. Shifted(k) = f[k]
  BY Zenon DEF Shifted, Doubling
<1>2. Doubling(f, k)
  BY DoublingExists, Zenon
<1> HIDE DEF f
<1> DEFINE Bad == {i \in 0..k : f[i] \notin Nat \ {0}}
<1>3. ASSUME Bad # {} PROVE FALSE
  <2>1. PICK i \in Bad : \A j \in Bad : i <= j
    <3>1. Bad \subseteq Nat
      OBVIOUS
    <3> QED
      BY <1>3, <3>1, LeastNat, Zenon
  <2>2. i \in 0..k /\ f[i] = IF i = 0 THEN 1 ELSE 2 * f[i - 1]
    BY <1>2, Zenon DEF Doubling
  <2>3. CASE i # 0
    <3>1. i - 1 \in 0..k /\ i - 1 \notin Bad
      BY <2>1, <2>2, <2>3
    <3> QED
      BY <2>2, <2>3, <3>1
  <2> QED
    BY <2>2, <2>3
<1> QED
  BY <1>1, <1>3

\* The ceiling of a delay never exceeds max_backoff_seconds.
LEMMA BackoffBound ==
  ASSUME NEW n \in Nat
  PROVE  RetryBackoff(n) \in Nat /\ RetryBackoff(n) <= MaxBackoffSeconds
<1> DEFINE shift == IF n > 1 THEN n - 1 ELSE 0
           multiplier == Shifted(shift)
<1>1. shift \in Nat /\ BackoffSeconds \in Nat /\ MaxBackoffSeconds \in Nat
  BY DispatcherAssumption
<1>2. multiplier \in Nat \ {0}
  BY <1>1, ShiftedType, Zenon
<1>3. RetryBackoff(n) =
        IF BackoffSeconds >= MaxBackoffSeconds \/ BackoffSeconds > MaxBackoffSeconds \div multiplier
        THEN MaxBackoffSeconds
        ELSE BackoffSeconds * multiplier
  BY Zenon DEF RetryBackoff
<1> HIDE DEF multiplier, shift
<1>4. MaxBackoffSeconds \div multiplier \in Nat
  BY <1>1, <1>2
<1>5. CASE BackoffSeconds <= MaxBackoffSeconds \div multiplier
  <2>1. BackoffSeconds * multiplier <= MaxBackoffSeconds
    BY <1>1, <1>2, <1>5, QuotientBound, Zenon
  <2> QED
    BY <1>1, <1>2, <1>3, <2>1
<1>6. CASE ~(BackoffSeconds <= MaxBackoffSeconds \div multiplier)
  BY <1>1, <1>3, <1>4, <1>6
<1> QED
  BY <1>5, <1>6, Zenon

\* What a worker reads back is a DispatchWork.
LEMMA SnapshotType ==
  ASSUME NEW o \in Occurrences, NEW row \in OutboxRow
  PROVE  Snapshot(o, row) \in DispatchWork
BY Zenon DEF Snapshot, OutboxRow, OutboxColumns, DispatchWork

\* The outcomes persistResult may ask for: a success needs a successful result,
\* and a retry an attempt that is left.
LEMMA VerdictType ==
  ASSUME NEW w \in DispatchWork, NEW r \in Results \cup {"none"}, NEW now \in Nat,
         NEW v \in Verdicts(w, r, now)
  PROVE  /\ v.status \in {"succeeded", "failed", "retrying"}
         /\ v.at \in Int
         /\ v.status = "succeeded" => r = "succeeded"
         /\ v.status = "retrying" =>
              w.attempts < MaxAttempts[w.occ] /\ v.at <= now + MaxBackoffSeconds
<1>1. /\ MaxAttempts[w.occ] \in Nat /\ w.attempts \in Nat /\ RetryWindow \in Nat
      /\ MaxBackoffSeconds \in Nat
  BY DispatcherAssumption, Zenon DEF DispatchWork
<1>2. CASE r = "succeeded"
  BY <1>1, <1>2 DEF Verdicts
<1>3. CASE r # "succeeded"
  <2> DEFINE closesAt == (IF w.firstAttemptAt = NoTime THEN now ELSE w.firstAttemptAt) + RetryWindow
             remaining == closesAt - now
             ceiling == IF RetryBackoff(w.attempts) > remaining THEN remaining ELSE RetryBackoff(w.attempts)
  <2>1. closesAt \in Int
    BY <1>1 DEF DispatchWork
  <2>2. ceiling \in Int /\ ceiling <= MaxBackoffSeconds
    BY <1>1, <2>1, BackoffBound
  <2>3. \/ v = [status |-> "failed", at |-> now]
        \/ /\ w.attempts < MaxAttempts[w.occ]
           /\ \E d \in 0..ceiling : v = [status |-> "retrying", at |-> now + d]
    BY <1>1, <1>3 DEF Verdicts
  <2> HIDE DEF ceiling
  <2> QED
    BY <1>1, <2>2, <2>3
<1>4. QED
  BY <1>2, <1>3, Zenon

\* transitionDispatch rewrites both rows together or leaves both alone.
LEMMA TransitionType ==
  ASSUME TypeOK, NEW c \in Cycles, work[c] \in DispatchWork,
         NEW s \in {"succeeded", "failed", "retrying"}, NEW t \in Int,
         TransitionDispatch(c, s, t)
  PROVE  /\ outbox' \in [Occurrences -> OutboxRow]
         /\ occurrence' \in [Occurrences -> [status : OutboxStatus, attempts : Nat]]
<1>1. work[c].occ \in Occurrences /\ work[c].attempts \in Nat
  BY Zenon DEF DispatchWork
<1>2. CASE UNCHANGED database
  BY <1>2, Zenon DEF TypeOK, database
<1>3. CASE ~ UNCHANGED database
  <2>1. outbox' = [outbox EXCEPT ![work[c].occ] = Settled(@, s, t)]
    BY <1>3, Zenon DEF TransitionDispatch
  <2>2. Settled(outbox[work[c].occ], s, t) \in OutboxRow
    BY <1>1, SettledType, Zenon DEF TypeOK, OutboxStatus, Terminal
  <2>3. outbox' \in [Occurrences -> OutboxRow]
    BY <1>1, <2>1, <2>2, Zenon DEF TypeOK
  <2>4. occurrence' = [occurrence EXCEPT ![work[c].occ] = [status |-> s, attempts |-> work[c].attempts]]
    BY <1>3, Zenon DEF TransitionDispatch
  <2>5. QED
    BY <1>1, <2>3, <2>4, Zenon DEF TypeOK, OutboxStatus, Terminal
<1>4. QED
  BY <1>2, <1>3, Zenon

-----------------------------------------------------------------------------
(* Type correctness.                                                       *)

\* The loop of Run keeps the program counter and the row in hand consistent.
LEMMA NextItemType ==
  ASSUME TypeInv, NEW c \in Cycles, NextItem(c) \/ LeaveProcess(c), pc[c] \in Active
  PROVE  /\ pc' \in [Cycles -> {"idle", "next", "defer", "begin", "calling", "reached",
                                "persist", "release"}]
         /\ work' \in [Cycles -> DispatchWork \cup {NoWork}]
         /\ WorkInHand'
BY DEF TypeInv, TypeOK, WorkInHand, NextItem, LeaveProcess, Active

\* The transaction of Run for one clock reading and one set of claimed rows.
RunTx(c, now, claimed) ==
  /\ claimed \subseteq Claimable(now)
  /\ outbox' = [o \in Occurrences |->
       CASE o \in Exhausted(now) -> Recovered(outbox[o], now)
         [] o \in claimed -> Claimed(outbox[o], WorkerOf[c], now)
         [] OTHER -> outbox[o]]
  /\ occurrence' = [o \in Occurrences |->
       IF o \in Exhausted(now) THEN RecoveredOccurrence(o) ELSE occurrence[o]]
  /\ \/ /\ batch' = [batch EXCEPT ![c] = {Snapshot(o, outbox[o]) : o \in claimed}]
        /\ pc' = [pc EXCEPT ![c] = "next"]
     \/ UNCHANGED <<batch, pc>>

\* Run takes one such transaction.
LEMMA RunIsTx ==
  ASSUME NEW c \in Cycles, Run(c)
  PROVE  \E now \in Readings, claimed \in SUBSET Occurrences : RunTx(c, now, claimed)
<1>1. PICK now \in Readings : \E claimed \in SUBSET Claimable(now) : RunTx(c, now, claimed)
  BY Zenon DEF Run, RunTx
<1>2. Claimable(now) \subseteq Occurrences
  BY Zenon DEF Claimable
<1>3. QED
  BY <1>1, <1>2, Zenon

\* Run keeps the types.
LEMMA RunType ==
  ASSUME TypeInv, NEW c \in Cycles, Run(c)
  PROVE  TypeInv'
<1>1. PICK now \in Readings, claimed \in SUBSET Occurrences : RunTx(c, now, claimed)
  BY RunIsTx, Zenon
<1>2. now \in Nat /\ WorkerOf[c] \in Workers
  BY DispatcherAssumption, ReadingIsNat, Zenon DEF TypeInv, TypeOK
<1>3. outbox' \in [Occurrences -> OutboxRow]
  <2>1. ASSUME NEW o \in Occurrences PROVE outbox'[o] \in OutboxRow
    <3>1. outbox[o] \in OutboxRow
      BY Zenon DEF TypeInv, TypeOK
    <3>2. Recovered(outbox[o], now) \in OutboxRow
      BY <1>2, <3>1, RecoveredType, SettledType DEF OutboxStatus, Terminal
    <3>3. Claimed(outbox[o], WorkerOf[c], now) \in OutboxRow
      BY <1>2, <3>1, ClaimedType, Zenon
    <3>4. QED
      BY <1>1, <3>1, <3>2, <3>3, Zenon DEF RunTx
  <2>2. QED
    BY <1>1, <2>1, Zenon DEF RunTx
<1>4. occurrence' \in [Occurrences -> [status : OutboxStatus, attempts : Nat]]
  <2>1. ASSUME NEW o \in Occurrences
        PROVE  RecoveredOccurrence(o) \in [status : OutboxStatus, attempts : Nat]
    BY Zenon DEF TypeInv, TypeOK, OutboxRow, OutboxColumns, RecoveredOccurrence, OutboxStatus, Terminal
  <2>2. QED
    BY <1>1, <2>1, Zenon DEF RunTx, TypeInv, TypeOK
<1>5. {Snapshot(o, outbox[o]) : o \in claimed} \in SUBSET DispatchWork
  BY <1>2, SnapshotType DEF TypeInv, TypeOK
<1>6. batch' \in [Cycles -> SUBSET DispatchWork]
  BY <1>1, <1>5, Zenon DEF RunTx, TypeInv, TypeOK
<1>7. QED
  BY <1>1, <1>3, <1>4, <1>6 DEF RunTx, TypeInv, TypeOK, WorkInHand, Active, Run

\* BeginDispatch keeps the types.
LEMMA BeginDispatchType ==
  ASSUME TypeInv, NEW c \in Cycles, BeginDispatch(c)
  PROVE  TypeInv'
<1> DEFINE o == work[c].occ
<1>1. pc[c] = "begin" /\ work[c] \in DispatchWork /\ o \in Occurrences
  BY Zenon DEF BeginDispatch, TypeInv, WorkInHand, Active, DispatchWork
<1>2. CASE UNCHANGED <<database, deadline, sent>> /\ LeaveProcess(c)
  BY <1>1, <1>2, NextItemType, Zenon DEF BeginDispatch, TypeInv, TypeOK, database, Active
<1>3. CASE ~(UNCHANGED <<database, deadline, sent>> /\ LeaveProcess(c))
  <2>1. PICK now \in Readings :
          /\ outbox' = [outbox EXCEPT ![o] = Begun(@, now)]
          /\ occurrence' = [occurrence EXCEPT ![o] =
               [status |-> "dispatching", attempts |-> outbox[o].attempts + 1]]
          /\ \/ /\ work' = [work EXCEPT ![c] = Snapshot(o, Begun(outbox[o], now))]
                /\ pc' = [pc EXCEPT ![c] = "calling"]
                /\ deadline' = [deadline EXCEPT ![c] = clock + DispatchTimeout]
                /\ sent' = [sent EXCEPT ![o] = @ + 1]
             \/ LeaveProcess(c) /\ UNCHANGED <<deadline, sent>>
    BY <1>3, Zenon DEF BeginDispatch
  <2>2. Begun(outbox[o], now) \in OutboxRow
    BY <1>1, ReadingIsNat, BegunType, Zenon DEF TypeInv, TypeOK
  <2>3. outbox' \in [Occurrences -> OutboxRow]
    BY <1>1, <2>1, <2>2, Zenon DEF TypeInv, TypeOK
  <2>4. occurrence' \in [Occurrences -> [status : OutboxStatus, attempts : Nat]]
    <3>1. outbox[o].attempts + 1 \in Nat
      BY <1>1 DEF TypeInv, TypeOK, OutboxRow, OutboxColumns
    <3>2. QED
      BY <1>1, <2>1, <3>1, Zenon DEF TypeInv, TypeOK, OutboxStatus
  <2>5. CASE /\ work' = [work EXCEPT ![c] = Snapshot(o, Begun(outbox[o], now))]
             /\ pc' = [pc EXCEPT ![c] = "calling"]
             /\ deadline' = [deadline EXCEPT ![c] = clock + DispatchTimeout]
             /\ sent' = [sent EXCEPT ![o] = @ + 1]
    <3>1. Snapshot(o, Begun(outbox[o], now)) \in DispatchWork
      BY <1>1, <2>2, SnapshotType, Zenon
    <3>2. work' \in [Cycles -> DispatchWork \cup {NoWork}] /\ WorkInHand'
      BY <2>5, <3>1, Zenon DEF TypeInv, TypeOK, WorkInHand, Active
    <3>3. deadline' \in [Cycles -> Int] /\ sent' \in [Occurrences -> Nat]
      BY <1>1, <2>5, DispatcherAssumption DEF TypeInv, TypeOK
    <3>4. QED
      BY <2>3, <2>4, <2>5, <3>2, <3>3, Zenon DEF BeginDispatch, TypeInv, TypeOK
  <2>6. CASE LeaveProcess(c) /\ UNCHANGED <<deadline, sent>>
    BY <1>1, <2>3, <2>4, <2>6, NextItemType, Zenon DEF BeginDispatch, TypeInv, TypeOK, Active
  <2>7. QED
    BY <2>1, <2>5, <2>6, Zenon
<1>4. QED
  BY <1>2, <1>3, Zenon

\* The remaining steps of a cycle keep the types.
LEMMA ProcessType ==
  ASSUME TypeInv, NEW c \in Cycles, Process(c)
  PROVE  TypeInv'
<1>1. CASE Run(c)
  BY <1>1, RunType, Zenon
<1>2. CASE AcquireLease(c)
  <2>1. PICK w \in batch[c] :
          /\ batch' = [batch EXCEPT ![c] = @ \ {w}]
          /\ work' = [work EXCEPT ![c] = w]
          /\ pc' = [pc EXCEPT ![c] = "begin"] \/ pc' = [pc EXCEPT ![c] = "defer"]
          /\ \/ UNCHANGED lease
             \/ \E h \in {c, None} :
                  lease' = [lease EXCEPT ![w.occ] = [holder |-> h, expiresAt |-> clock + ClaimTTL]]
    BY <1>2, Zenon DEF AcquireLease
  <2>2. w \in DispatchWork /\ w.occ \in Occurrences
    BY DEF TypeInv, TypeOK, DispatchWork
  <2>3. clock + ClaimTTL \in Int
    BY DispatcherAssumption DEF TypeInv, TypeOK
  <2>4. lease' \in [Occurrences -> [holder : Cycles \cup {None}, expiresAt : Int]]
    <3>1. lease \in [Occurrences -> [holder : Cycles \cup {None}, expiresAt : Int]]
      BY Zenon DEF TypeInv, TypeOK
    <3>2. QED
      BY <2>1, <2>2, <2>3, <3>1
  <2>5. /\ batch' \in [Cycles -> SUBSET DispatchWork]
        /\ work' \in [Cycles -> DispatchWork \cup {NoWork}]
    BY <2>1, <2>2, Zenon DEF TypeInv, TypeOK
  <2>6. WorkInHand'
    BY <2>1, <2>2, Zenon DEF TypeInv, TypeOK, WorkInHand, Active
  <2>7. /\ pc' \in [Cycles -> {"idle", "next", "defer", "begin", "calling", "reached",
                               "persist", "release"}]
        /\ UNCHANGED <<clock, database, deadline, result, accepted, sent>>
    BY <1>2, <2>1, Zenon DEF TypeInv, TypeOK, AcquireLease
  <2>8. QED
    BY <2>4, <2>5, <2>6, <2>7, Zenon DEF TypeInv, TypeOK, database
<1>3. CASE DeferDispatch(c)
  <2>1. pc[c] \in Active /\ work[c] \in DispatchWork
    BY <1>3, Zenon DEF DeferDispatch, TypeInv, WorkInHand, Active
  <2>2. PICK now \in Readings : TransitionDispatch(c, "retrying", now + CoordinationRetryDelay)
    BY <1>3, Zenon DEF DeferDispatch
  <2>3. now + CoordinationRetryDelay \in Int
    BY DispatcherAssumption, ReadingIsNat DEF TypeInv, TypeOK
  <2>4. /\ outbox' \in [Occurrences -> OutboxRow]
        /\ occurrence' \in [Occurrences -> [status : OutboxStatus, attempts : Nat]]
    BY <2>1, <2>2, <2>3, TransitionType, Zenon DEF TypeInv
  <2>5. NextItem(c)
    BY <1>3, Zenon DEF DeferDispatch
  <2>6. QED
    BY <1>3, <2>1, <2>4, <2>5, NextItemType, Zenon DEF DeferDispatch, TypeInv, TypeOK
<1>4. CASE BeginDispatch(c)
  BY <1>4, BeginDispatchType, Zenon
<1>5. CASE TargetAccepts(c)
  <2>1. work[c].occ \in Occurrences /\ work[c].attempts \in Nat
    BY <1>5, Zenon DEF TargetAccepts, TypeInv, WorkInHand, Active, DispatchWork
  <2>2. accepted' \subseteq Occurrences \X Nat
    <3>1. accepted \subseteq Occurrences \X Nat
      BY Zenon DEF TypeInv, TypeOK
    <3>2. accepted' = accepted \cup {<<work[c].occ, work[c].attempts>>}
      BY <1>5, Zenon DEF TargetAccepts
    <3>3. QED
      BY <2>1, <3>1, <3>2
  <2>3. QED
    BY <1>5, <2>2, Zenon DEF TargetAccepts, TypeInv, TypeOK, WorkInHand, Active, database
<1>6. CASE DispatchReturns(c)
  <2>1. NormalizedResults(c) \subseteq Results
    BY Zenon DEF NormalizedResults, Results
  <2>2. QED
    BY <1>6, <2>1 DEF DispatchReturns, TypeInv, TypeOK, WorkInHand, Active, database, NoTime
<1>7. CASE PersistResult(c)
  <2>1. pc[c] \in Active /\ work[c] \in DispatchWork /\ result[c] \in Results \cup {"none"}
    BY <1>7, Zenon DEF PersistResult, TypeInv, TypeOK, WorkInHand, Active
  <2>2. PICK now \in Readings : \E v \in Verdicts(work[c], result[c], now) :
          TransitionDispatch(c, v.status, v.at)
    BY <1>7, Zenon DEF PersistResult
  <2>3. PICK v \in Verdicts(work[c], result[c], now) : TransitionDispatch(c, v.status, v.at)
    BY <2>2, Zenon
  <2>4. v.status \in {"succeeded", "failed", "retrying"} /\ v.at \in Int
    BY <2>1, ReadingIsNat, VerdictType, Zenon DEF TypeInv, TypeOK
  <2>5. /\ outbox' \in [Occurrences -> OutboxRow]
        /\ occurrence' \in [Occurrences -> [status : OutboxStatus, attempts : Nat]]
    BY <2>1, <2>3, <2>4, TransitionType, Zenon DEF TypeInv
  <2>6. LeaveProcess(c)
    BY <1>7, Zenon DEF PersistResult
  <2>7. QED
    BY <1>7, <2>1, <2>5, <2>6, NextItemType, Zenon DEF PersistResult, TypeInv, TypeOK
<1>8. CASE ReleaseLease(c)
  <2>1. pc[c] \in Active /\ work[c].occ \in Occurrences /\ NextItem(c)
    BY <1>8, Zenon DEF ReleaseLease, TypeInv, WorkInHand, Active, DispatchWork
  <2>2. lease' \in [Occurrences -> [holder : Cycles \cup {None}, expiresAt : Int]]
    <3>1. [holder |-> None, expiresAt |-> NoTime] \in [holder : Cycles \cup {None}, expiresAt : Int]
      BY DEF NoTime
    <3>2. QED
      BY <1>8, <2>1, <3>1, Zenon DEF ReleaseLease, TypeInv, TypeOK
  <2>3. QED
    BY <1>8, <2>1, <2>2, NextItemType, Zenon DEF ReleaseLease, TypeInv, TypeOK, database
<1>9. QED
  BY <1>1, <1>2, <1>3, <1>4, <1>5, <1>6, <1>7, <1>8, Zenon DEF Process

\* TypeInv is inductive.
LEMMA TypeInvStep ==
  ASSUME TypeInv, [Next]_vars
  PROVE  TypeInv'
<1>1. ASSUME NEW o \in Occurrences, InsertDispatch(o) PROVE TypeInv'
  <2>1. PICK now \in Readings :
          outbox' = [outbox EXCEPT ![o].status = "pending", ![o].nextAttemptAt = now]
    BY <1>1, Zenon DEF InsertDispatch
  <2>2. now \in Int /\ outbox[o].status = "absent" /\ outbox[o] \in OutboxRow
    BY <1>1, ReadingIsNat DEF InsertDispatch, TypeInv, TypeOK
  <2>3. outbox'[o] = [outbox[o] EXCEPT !.status = "pending", !.nextAttemptAt = now]
    BY <2>1, Zenon DEF TypeInv, TypeOK
  <2>4. outbox'[o] \in OutboxColumns
    BY <2>2, <2>3, Zenon DEF OutboxRow, OutboxColumns, OutboxStatus
  <2>5. outbox'[o] \in OutboxRow
    BY <2>2, <2>3, <2>4, Zenon DEF OutboxRow, OutboxColumns
  <2>6. outbox' \in [Occurrences -> OutboxRow]
    BY <2>1, <2>5, Zenon DEF TypeInv, TypeOK
  <2>7. occurrence' \in [Occurrences -> [status : OutboxStatus, attempts : Nat]]
    <3>1. occurrence \in [Occurrences -> [status : OutboxStatus, attempts : Nat]]
      BY Zenon DEF TypeInv, TypeOK
    <3>2. occurrence' = [occurrence EXCEPT ![o].status = "pending"]
      BY <1>1, Zenon DEF InsertDispatch
    <3>3. QED
      BY <3>1, <3>2 DEF OutboxStatus
  <2>8. QED
    BY <1>1, <2>6, <2>7, Zenon DEF InsertDispatch, TypeInv, TypeOK, WorkInHand, local
<1>2. ASSUME NEW w \in Workers, Crash(w) PROVE TypeInv'
  BY <1>2 DEF Crash, TypeInv, TypeOK, WorkInHand, Active, database, NoTime
<1>3. CASE Tick
  BY <1>3 DEF Tick, TypeInv, TypeOK, WorkInHand, database, local
<1>4. CASE UNCHANGED vars
  BY <1>4, Zenon DEF vars, TypeInv, TypeOK, WorkInHand
<1>5. QED
  BY <1>1, <1>2, <1>3, <1>4, ProcessType, Zenon DEF Next

\* TypeInv holds initially.
LEMMA TypeInvInit == Init => TypeInv
BY DEF Init, TypeInv, TypeOK, WorkInHand, Active, OutboxRow, OutboxColumns, OutboxStatus, NoTime

\* Every variable keeps its type and no statement of the dispatcher trips the
\* claim CHECK of the outbox table, for every instance of the constants.
THEOREM TypeCorrect == Spec => []TypeOK
<1>1. TypeInv => TypeOK
  BY Zenon DEF TypeInv
<1>2. QED
  BY <1>1, TypeInvInit, TypeInvStep, PTL DEF Spec

-----------------------------------------------------------------------------
(* Safety.  All row-level arguments go through one lemma, RowSteps: whatever *)
(* step the system takes, one outbox row and its occurrence row change in    *)
(* one of the six ways below.                                              *)

Same(o) == outbox'[o] = outbox[o] /\ occurrence'[o] = occurrence[o] /\ sent'[o] = sent[o]

Inserted(o) ==
  /\ outbox[o].status = "absent" /\ outbox'[o].status = "pending"
  /\ outbox'[o].attempts = outbox[o].attempts
  /\ occurrence'[o].status = "pending" /\ occurrence'[o].attempts = occurrence[o].attempts
  /\ sent'[o] = sent[o]

GivenUp(o) ==
  /\ outbox[o].status = "dispatching" /\ outbox[o].attempts >= MaxAttempts[o]
  /\ outbox'[o].status = "failed" /\ outbox'[o].attempts = outbox[o].attempts
  /\ occurrence'[o].status = "failed" /\ occurrence'[o].attempts = outbox[o].attempts
  /\ sent'[o] = sent[o]

Taken(o, c) ==
  /\ pc[c] = "idle"
  /\ outbox[o].status \in {"pending", "retrying", "dispatching"}
  /\ outbox[o].attempts < MaxAttempts[o]
  /\ outbox'[o].status = "dispatching" /\ outbox'[o].owner = WorkerOf[c]
  /\ outbox'[o].attempts = outbox[o].attempts
  /\ occurrence'[o] = occurrence[o]
  /\ sent'[o] = sent[o]

Charged(o, c) ==
  /\ pc[c] = "begin" /\ work[c].occ = o
  /\ outbox[o].status = "dispatching" /\ outbox[o].owner = WorkerOf[c]
  /\ outbox[o].attempts < MaxAttempts[o]
  /\ outbox'[o].status = "dispatching" /\ outbox'[o].owner = WorkerOf[c]
  /\ outbox'[o].attempts = outbox[o].attempts + 1
  /\ occurrence'[o].status = "dispatching"
  /\ occurrence'[o].attempts = outbox[o].attempts + 1
  /\ sent'[o] \in {sent[o], sent[o] + 1}

Finished(o, c, s) ==
  /\ work[c].occ = o /\ HoldsClaim(c)
  /\ \/ s = "succeeded" /\ pc[c] = "persist" /\ result[c] = "succeeded"
     \/ s = "failed" /\ pc[c] = "persist"
     \/ s = "retrying" /\ pc[c] = "persist" /\ work[c].attempts < MaxAttempts[o]
     \/ s = "retrying" /\ pc[c] = "defer"
  /\ outbox'[o].status = s /\ outbox'[o].owner = None
  /\ outbox'[o].attempts = outbox[o].attempts
  /\ occurrence'[o].status = s /\ occurrence'[o].attempts = work[c].attempts
  /\ sent'[o] = sent[o]

RowStep(o) ==
  \/ Same(o) \/ Inserted(o) \/ GivenUp(o)
  \/ \E c \in Cycles : Taken(o, c) \/ Charged(o, c)
  \/ \E c \in Cycles : \E s \in {"succeeded", "failed", "retrying"} : Finished(o, c, s)

\* A transition through transitionDispatch finishes the row or changes nothing.
LEMMA TransitionRow ==
  ASSUME TypeInv, NEW c \in Cycles, work[c] \in DispatchWork,
         NEW s \in {"succeeded", "failed", "retrying"}, NEW t \in Int,
         TransitionDispatch(c, s, t), sent' = sent,
         \/ s = "succeeded" /\ pc[c] = "persist" /\ result[c] = "succeeded"
         \/ s = "failed" /\ pc[c] = "persist"
         \/ s = "retrying" /\ pc[c] = "persist" /\ work[c].attempts < MaxAttempts[work[c].occ]
         \/ s = "retrying" /\ pc[c] = "defer",
         NEW o \in Occurrences
  PROVE  Same(o) \/ Finished(o, c, s)
<1>1. outbox \in [Occurrences -> OutboxRow] /\ occurrence \in [Occurrences -> [status : OutboxStatus, attempts : Nat]]
  BY Zenon DEF TypeInv, TypeOK
<1>2. CASE UNCHANGED database
  BY <1>2, Zenon DEF database, Same
<1>3. CASE ~ UNCHANGED database
  <2>1. /\ HoldsClaim(c)
        /\ outbox' = [outbox EXCEPT ![work[c].occ] = Settled(@, s, t)]
        /\ occurrence' = [occurrence EXCEPT ![work[c].occ] =
             [status |-> s, attempts |-> work[c].attempts]]
    BY <1>3, Zenon DEF TransitionDispatch
  <2>2. CASE o # work[c].occ
    BY <1>1, <2>1, <2>2, Zenon DEF Same
  <2>3. CASE o = work[c].occ
    <3>1. outbox'[o] = Settled(outbox[o], s, t)
      BY <1>1, <2>1, <2>3, Zenon
    <3>2. /\ Settled(outbox[o], s, t).status = s
          /\ Settled(outbox[o], s, t).attempts = outbox[o].attempts
          /\ Settled(outbox[o], s, t).owner = None
      BY <1>1, SettledType DEF OutboxStatus, Terminal
    <3>3. occurrence'[o] = [status |-> s, attempts |-> work[c].attempts]
      BY <1>1, <2>1, <2>3, Zenon
    <3>4. QED
      BY <2>1, <2>3, <3>1, <3>2, <3>3 DEF Finished
  <2>4. QED
    BY <2>2, <2>3, Zenon
<1>4. QED
  BY <1>2, <1>3, Zenon

\* Run recovers a row, takes it or leaves it alone.
LEMMA RunRow ==
  ASSUME TypeInv, NEW c \in Cycles, Run(c), NEW o \in Occurrences
  PROVE  Same(o) \/ GivenUp(o) \/ Taken(o, c)
<1>1. PICK now \in Readings, claimed \in SUBSET Occurrences : RunTx(c, now, claimed)
  BY RunIsTx, Zenon
<1>2. pc[c] = "idle" /\ sent' = sent
  BY Zenon DEF Run
<1>3. now \in Nat /\ WorkerOf[c] \in Workers /\ outbox[o] \in OutboxRow
  BY DispatcherAssumption, ReadingIsNat, Zenon DEF TypeInv, TypeOK
<1>4. CASE o \in Exhausted(now)
  <2>1. outbox'[o] = Settled(outbox[o], "failed", now)
    <3>1. o \notin claimed
      BY <1>1, <1>3, <1>4, DispatcherAssumption
         DEF RunTx, Exhausted, Claimable, OutboxRow, OutboxColumns
    <3>2. outbox'[o] = Recovered(outbox[o], now)
      BY <1>1, <1>4, <3>1, Zenon DEF RunTx
    <3>3. QED
      BY <1>3, <3>2, RecoveredType
  <2>2. occurrence'[o] = [status |-> "failed", attempts |-> outbox[o].attempts]
    BY <1>1, <1>4, Zenon DEF RunTx, RecoveredOccurrence
  <2>3. /\ Settled(outbox[o], "failed", now).status = "failed"
        /\ Settled(outbox[o], "failed", now).attempts = outbox[o].attempts
    BY <1>3, SettledType DEF OutboxStatus, Terminal
  <2>4. QED
    BY <1>2, <1>4, <2>1, <2>2, <2>3 DEF GivenUp, Exhausted
<1>5. CASE o \notin Exhausted(now) /\ o \in claimed
  <2>1. outbox'[o] = Claimed(outbox[o], WorkerOf[c], now) /\ occurrence'[o] = occurrence[o]
    BY <1>1, <1>5, Zenon DEF RunTx
  <2>2. o \in Claimable(now)
    BY <1>1, <1>5, Zenon DEF RunTx
  <2>3. QED
    BY <1>2, <1>3, <2>1, <2>2, ClaimedType DEF Taken, Claimable
<1>6. CASE o \notin Exhausted(now) /\ o \notin claimed
  BY <1>1, <1>2, <1>6, Zenon DEF RunTx, Same
<1>7. QED
  BY <1>4, <1>5, <1>6, Zenon

\* BeginDispatch charges an attempt to the row or changes nothing.
LEMMA BeginRow ==
  ASSUME TypeInv, NEW c \in Cycles, BeginDispatch(c), NEW o \in Occurrences
  PROVE  Same(o) \/ Charged(o, c)
<1>1. /\ pc[c] = "begin" /\ work[c].occ \in Occurrences
      /\ outbox \in [Occurrences -> OutboxRow]
      /\ occurrence \in [Occurrences -> [status : OutboxStatus, attempts : Nat]]
      /\ sent \in [Occurrences -> Nat]
  BY Zenon DEF BeginDispatch, TypeInv, TypeOK, WorkInHand, Active, DispatchWork
<1>2. CASE UNCHANGED <<database, deadline, sent>>
  BY <1>2, Zenon DEF database, Same
<1>3. CASE ~ UNCHANGED <<database, deadline, sent>>
  <2>1. PICK now \in Readings :
          /\ MayBegin(c, now)
          /\ outbox' = [outbox EXCEPT ![work[c].occ] = Begun(@, now)]
          /\ occurrence' = [occurrence EXCEPT ![work[c].occ] =
               [status |-> "dispatching", attempts |-> outbox[work[c].occ].attempts + 1]]
          /\ \/ sent' = [sent EXCEPT ![work[c].occ] = @ + 1]
             \/ UNCHANGED sent
    BY <1>3, Zenon DEF BeginDispatch
  <2>2. CASE o # work[c].occ
    BY <1>1, <2>1, <2>2, Zenon DEF Same
  <2>3. CASE o = work[c].occ
    <3>1. outbox'[o] = Begun(outbox[o], now) /\ now \in Nat
      BY <1>1, <2>1, <2>3, ReadingIsNat, Zenon DEF TypeInv, TypeOK
    <3>2. /\ Begun(outbox[o], now).status = outbox[o].status
          /\ Begun(outbox[o], now).owner = outbox[o].owner
          /\ Begun(outbox[o], now).attempts = outbox[o].attempts + 1
      BY <1>1, <3>1, BegunType, Zenon
    <3>3. /\ occurrence'[o] = [status |-> "dispatching", attempts |-> outbox[o].attempts + 1]
          /\ sent'[o] \in {sent[o], sent[o] + 1}
      BY <1>1, <2>1, <2>3, Zenon
    <3>4. QED
      BY <1>1, <2>1, <2>3, <3>1, <3>2, <3>3, Zenon DEF Charged, MayBegin
  <2>4. QED
    BY <2>2, <2>3, Zenon
<1>4. QED
  BY <1>2, <1>3, Zenon

\* A deferral puts its own row back or changes nothing.
LEMMA DeferRows ==
  ASSUME TypeInv, NEW c \in Cycles, DeferDispatch(c)
  PROVE  \A o \in Occurrences : Same(o) \/ Finished(o, c, "retrying")
<1>1. PICK now \in Readings : TransitionDispatch(c, "retrying", now + CoordinationRetryDelay)
  BY Zenon DEF DeferDispatch
<1>2. pc[c] = "defer" /\ work[c] \in DispatchWork /\ sent' = sent
  BY Zenon DEF DeferDispatch, TypeInv, WorkInHand, Active
<1>3. now + CoordinationRetryDelay \in Int
  BY DispatcherAssumption, ReadingIsNat DEF TypeInv, TypeOK
<1>4. QED
  BY <1>1, <1>2, <1>3, TransitionRow, Zenon

\* persistResult finishes its own row with one verdict or changes nothing.
LEMMA PersistRows ==
  ASSUME TypeInv, NEW c \in Cycles, PersistResult(c)
  PROVE  \E s \in {"succeeded", "failed", "retrying"} :
           \A o \in Occurrences : Same(o) \/ Finished(o, c, s)
<1>1. PICK now \in Readings : \E v \in Verdicts(work[c], result[c], now) :
        TransitionDispatch(c, v.status, v.at)
  BY Zenon DEF PersistResult
<1>2. PICK v \in Verdicts(work[c], result[c], now) : TransitionDispatch(c, v.status, v.at)
  BY <1>1, Zenon
<1>3. /\ pc[c] = "persist" /\ work[c] \in DispatchWork /\ sent' = sent
      /\ result[c] \in Results \cup {"none"}
  BY Zenon DEF PersistResult, TypeInv, TypeOK, WorkInHand, Active
<1>4. /\ v.status \in {"succeeded", "failed", "retrying"} /\ v.at \in Int
      /\ v.status = "succeeded" => result[c] = "succeeded"
      /\ v.status = "retrying" => work[c].attempts < MaxAttempts[work[c].occ]
  BY <1>3, ReadingIsNat, VerdictType, Zenon DEF TypeInv, TypeOK
<1>5. \A o \in Occurrences : Same(o) \/ Finished(o, c, v.status)
  BY <1>2, <1>3, <1>4, TransitionRow, Zenon
<1>6. QED
  BY <1>4, <1>5, Zenon

\* Every step of the system changes a row in one of the ways above.
LEMMA RowSteps ==
  ASSUME TypeInv, [Next]_vars, NEW o \in Occurrences
  PROVE  RowStep(o)
<1>1. ASSUME NEW p \in Occurrences, InsertDispatch(p) PROVE RowStep(o)
  <2>1. PICK now \in Readings :
          outbox' = [outbox EXCEPT ![p].status = "pending", ![p].nextAttemptAt = now]
    BY <1>1, Zenon DEF InsertDispatch
  <2>2. /\ outbox[p].status = "absent" /\ sent' = sent
        /\ occurrence' = [occurrence EXCEPT ![p].status = "pending"]
    BY <1>1, Zenon DEF InsertDispatch
  <2>3. CASE o # p
    BY <2>1, <2>2, <2>3, Zenon DEF RowStep, Same, TypeInv, TypeOK
  <2>4. CASE o = p
    <3>1. outbox'[o].status = "pending" /\ outbox'[o].attempts = outbox[o].attempts
      BY <2>1, <2>4 DEF TypeInv, TypeOK, OutboxRow, OutboxColumns
    <3>2. occurrence'[o].status = "pending" /\ occurrence'[o].attempts = occurrence[o].attempts
      BY <2>2, <2>4 DEF TypeInv, TypeOK
    <3>3. QED
      BY <2>2, <2>4, <3>1, <3>2, Zenon DEF RowStep, Inserted
  <2>5. QED
    BY <2>3, <2>4, Zenon
<1>2. ASSUME NEW c \in Cycles, Run(c) PROVE RowStep(o)
  BY <1>2, RunRow, Zenon DEF RowStep
<1>3. ASSUME NEW c \in Cycles, BeginDispatch(c) PROVE RowStep(o)
  BY <1>3, BeginRow, Zenon DEF RowStep
<1>4. ASSUME NEW c \in Cycles, DeferDispatch(c) PROVE RowStep(o)
  BY <1>4, DeferRows, Zenon DEF RowStep
<1>5. ASSUME NEW c \in Cycles, PersistResult(c) PROVE RowStep(o)
  BY <1>5, PersistRows, Zenon DEF RowStep
<1>6. ASSUME UNCHANGED <<database, sent>> PROVE RowStep(o)
  BY <1>6, Zenon DEF RowStep, Same, database
<1>7. QED
  <2>1. ASSUME NEW c \in Cycles,
               AcquireLease(c) \/ TargetAccepts(c) \/ DispatchReturns(c) \/ ReleaseLease(c)
        PROVE  RowStep(o)
    BY <1>6, <2>1, Zenon DEF AcquireLease, TargetAccepts, DispatchReturns, ReleaseLease
  <2>2. ASSUME NEW c \in Cycles, Process(c) PROVE RowStep(o)
    BY <1>2, <1>3, <1>4, <1>5, <2>1, <2>2, Zenon DEF Process
  <2>3. ASSUME NEW w \in Workers, Crash(w) PROVE RowStep(o)
    BY <1>6, <2>3, Zenon DEF Crash
  <2>4. CASE Tick \/ UNCHANGED vars
    BY <1>6, <2>4, Zenon DEF Tick, vars, database
  <2>5. QED
    BY <1>1, <2>2, <2>3, <2>4, Zenon DEF Next

-----------------------------------------------------------------------------
(* The inductive invariant.                                                *)

\* A cycle holds a success only for an attempt the target accepted.
AnswerWasAccepted ==
  \A c \in Cycles :
    (pc[c] = "reached" \/ (pc[c] = "persist" /\ result[c] = "succeeded"))
      => <<work[c].occ, work[c].attempts>> \in accepted

\* A request is in flight only for a row with a charged attempt.
RequestWasCharged ==
  \A c \in Cycles :
    pc[c] \in {"calling", "reached", "persist"} => outbox[work[c].occ].attempts > 0

SafeInv ==
  /\ TypeInv
  /\ OutboxOccurrenceAgree /\ AttemptBudget
  /\ AnswerWasAccepted /\ SucceededWasAccepted /\ RequestWasCharged

\* The numbers a row holds, for the arithmetic of the leaves.
LEMMA RowNumbers ==
  ASSUME TypeInv, NEW o \in Occurrences
  PROVE  /\ outbox[o].attempts \in Nat /\ sent[o] \in Nat
         /\ MaxAttempts[o] \in Nat /\ MaxAttempts[o] > 0
         /\ outbox[o].status \in OutboxStatus /\ occurrence[o].status \in OutboxStatus
BY DispatcherAssumption DEF TypeInv, TypeOK, OutboxRow, OutboxColumns

\* Both rows keep telling the same story.
LEMMA AgreeStep ==
  ASSUME TypeInv, OutboxOccurrenceAgree, [Next]_vars
  PROVE  OutboxOccurrenceAgree'
<1> SUFFICES ASSUME NEW o \in Occurrences
    PROVE  IF outbox'[o].status = "dispatching"
           THEN occurrence'[o].status \in {"pending", "retrying", "dispatching"}
           ELSE occurrence'[o].status = outbox'[o].status
  BY Zenon DEF OutboxOccurrenceAgree
<1>1. RowStep(o)
  BY RowSteps, Zenon
<1>2. IF outbox[o].status = "dispatching"
      THEN occurrence[o].status \in {"pending", "retrying", "dispatching"}
      ELSE occurrence[o].status = outbox[o].status
  BY Zenon DEF OutboxOccurrenceAgree
<1>3. QED
  BY <1>1, <1>2, Zenon DEF RowStep, Same, Inserted, GivenUp, Taken, Charged, Finished

\* No step overdraws the attempts of a row.
LEMMA BudgetStep ==
  ASSUME TypeInv, AttemptBudget, [Next]_vars
  PROVE  AttemptBudget'
<1> SUFFICES ASSUME NEW o \in Occurrences
    PROVE  sent'[o] <= outbox'[o].attempts /\ outbox'[o].attempts <= MaxAttempts[o]
  BY Zenon DEF AttemptBudget
<1>1. RowStep(o)
  BY RowSteps, Zenon
<1>2. sent[o] <= outbox[o].attempts /\ outbox[o].attempts <= MaxAttempts[o]
  BY Zenon DEF AttemptBudget
<1>3. QED
  BY <1>1, <1>2, RowNumbers DEF RowStep, Same, Inserted, GivenUp, Taken, Charged, Finished

\* Attempts are never taken back.
LEMMA AttemptsGrow ==
  ASSUME TypeInv, [Next]_vars, NEW o \in Occurrences
  PROVE  outbox'[o].attempts \in Nat /\ outbox'[o].attempts >= outbox[o].attempts
BY RowSteps, RowNumbers DEF RowStep, Same, Inserted, GivenUp, Taken, Charged, Finished

\* What the target accepted stays accepted.
LEMMA AcceptedGrows ==
  ASSUME [Next]_vars
  PROVE  accepted \subseteq accepted'
BY Zenon DEF Next, Process, InsertDispatch, Run, AcquireLease, DeferDispatch, BeginDispatch,
       TargetAccepts, DispatchReturns, PersistResult, ReleaseLease, Crash, Tick, vars

\* A success is recorded only from an answer of the target.
LEMMA SucceededStep ==
  ASSUME TypeInv, AnswerWasAccepted, SucceededWasAccepted, [Next]_vars
  PROVE  SucceededWasAccepted'
<1> SUFFICES ASSUME NEW o \in Occurrences, outbox'[o].status = "succeeded"
    PROVE  <<o, occurrence'[o].attempts>> \in accepted'
  BY Zenon DEF SucceededWasAccepted
<1>1. RowStep(o)
  BY RowSteps, Zenon
<1>2. \/ outbox[o].status = "succeeded" /\ Same(o)
      \/ \E c \in Cycles : Finished(o, c, "succeeded")
  BY <1>1, Zenon DEF RowStep, Same, Inserted, GivenUp, Taken, Charged, Finished
<1>3. ASSUME NEW c \in Cycles, Finished(o, c, "succeeded")
      PROVE  <<o, occurrence'[o].attempts>> \in accepted
  BY <1>3, Zenon DEF Finished, AnswerWasAccepted
<1>4. QED
  BY <1>2, <1>3, AcceptedGrows, Zenon DEF SucceededWasAccepted, Same

\* How a step moves a cycle into and along its HTTP attempt.
CycleStep(d) ==
  \/ pc'[d] = pc[d] /\ work'[d] = work[d] /\ result'[d] = result[d]
  \/ pc'[d] \notin {"calling", "reached", "persist"}
  \/ /\ pc[d] = "begin" /\ pc'[d] = "calling"
     /\ work'[d].occ = work[d].occ /\ Charged(work[d].occ, d)
  \/ /\ pc[d] = "calling" /\ pc'[d] = "reached"
     /\ work'[d] = work[d] /\ accepted' = accepted \cup {<<work[d].occ, work[d].attempts>>}
  \/ /\ pc[d] \in {"calling", "reached"} /\ pc'[d] = "persist"
     /\ work'[d] = work[d] /\ (result'[d] = "succeeded" => pc[d] = "reached")

\* NextItem and LeaveProcess end the attempt of their own cycle only.
LEMMA NextItemCycle ==
  ASSUME TypeInv, NEW c \in Cycles, NextItem(c) \/ LeaveProcess(c), NEW d \in Cycles
  PROVE  \/ pc'[d] \notin {"calling", "reached", "persist"}
         \/ d # c /\ pc'[d] = pc[d] /\ work'[d] = work[d]
BY DEF TypeInv, TypeOK, NextItem, LeaveProcess

\* BeginDispatch starts the attempt of its own cycle only, and charges it.
LEMMA BeginCycle ==
  ASSUME TypeInv, NEW c \in Cycles, BeginDispatch(c), NEW d \in Cycles
  PROVE  CycleStep(d)
<1>1. CASE LeaveProcess(c)
  BY <1>1, NextItemCycle, Zenon DEF BeginDispatch, CycleStep
<1>2. CASE ~ LeaveProcess(c)
  <2> DEFINE o == work[c].occ
  <2>1. PICK now \in Readings :
          /\ work' = [work EXCEPT ![c] = Snapshot(o, Begun(outbox[o], now))]
          /\ pc' = [pc EXCEPT ![c] = "calling"]
          /\ sent' = [sent EXCEPT ![o] = @ + 1]
    BY <1>2, Zenon DEF BeginDispatch
  <2>2. pc[c] = "begin" /\ result' = result /\ o \in Occurrences
    BY Zenon DEF BeginDispatch, TypeInv, WorkInHand, Active, DispatchWork
  <2>3. sent'[o] # sent[o]
    BY <2>1, <2>2 DEF TypeInv, TypeOK
  <2>4. Charged(o, c)
    BY <2>2, <2>3, BeginRow, Zenon DEF Same
  <2>5. work'[c].occ = o
    BY <2>1, Zenon DEF TypeInv, TypeOK, Snapshot
  <2>6. QED
    BY <2>1, <2>2, <2>4, <2>5, Zenon DEF CycleStep, TypeInv, TypeOK
<1>3. QED
  BY <1>1, <1>2, Zenon

\* Every step moves a cycle in one of those ways.
LEMMA CycleSteps ==
  ASSUME TypeInv, [Next]_vars, NEW d \in Cycles
  PROVE  CycleStep(d)
<1>1. ASSUME UNCHANGED <<pc, work, result>> PROVE CycleStep(d)
  BY <1>1, Zenon DEF CycleStep
<1>2. ASSUME NEW o \in Occurrences, InsertDispatch(o) PROVE CycleStep(d)
  BY <1>1, <1>2, Zenon DEF InsertDispatch, local
<1>3. ASSUME NEW c \in Cycles, Run(c) PROVE CycleStep(d)
  BY <1>3, Zenon DEF Run, CycleStep, TypeInv, TypeOK
<1>4. ASSUME NEW c \in Cycles, AcquireLease(c) PROVE CycleStep(d)
  BY <1>4, Zenon DEF AcquireLease, CycleStep, TypeInv, TypeOK
<1>5. ASSUME NEW c \in Cycles, DeferDispatch(c) \/ ReleaseLease(c) PROVE CycleStep(d)
  BY <1>5, NextItemCycle, Zenon DEF DeferDispatch, ReleaseLease, CycleStep
<1>6. ASSUME NEW c \in Cycles, TargetAccepts(c) PROVE CycleStep(d)
  BY <1>6, Zenon DEF TargetAccepts, CycleStep, TypeInv, TypeOK
<1>7. ASSUME NEW c \in Cycles, DispatchReturns(c) PROVE CycleStep(d)
  <2>1. PICK r \in NormalizedResults(c) : result' = [result EXCEPT ![c] = r]
    BY <1>7, Zenon DEF DispatchReturns
  <2>2. r = "succeeded" => pc[c] = "reached"
    BY Zenon DEF NormalizedResults
  <2>3. QED
    BY <1>7, <2>1, <2>2, Zenon DEF DispatchReturns, CycleStep, TypeInv, TypeOK
<1>8. ASSUME NEW c \in Cycles, PersistResult(c) PROVE CycleStep(d)
  <2>1. LeaveProcess(c) /\ result' = [result EXCEPT ![c] = "none"]
    BY <1>8, Zenon DEF PersistResult
  <2>2. QED
    BY <2>1, NextItemCycle, Zenon DEF CycleStep, TypeInv, TypeOK
<1>9. ASSUME NEW w \in Workers, Crash(w) PROVE CycleStep(d)
  BY <1>9, Zenon DEF Crash, CycleStep
<1>10. CASE Tick \/ UNCHANGED vars
  BY <1>1, <1>10, Zenon DEF Tick, vars, local
<1>11. QED
  BY <1>2, <1>3, <1>4, <1>5, <1>6, <1>7, <1>8, <1>9, <1>10, BeginCycle, Zenon DEF Next, Process

\* A success in hand stays one the target gave, an attempt in flight charged.
LEMMA InFlightStep ==
  ASSUME TypeInv, AnswerWasAccepted, RequestWasCharged, [Next]_vars
  PROVE  AnswerWasAccepted' /\ RequestWasCharged'
<1>1. ASSUME NEW d \in Cycles,
             pc'[d] = "reached" \/ (pc'[d] = "persist" /\ result'[d] = "succeeded")
      PROVE  <<work'[d].occ, work'[d].attempts>> \in accepted'
  BY <1>1, CycleSteps, AcceptedGrows, Zenon DEF CycleStep, AnswerWasAccepted
<1>2. ASSUME NEW d \in Cycles, pc'[d] \in {"calling", "reached", "persist"}
      PROVE  outbox'[work'[d].occ].attempts > 0
  <2>1. CycleStep(d)
    BY CycleSteps, Zenon
  <2>2. CASE /\ pc[d] = "begin" /\ work'[d].occ = work[d].occ /\ Charged(work[d].occ, d)
    <3>1. work[d].occ \in Occurrences
      BY <2>2, Zenon DEF TypeInv, WorkInHand, Active, DispatchWork
    <3>2. QED
      BY <2>2, <3>1, RowNumbers DEF Charged
  <2>3. CASE pc[d] \in {"calling", "reached", "persist"} /\ work'[d] = work[d]
    <3>1. work[d].occ \in Occurrences /\ outbox[work[d].occ].attempts > 0
      BY <2>3, Zenon DEF TypeInv, WorkInHand, Active, DispatchWork, RequestWasCharged
    <3>2. QED
      BY <2>3, <3>1, AttemptsGrow, RowNumbers
  <2>4. QED
    BY <1>2, <2>1, <2>2, <2>3, Zenon DEF CycleStep
<1>3. QED
  BY <1>1, <1>2, Zenon DEF AnswerWasAccepted, RequestWasCharged

\* SafeInv holds initially and is inductive.
LEMMA SafeInvInductive ==
  /\ Init => SafeInv
  /\ SafeInv /\ [Next]_vars => SafeInv'
<1>1. Init => SafeInv
  <2>1. ASSUME Init PROVE OutboxOccurrenceAgree /\ AttemptBudget /\ SucceededWasAccepted
    BY <2>1, DispatcherAssumption DEF Init, OutboxOccurrenceAgree, AttemptBudget, SucceededWasAccepted
  <2>2. ASSUME Init PROVE AnswerWasAccepted /\ RequestWasCharged
    BY <2>2, Zenon DEF Init, AnswerWasAccepted, RequestWasCharged
  <2>3. QED
    BY <2>1, <2>2, TypeInvInit, Zenon DEF SafeInv
<1>2. SafeInv /\ [Next]_vars => SafeInv'
  BY TypeInvStep, AgreeStep, BudgetStep, SucceededStep, InFlightStep, Zenon DEF SafeInv
<1>3. QED
  BY <1>1, <1>2, Zenon

-----------------------------------------------------------------------------
(* The theorems.                                                           *)

\* Outbox and occurrence rows are open together and closed together, whatever
\* claims expire, cycles overlap or processes crash.
THEOREM RowsAgree == Spec => []OutboxOccurrenceAgree
<1>1. SafeInv => OutboxOccurrenceAgree
  BY Zenon DEF SafeInv
<1>2. QED
  BY <1>1, SafeInvInductive, PTL DEF Spec

\* The target sees at most max_attempts requests per occurrence.
THEOREM BudgetKept == Spec => []AttemptBudget
<1>1. SafeInv => AttemptBudget
  BY Zenon DEF SafeInv
<1>2. QED
  BY <1>1, SafeInvInductive, PTL DEF Spec

\* An occurrence is recorded as succeeded only if the target accepted the request
\* of the attempt that the occurrence reports.
THEOREM SuccessIsReal == Spec => []SucceededWasAccepted
<1>1. SafeInv => SucceededWasAccepted
  BY Zenon DEF SafeInv
<1>2. QED
  BY <1>1, SafeInvInductive, PTL DEF Spec

\* No late result, deferral, claim or recovery touches a closed occurrence.
THEOREM ClosedStaysClosed == Spec => ClosedForever
<1>1. ASSUME SafeInv, [Next]_vars, NEW o \in Occurrences, occurrence[o].status \in Terminal
      PROVE  occurrence'[o] = occurrence[o] /\ outbox'[o] = outbox[o]
  <2>1. outbox[o].status \in Terminal
    BY <1>1, Zenon DEF SafeInv, OutboxOccurrenceAgree, Terminal
  <2>2. RowStep(o)
    BY <1>1, RowSteps, Zenon DEF SafeInv
  <2>3. QED
    BY <2>1, <2>2, Zenon
       DEF RowStep, Same, Inserted, GivenUp, Taken, Charged, Finished, HoldsClaim, Terminal
<1>2. SafeInv /\ [Next]_vars =>
        [\A o \in Occurrences : occurrence[o].status \in Terminal =>
           occurrence'[o] = occurrence[o] /\ outbox'[o] = outbox[o]]_vars
  BY <1>1, Zenon
<1>3. QED
  BY <1>2, SafeInvInductive, PTL DEF Spec, ClosedForever

-----------------------------------------------------------------------------
(* No open row is put out of reach: the instants written into a row come   *)
(* from clock readings that are not in the future.                         *)

\* The instants of one row.
InReach(row, t) ==
  /\ row.status = "pending" => row.nextAttemptAt <= t
  /\ row.status = "dispatching" => row.expiresAt <= t + ClaimTTL
  /\ row.status = "retrying" =>
       row.nextAttemptAt <= t + MaxBackoffSeconds \/ row.nextAttemptAt <= t + CoordinationRetryDelay

RowsInReach == \A o \in Occurrences : InReach(outbox[o], clock)

\* What is in reach at an instant is in reach later.
LEMMA InReachLater ==
  ASSUME NEW row \in OutboxRow, NEW t \in Nat, NEW u \in Nat, t <= u, InReach(row, t)
  PROVE  InReach(row, u)
<1>1. row.expiresAt \in Int /\ row.nextAttemptAt \in Int
  BY Zenon DEF OutboxRow, OutboxColumns
<1>2. ClaimTTL \in Nat /\ MaxBackoffSeconds \in Nat /\ CoordinationRetryDelay \in Nat
  BY DispatcherAssumption, Zenon
<1> QED
  BY <1>1, <1>2 DEF InReach

\* transitionDispatch leaves its row in reach if it does not ask for more.
LEMMA TransitionInReach ==
  ASSUME TypeInv, RowsInReach, NEW c \in Cycles, work[c] \in DispatchWork,
         NEW s \in {"succeeded", "failed", "retrying"}, NEW t \in Int, TransitionDispatch(c, s, t),
         s = "retrying" => t <= clock + MaxBackoffSeconds \/ t <= clock + CoordinationRetryDelay,
         NEW o \in Occurrences
  PROVE  InReach(outbox'[o], clock)
<1>1. outbox \in [Occurrences -> OutboxRow] /\ InReach(outbox[o], clock)
  BY Zenon DEF TypeInv, TypeOK, RowsInReach
<1>2. CASE outbox'[o] = outbox[o]
  BY <1>1, <1>2, Zenon
<1>3. CASE outbox'[o] # outbox[o]
  <2>1. outbox'[o] = Settled(outbox[o], s, t)
    BY <1>1, <1>3, Zenon DEF TransitionDispatch, database
  <2>2. Settled(outbox[o], s, t).status = s /\ Settled(outbox[o], s, t).nextAttemptAt = t
    BY <1>1, SettledType DEF OutboxStatus, Terminal
  <2> QED
    BY <2>1, <2>2, Zenon DEF InReach
<1> QED
  BY <1>2, <1>3, Zenon

\* Every transaction of a cycle leaves every row in reach.
LEMMA ReachStep ==
  ASSUME TypeInv, RowsInReach, [Next]_vars
  PROVE  RowsInReach'
<1> SUFFICES ASSUME NEW o \in Occurrences PROVE InReach(outbox'[o], clock')
  BY Zenon DEF RowsInReach, InReach
<1>0. /\ clock \in Nat /\ outbox \in [Occurrences -> OutboxRow] /\ InReach(outbox[o], clock)
      /\ ClaimTTL \in Nat /\ MaxBackoffSeconds \in Nat /\ CoordinationRetryDelay \in Nat
  BY DispatcherAssumption, Zenon DEF TypeInv, TypeOK, RowsInReach
<1>1. ASSUME NEW now \in Readings PROVE now \in Nat /\ now <= clock
  BY <1>0 DEF Readings
<1>2. ASSUME UNCHANGED <<outbox, clock>> PROVE InReach(outbox'[o], clock')
  BY <1>0, <1>2, Zenon
<1>3. ASSUME NEW p \in Occurrences, InsertDispatch(p) PROVE InReach(outbox'[o], clock')
  <2>1. PICK now \in Readings :
          outbox' = [outbox EXCEPT ![p].status = "pending", ![p].nextAttemptAt = now]
    BY <1>3, Zenon DEF InsertDispatch
  <2>2. outbox'[o] = outbox[o] \/ (outbox'[o].status = "pending" /\ outbox'[o].nextAttemptAt <= clock)
    BY <1>0, <1>1, <2>1, Zenon DEF OutboxRow, OutboxColumns
  <2>3. clock' = clock
    BY <1>3, Zenon DEF InsertDispatch
  <2> QED
    BY <1>0, <2>2, <2>3, Zenon DEF InReach
<1>4. ASSUME NEW c \in Cycles, Run(c) PROVE InReach(outbox'[o], clock')
  <2>1. PICK now \in Readings, claimed \in SUBSET Occurrences : RunTx(c, now, claimed)
    BY <1>4, RunIsTx, Zenon
  <2>2. now \in Nat /\ now <= clock /\ clock' = clock /\ WorkerOf[c] \in Workers /\ outbox[o] \in OutboxRow
    BY <1>0, <1>1, <1>4, DispatcherAssumption, Zenon DEF Run
  <2>3. CASE outbox'[o] = outbox[o]
    BY <1>0, <2>2, <2>3, Zenon
  <2>4. CASE outbox'[o] = Recovered(outbox[o], now)
    <3>1. Recovered(outbox[o], now).status = "failed"
      BY <2>2, RecoveredType, SettledType DEF OutboxStatus, Terminal
    <3> QED
      BY <2>4, <3>1, Zenon DEF InReach
  <2>5. CASE outbox'[o] = Claimed(outbox[o], WorkerOf[c], now)
    <3>1. /\ Claimed(outbox[o], WorkerOf[c], now).status = "dispatching"
          /\ Claimed(outbox[o], WorkerOf[c], now).expiresAt = now + ClaimTTL
      BY <2>2, ClaimedType, Zenon
    <3> QED
      BY <1>0, <2>2, <2>5, <3>1 DEF InReach
  <2> QED
    BY <2>1, <2>3, <2>4, <2>5 DEF RunTx
<1>5. ASSUME NEW c \in Cycles, DeferDispatch(c) PROVE InReach(outbox'[o], clock')
  <2>1. PICK now \in Readings : TransitionDispatch(c, "retrying", now + CoordinationRetryDelay)
    BY <1>5, Zenon DEF DeferDispatch
  <2>2. now + CoordinationRetryDelay \in Int /\ now + CoordinationRetryDelay <= clock + CoordinationRetryDelay
    BY <1>0, <1>1
  <2>3. clock' = clock /\ work[c] \in DispatchWork
    BY <1>5, Zenon DEF DeferDispatch, TypeInv, WorkInHand, Active
  <2> QED
    BY <2>1, <2>2, <2>3, TransitionInReach, Zenon
<1>6. ASSUME NEW c \in Cycles, BeginDispatch(c) PROVE InReach(outbox'[o], clock')
  <2>0. clock' = clock /\ work[c].occ \in Occurrences
    BY <1>6, Zenon DEF BeginDispatch, TypeInv, WorkInHand, Active, DispatchWork
  <2>1. CASE outbox'[o] = outbox[o]
    BY <1>0, <2>0, <2>1, Zenon
  <2>2. CASE outbox'[o] # outbox[o]
    <3>1. PICK now \in Readings : outbox' = [outbox EXCEPT ![work[c].occ] = Begun(@, now)]
      BY <1>6, <2>2, Zenon DEF BeginDispatch, database
    <3>2. outbox'[o] = Begun(outbox[o], now) /\ now \in Nat /\ outbox[o] \in OutboxRow
      BY <1>0, <1>1, <2>2, <3>1, Zenon
    <3>3. /\ Begun(outbox[o], now).status = outbox[o].status
          /\ Begun(outbox[o], now).expiresAt = outbox[o].expiresAt
          /\ Begun(outbox[o], now).nextAttemptAt = outbox[o].nextAttemptAt
      BY <3>2, BegunType, Zenon
    <3> QED
      BY <1>0, <2>0, <3>2, <3>3, Zenon DEF InReach
  <2> QED
    BY <2>1, <2>2, Zenon
<1>7. ASSUME NEW c \in Cycles, PersistResult(c) PROVE InReach(outbox'[o], clock')
  <2>1. PICK now \in Readings : \E v \in Verdicts(work[c], result[c], now) :
          TransitionDispatch(c, v.status, v.at)
    BY <1>7, Zenon DEF PersistResult
  <2>2. PICK v \in Verdicts(work[c], result[c], now) : TransitionDispatch(c, v.status, v.at)
    BY <2>1, Zenon
  <2>3. /\ clock' = clock /\ work[c] \in DispatchWork /\ result[c] \in Results \cup {"none"}
    BY <1>7, Zenon DEF PersistResult, TypeInv, TypeOK, WorkInHand, Active
  <2>4. /\ v.status \in {"succeeded", "failed", "retrying"} /\ v.at \in Int
        /\ v.status = "retrying" => v.at <= now + MaxBackoffSeconds
    BY <1>1, <2>3, VerdictType, Zenon
  <2>5. v.status = "retrying" => v.at <= clock + MaxBackoffSeconds
    BY <1>0, <1>1, <2>4
  <2> QED
    BY <2>2, <2>3, <2>4, <2>5, TransitionInReach, Zenon
<1>8. CASE Tick
  <2>1. outbox' = outbox /\ clock' = clock + 1
    BY <1>8, Zenon DEF Tick, database
  <2> QED
    BY <1>0, <2>1, InReachLater
<1>9. ASSUME NEW c \in Cycles, AcquireLease(c) \/ TargetAccepts(c) \/ DispatchReturns(c) \/ ReleaseLease(c)
      PROVE  InReach(outbox'[o], clock')
  BY <1>2, <1>9, Zenon DEF AcquireLease, TargetAccepts, DispatchReturns, ReleaseLease, database
<1>10. ASSUME NEW w \in Workers, Crash(w) PROVE InReach(outbox'[o], clock')
  BY <1>2, <1>10, Zenon DEF Crash, database
<1>11. CASE UNCHANGED vars
  BY <1>2, <1>11, Zenon DEF vars
<1>12. ASSUME NEW c \in Cycles, Process(c) PROVE InReach(outbox'[o], clock')
  BY <1>4, <1>5, <1>6, <1>7, <1>9, <1>12, Zenon DEF Process
<1> QED
  BY <1>3, <1>8, <1>10, <1>11, <1>12, Zenon DEF Next

\* A row in reach that has an attempt left, or is claimed, is selected after its
\* longest wait.
LEMMA ReachComesBack ==
  ASSUME TypeInv, RowsInReach, NEW o \in Occurrences
  PROVE  Stranded(o) \/ ComesBack(o)
<1> DEFINE status == outbox[o].status
           then == clock + LongestWait(status)
<1> SUFFICES ASSUME status \in {"pending", "dispatching", "retrying"}, ~Stranded(o)
    PROVE  o \in Claimable(then) \cup Exhausted(then)
  BY Zenon DEF ComesBack
<1>1. /\ clock \in Nat /\ outbox[o].expiresAt \in Int /\ outbox[o].nextAttemptAt \in Int
      /\ outbox[o].attempts \in Nat /\ MaxAttempts[o] \in Nat
      /\ MaxBackoffSeconds \in Nat /\ CoordinationRetryDelay \in Nat
  BY DispatcherAssumption DEF TypeInv, TypeOK, OutboxRow, OutboxColumns
<1>2. InReach(outbox[o], clock)
  BY Zenon DEF RowsInReach
<1>3. CASE status = "pending"
  <2>1. then = clock
    BY <1>1, <1>3 DEF LongestWait
  <2> QED
    BY <1>1, <1>2, <1>3, <2>1 DEF InReach, Stranded, Claimable
<1>4. CASE status = "dispatching"
  <2>1. then = clock + ClaimTTL
    BY <1>4 DEF LongestWait
  <2> QED
    BY <1>1, <1>2, <1>4, <2>1 DEF InReach, Claimable, Exhausted
<1>5. CASE status = "retrying"
  <2>1. clock + MaxBackoffSeconds <= then /\ clock + CoordinationRetryDelay <= then /\ then \in Nat
    BY <1>1, <1>5 DEF LongestWait
  <2> HIDE DEF then
  <2> QED
    BY <1>1, <1>2, <1>5, <2>1 DEF InReach, Stranded, Claimable
<1> QED
  BY <1>3, <1>4, <1>5, Zenon

\* Whatever clock readings, crashes, overlapping cycles and lost claims, every
\* open row that is not stranded is selected again, for a claim or for recovery,
\* after the longest of the claim, the backoff and the coordination delay.
THEOREM RowsComeBack == Spec => [](\A o \in Occurrences : Stranded(o) \/ ComesBack(o))
<1>1. Init => RowsInReach
  BY DEF Init, RowsInReach, InReach
<1>2. TypeInv /\ RowsInReach => \A o \in Occurrences : Stranded(o) \/ ComesBack(o)
  BY ReachComesBack, Zenon
<1>3. TypeInv /\ RowsInReach /\ [Next]_vars => RowsInReach'
  BY ReachStep, Zenon
<1>4. TypeInv /\ [Next]_vars => TypeInv'
  BY TypeInvStep, Zenon
<1> QED
  BY <1>1, <1>2, <1>3, <1>4, TypeInvInit, PTL DEF Spec

-----------------------------------------------------------------------------
(* Dispatcher implements Delivery, proved for every instance: each step of *)
(* a worker, of the planner's insert and of the target is a step of the    *)
(* delivery promise or invisible to it.                                    *)

Stutters == DeliveryStatus' = DeliveryStatus /\ DeliveryAttempts' = DeliveryAttempts

\* A row nobody touches looks the same to the promise.
LEMMA SameRows ==
  ASSUME TypeInv, \A o \in Occurrences : Same(o)
  PROVE  Stutters
BY Zenon DEF Stutters, DeliveryStatus, DeliveryAttempts, Same

\* A dispatching row belongs to an open occurrence.
LEMMA DispatchingIsOpen ==
  ASSUME SafeInv, NEW o \in Occurrences, outbox[o].status = "dispatching"
  PROVE  DeliveryStatus[o] = "open"
BY Zenon DEF SafeInv, OutboxOccurrenceAgree, DeliveryStatus

\* Recovering rows gives up the occurrences whose attempts are used up; claiming
\* them is invisible.
LEMMA RunRefines ==
  ASSUME SafeInv, NEW c \in Cycles, Run(c)
  PROVE  Promise!Next
<1> DEFINE S == {o \in Occurrences : GivenUp(o)}
<1>1. \A o \in Occurrences : Same(o) \/ GivenUp(o) \/ Taken(o, c)
  BY RunRow, Zenon DEF SafeInv
<1>2. \A o \in S : DeliveryStatus[o] = "open" /\ DeliveryAttempts[o] > 0
  BY DispatchingIsOpen, RowNumbers DEF SafeInv, GivenUp, DeliveryAttempts
<1>3. DeliveryStatus' = [o \in Occurrences |-> IF o \in S THEN "failed" ELSE DeliveryStatus[o]]
  BY <1>1, Zenon DEF DeliveryStatus, Same, GivenUp, Taken
<1>4. DeliveryAttempts' = DeliveryAttempts
  BY <1>1, Zenon DEF DeliveryAttempts, Same, GivenUp, Taken
<1>5. accepted' = accepted
  BY Zenon DEF Run
<1>6. S \in SUBSET Occurrences
  BY Zenon
<1>7. Promise!GiveUp(S)
  BY <1>2, <1>3, <1>4, <1>5, Zenon DEF Promise!GiveUp, DeliveryAccepted
<1>8. QED
  BY <1>6, <1>7, Zenon DEF Promise!Next

\* Charging an attempt is the promise's Attempt.
LEMMA BeginRefines ==
  ASSUME SafeInv, NEW c \in Cycles, BeginDispatch(c)
  PROVE  Promise!Next \/ (Stutters /\ accepted' = accepted)
<1> DEFINE p == work[c].occ
<1>1. accepted' = accepted /\ p \in Occurrences
  BY Zenon DEF BeginDispatch, SafeInv, TypeInv, WorkInHand, Active, DispatchWork
<1>2. \A o \in Occurrences : Same(o) \/ Charged(o, c)
  BY BeginRow, Zenon DEF SafeInv
<1>3. CASE Same(p)
  <2>1. \A o \in Occurrences : Same(o)
    BY <1>2, <1>3, Zenon DEF Charged
  <2>2. QED
    BY <1>1, <2>1, SameRows, Zenon DEF SafeInv
<1>4. CASE Charged(p, c)
  <2>1. DeliveryStatus[p] = "open" /\ DeliveryAttempts[p] < MaxAttempts[p]
    BY <1>1, <1>4, DispatchingIsOpen, Zenon DEF Charged, DeliveryAttempts
  <2>2. DeliveryStatus' = DeliveryStatus
    BY <1>1, <1>2, <1>4, <2>1 DEF DeliveryStatus, Same, Charged
  <2>3. DeliveryAttempts' = [DeliveryAttempts EXCEPT ![p] = @ + 1]
    BY <1>1, <1>2, <1>4, Zenon DEF DeliveryAttempts, Same, Charged
  <2>4. Promise!Attempt(p)
    BY <1>1, <2>1, <2>2, <2>3, Zenon DEF Promise!Attempt, DeliveryAccepted
  <2>5. QED
    BY <1>1, <2>4, Zenon DEF Promise!Next
<1>5. QED
  BY <1>1, <1>2, <1>3, <1>4, Zenon

\* Finishing a row succeeds, gives up or, for a retry, is invisible.
LEMMA FinishRefines ==
  ASSUME SafeInv, NEW c \in Cycles, NEW s \in {"succeeded", "failed", "retrying"},
         work[c].occ \in Occurrences, accepted' = accepted,
         \A o \in Occurrences : Same(o) \/ Finished(o, c, s)
  PROVE  Promise!Next \/ (Stutters /\ accepted' = accepted)
<1> DEFINE p == work[c].occ
<1>1. CASE Same(p)
  <2>1. \A o \in Occurrences : Same(o)
    BY <1>1, Zenon DEF Finished
  <2>2. QED
    BY <2>1, SameRows, Zenon DEF SafeInv
<1>2. CASE Finished(p, c, s)
  <2>1. DeliveryStatus[p] = "open"
    BY <1>2, DispatchingIsOpen, Zenon DEF Finished, HoldsClaim
  <2>2. DeliveryAttempts' = DeliveryAttempts
    BY <1>2, Zenon DEF DeliveryAttempts, Same, Finished
  <2>3. CASE s = "retrying"
    BY <1>2, <2>1, <2>2, <2>3 DEF Stutters, DeliveryStatus, Same, Finished
  <2>4. CASE s = "succeeded"
    <3>1. p \in DeliveryAccepted
      <4>1. <<p, work[c].attempts>> \in accepted
        BY <1>2, <2>4, Zenon DEF Finished, SafeInv, AnswerWasAccepted
      <4>2. QED
        BY <4>1 DEF DeliveryAccepted
    <3>2. DeliveryStatus' = [DeliveryStatus EXCEPT ![p] = "succeeded"]
      BY <1>2, <2>4, Zenon DEF DeliveryStatus, Same, Finished
    <3>3. Promise!Succeed(p)
      BY <2>1, <2>2, <3>1, <3>2, Zenon DEF Promise!Succeed, DeliveryAccepted
    <3>4. QED
      BY <3>3, Zenon DEF Promise!Next
  <2>5. CASE s = "failed"
    <3>1. DeliveryAttempts[p] > 0
      BY <1>2, <2>5, Zenon DEF Finished, SafeInv, RequestWasCharged, DeliveryAttempts
    <3>2. DeliveryStatus' = [o \in Occurrences |-> IF o \in {p} THEN "failed" ELSE DeliveryStatus[o]]
      BY <1>2, <2>5, Zenon DEF DeliveryStatus, Same, Finished
    <3>3. Promise!GiveUp({p})
      BY <2>1, <2>2, <3>1, <3>2, Zenon DEF Promise!GiveUp, DeliveryAccepted
    <3>4. QED
      BY <3>3, Zenon DEF Promise!Next
  <2>6. QED
    BY <2>3, <2>4, <2>5, Zenon
<1>3. QED
  BY <1>1, <1>2, Zenon

\* Every step of the system is a step of the promise or a stutter.
LEMMA StepRefines ==
  ASSUME SafeInv, [Next]_vars
  PROVE  Promise!Next \/ (Stutters /\ accepted' = accepted)
<1>1. TypeInv
  BY Zenon DEF SafeInv
<1>2. ASSUME UNCHANGED <<outbox, occurrence, accepted>> PROVE Stutters /\ accepted' = accepted
  BY <1>2, Zenon DEF Stutters, DeliveryStatus, DeliveryAttempts
<1>3. ASSUME NEW p \in Occurrences, InsertDispatch(p) PROVE Promise!Next
  <2>1. PICK now \in Readings :
          outbox' = [outbox EXCEPT ![p].status = "pending", ![p].nextAttemptAt = now]
    BY <1>3, Zenon DEF InsertDispatch
  <2>2. /\ outbox[p].status = "absent" /\ accepted' = accepted
        /\ occurrence' = [occurrence EXCEPT ![p].status = "pending"]
    BY <1>3, Zenon DEF InsertDispatch
  <2>3. DeliveryStatus[p] = "absent"
    BY <2>2, Zenon DEF SafeInv, OutboxOccurrenceAgree, DeliveryStatus
  <2>4. DeliveryStatus' = [DeliveryStatus EXCEPT ![p] = "open"]
    BY <1>1, <2>2 DEF DeliveryStatus, TypeInv, TypeOK
  <2>5. DeliveryAttempts' = DeliveryAttempts
    BY <1>1, <2>1 DEF DeliveryAttempts, TypeInv, TypeOK, OutboxRow, OutboxColumns
  <2>6. Promise!Open(p)
    BY <2>2, <2>3, <2>4, <2>5, Zenon DEF Promise!Open, DeliveryAccepted
  <2>7. QED
    BY <2>6, Zenon DEF Promise!Next
<1>4. ASSUME NEW c \in Cycles, DeferDispatch(c) \/ PersistResult(c)
      PROVE  Promise!Next \/ (Stutters /\ accepted' = accepted)
  <2>1. work[c].occ \in Occurrences /\ accepted' = accepted
    BY <1>1, <1>4, Zenon DEF DeferDispatch, PersistResult, TypeInv, WorkInHand, Active, DispatchWork
  <2>2. PICK s \in {"succeeded", "failed", "retrying"} :
          \A o \in Occurrences : Same(o) \/ Finished(o, c, s)
    BY <1>1, <1>4, DeferRows, PersistRows, Zenon
  <2>3. QED
    BY <2>1, <2>2, FinishRefines, Zenon
<1>5. ASSUME NEW c \in Cycles, TargetAccepts(c) PROVE Promise!Next
  <2>1. work[c].occ \in Occurrences /\ DeliveryAttempts[work[c].occ] > 0
    BY <1>1, <1>5, Zenon DEF TargetAccepts, SafeInv, RequestWasCharged, TypeInv, WorkInHand, Active,
                      DispatchWork, DeliveryAttempts
  <2>2. DeliveryAccepted' = DeliveryAccepted \cup {work[c].occ}
    <3> DEFINE new == <<work[c].occ, work[c].attempts>>
    <3>1. accepted' = accepted \cup {new}
      BY <1>5, Zenon DEF TargetAccepts
    <3>2. new[1] = work[c].occ
      OBVIOUS
    <3> HIDE DEF new
    <3>3. QED
      BY <3>1, <3>2, Zenon DEF DeliveryAccepted
  <2>3. Promise!Accept(work[c].occ)
    BY <1>5, <2>1, <2>2, Zenon
       DEF TargetAccepts, database, DeliveryStatus, DeliveryAttempts, Promise!Accept
  <2>4. QED
    BY <2>1, <2>3, Zenon DEF Promise!Next
<1>6. ASSUME NEW c \in Cycles, AcquireLease(c) \/ DispatchReturns(c) \/ ReleaseLease(c)
      PROVE  Stutters /\ accepted' = accepted
  BY <1>2, <1>6, Zenon DEF AcquireLease, DispatchReturns, ReleaseLease, database
<1>7. ASSUME NEW w \in Workers, Crash(w) PROVE Stutters /\ accepted' = accepted
  BY <1>2, <1>7, Zenon DEF Crash, database
<1>8. CASE Tick \/ UNCHANGED vars
  BY <1>2, <1>8, Zenon DEF Tick, vars, database
<1>9. QED
  BY <1>3, <1>4, <1>5, <1>6, <1>7, <1>8, RunRefines, BeginRefines, Zenon DEF Next, Process

\* The dispatcher delivers what docs/RELIABILITY.md promises, for any number of
\* workers, overlapping cycles, crashes and lost acknowledgements: an occurrence
\* is opened once, spends at most max_attempts attempts, and is closed once, as
\* succeeded only if accepted and as failed only after an attempt.
THEOREM DeliveryKept == Spec => ImplementsDelivery
<1>1. Init => Promise!Init
  BY DEF Init, Promise!Init, DeliveryStatus, DeliveryAttempts, DeliveryAccepted
<1>2. SafeInv /\ [Next]_vars => [Promise!Next]_(Promise!deliveryVars)
  BY StepRefines, Zenon DEF Stutters, Promise!deliveryVars, DeliveryAccepted
<1>3. QED
  BY <1>1, <1>2, SafeInvInductive, PTL DEF Spec, ImplementsDelivery, Promise!Spec

-----------------------------------------------------------------------------
(* A copy a cycle has read of a row may grow old, but it never runs ahead  *)
(* of the row, and the copies of a process that runs one cycle at a time   *)
(* are current for as long as it owns the row.  The run stranded_row shows *)
(* what an old copy does.                                                  *)

\* c is the only cycle of its process.
Alone(c) == \A d \in Cycles : WorkerOf[c] = WorkerOf[d] => c = d

\* Program counters at which a cycle may still act on the row in hand.
InHand == {"defer", "begin", "calling", "reached", "persist"}

\* No copy of a row is ahead of the row, and the copies of which an attempt is
\* still to be made have one left.
Behind(c) ==
  /\ \A w \in batch[c] : /\ w.attempts <= outbox[w.occ].attempts
                         /\ w.attempts < MaxAttempts[w.occ]
  /\ pc[c] \in InHand => work[c].attempts <= outbox[work[c].occ].attempts
  /\ pc[c] \in {"defer", "begin"} => work[c].attempts < MaxAttempts[work[c].occ]

\* While cycle c owns the row of w, w tells how many attempts are charged.
Current(c, w) ==
  (outbox[w.occ].status = "dispatching" /\ outbox[w.occ].owner = WorkerOf[c])
    => w.attempts = outbox[w.occ].attempts

KnowsItsRows(c) ==
  /\ pc[c] = "idle" => batch[c] = {}
  /\ \A w \in batch[c] : Current(c, w)
  /\ \A v, w \in batch[c] : v.occ = w.occ => v = w
  /\ pc[c] \in InHand => Current(c, work[c]) /\ \A w \in batch[c] : w.occ # work[c].occ

\* A row that is not inserted yet has spent no attempt.
AbsentIsFresh == \A o \in Occurrences : outbox[o].status = "absent" => outbox[o].attempts = 0

CopyInv ==
  /\ TypeInv
  /\ \A c \in Cycles : Behind(c)
  /\ \A c \in Cycles : Alone(c) => KnowsItsRows(c)
  /\ AbsentIsFresh

\* A row Run hands to its cycle is as the statement left it and has an attempt left.
LEMMA RunCopies ==
  ASSUME TypeInv, NEW c \in Cycles, Run(c)
  PROVE  \/ batch'[c] = batch[c] /\ pc'[c] = pc[c]
         \/ /\ pc'[c] = "next"
            /\ \A w \in batch'[c] : /\ w.occ \in Occurrences
                                    /\ w = Snapshot(w.occ, outbox[w.occ])
                                    /\ w.attempts = outbox'[w.occ].attempts
                                    /\ w.attempts < MaxAttempts[w.occ]
<1>1. PICK now \in Readings, claimed \in SUBSET Occurrences : RunTx(c, now, claimed)
  BY RunIsTx, Zenon
<1>2. CASE UNCHANGED <<batch, pc>>
  BY <1>2, Zenon
<1>3. CASE /\ batch' = [batch EXCEPT ![c] = {Snapshot(o, outbox[o]) : o \in claimed}]
           /\ pc' = [pc EXCEPT ![c] = "next"]
  <2>1. batch'[c] = {Snapshot(o, outbox[o]) : o \in claimed} /\ pc'[c] = "next"
    BY <1>3, Zenon DEF TypeInv, TypeOK
  <2>2. ASSUME NEW w \in batch'[c]
        PROVE  /\ w = Snapshot(w.occ, outbox[w.occ]) /\ w.occ \in Occurrences
               /\ w.attempts = outbox[w.occ].attempts
               /\ outbox[w.occ].attempts < MaxAttempts[w.occ]
    <3>1. PICK o \in claimed : w = Snapshot(o, outbox[o])
      BY <2>1, <2>2, Zenon
    <3>2. o \in Claimable(now)
      BY <1>1, Zenon DEF RunTx
    <3>3. QED
      BY <3>1, <3>2, Zenon DEF Snapshot, Claimable
  <2>3. ASSUME NEW w \in batch'[c] PROVE outbox'[w.occ].attempts = outbox[w.occ].attempts
    <3>1. Same(w.occ) \/ GivenUp(w.occ) \/ Taken(w.occ, c)
      BY <2>2, RunRow, Zenon
    <3>2. QED
      BY <3>1, Zenon DEF Same, GivenUp, Taken
  <2>4. QED
    BY <2>1, <2>2, <2>3, Zenon
<1>4. QED
  BY <1>1, <1>2, <1>3, Zenon DEF RunTx

\* The row BeginDispatch hands to its cycle is as the statement left it.
LEMMA BeginCopies ==
  ASSUME TypeInv, NEW c \in Cycles, BeginDispatch(c), ~ LeaveProcess(c)
  PROVE  /\ pc'[c] = "calling" /\ work'[c].occ = work[c].occ
         /\ work'[c].attempts = outbox'[work[c].occ].attempts
<1> DEFINE p == work[c].occ
<1>1. PICK now \in Readings :
        /\ outbox' = [outbox EXCEPT ![p] = Begun(@, now)]
        /\ work' = [work EXCEPT ![c] = Snapshot(p, Begun(outbox[p], now))]
        /\ pc' = [pc EXCEPT ![c] = "calling"]
  BY Zenon DEF BeginDispatch
<1>2. p \in Occurrences
  BY Zenon DEF BeginDispatch, TypeInv, WorkInHand, Active, DispatchWork
<1>3. /\ outbox'[p] = Begun(outbox[p], now) /\ pc'[c] = "calling"
      /\ work'[c] = Snapshot(p, Begun(outbox[p], now))
  BY <1>1, <1>2, Zenon DEF TypeInv, TypeOK
<1>4. \A row : Snapshot(p, row).occ = p /\ Snapshot(p, row).attempts = row.attempts
  BY Zenon DEF Snapshot
<1>5. QED
  BY <1>3, <1>4, Zenon

\* Row changes that are not a claim or a charge of cycle c.
Foreign(o, c) ==
  \/ Same(o) \/ Inserted(o) \/ GivenUp(o)
  \/ \E d \in Cycles : d # c /\ (Taken(o, d) \/ Charged(o, d))
  \/ \E d \in Cycles : \E s \in {"succeeded", "failed", "retrying"} : Finished(o, d, s)

\* What c knows of a row survives every change that is not its own.
LEMMA CurrentSurvives ==
  ASSUME NEW c \in Cycles, Alone(c), NEW w \in DispatchWork, Current(c, w),
         Foreign(w.occ, c)
  PROVE  (/\ outbox'[w.occ].status = "dispatching"
          /\ outbox'[w.occ].owner = WorkerOf[c]) => w.attempts = outbox'[w.occ].attempts
BY Zenon DEF Alone, Current, Foreign, Same, Inserted, GivenUp, Taken, Charged, Finished

\* A cycle that takes no step keeps knowing its rows.
LEMMA BystanderKnows ==
  ASSUME TypeInv, NEW c \in Cycles, Alone(c), KnowsItsRows(c),
         pc'[c] = pc[c], batch'[c] = batch[c], work'[c] = work[c],
         \A o \in Occurrences : Foreign(o, c)
  PROVE  KnowsItsRows(c)'
<1>1. \A w \in batch[c] : w \in DispatchWork /\ w.occ \in Occurrences
  <2>1. batch[c] \subseteq DispatchWork
    BY Zenon DEF TypeInv, TypeOK
  <2>2. QED
    BY <2>1, Zenon DEF DispatchWork
<1>2. pc[c] \in InHand => work[c] \in DispatchWork /\ work[c].occ \in Occurrences
  BY Zenon DEF TypeInv, WorkInHand, InHand, Active, DispatchWork
<1>3. ASSUME NEW w \in batch[c] PROVE Current(c, w)'
  BY <1>1, <1>3, CurrentSurvives, Zenon DEF KnowsItsRows, Current
<1>4. ASSUME pc[c] \in InHand PROVE Current(c, work[c])'
  BY <1>2, <1>4, CurrentSurvives, Zenon DEF KnowsItsRows, Current
<1>5. QED
  BY <1>3, <1>4, Zenon DEF KnowsItsRows

\* A cycle that puts its row down keeps knowing the rest of its batch.
LEMMA PutDownKnows ==
  ASSUME TypeInv, NEW c \in Cycles, Alone(c), KnowsItsRows(c),
         NextItem(c) \/ LeaveProcess(c), batch'[c] = batch[c],
         \A o \in Occurrences : Foreign(o, c) \/ (o = work[c].occ /\ pc[c] \in InHand)
  PROVE  KnowsItsRows(c)'
<1>1. \A w \in batch[c] : w \in DispatchWork /\ w.occ \in Occurrences
  <2>1. batch[c] \subseteq DispatchWork
    BY Zenon DEF TypeInv, TypeOK
  <2>2. QED
    BY <2>1, Zenon DEF DispatchWork
<1>2. ASSUME NEW w \in batch[c] PROVE Current(c, w)'
  BY <1>1, <1>2, CurrentSurvives, Zenon DEF KnowsItsRows, Current
<1>3. pc'[c] \notin InHand /\ (pc'[c] = "idle" => batch[c] = {})
  BY Zenon DEF TypeInv, TypeOK, NextItem, LeaveProcess, InHand
<1>4. QED
  BY <1>2, <1>3, Zenon DEF KnowsItsRows, InHand

\* After Run a cycle knows the rows it claimed, also when the acknowledgement of
\* the commit was lost and it knows of none.
LEMMA RunKnows ==
  ASSUME TypeInv, NEW c \in Cycles, Alone(c), KnowsItsRows(c), Run(c)
  PROVE  KnowsItsRows(c)'
<1>1. pc[c] = "idle" /\ batch[c] = {}
  BY Zenon DEF Run, KnowsItsRows
<1>2. CASE batch'[c] = batch[c] /\ pc'[c] = pc[c]
  BY <1>1, <1>2, Zenon DEF KnowsItsRows, InHand
<1>3. CASE pc'[c] = "next" /\ \A w \in batch'[c] : /\ w = Snapshot(w.occ, outbox[w.occ])
                                                   /\ w.attempts = outbox'[w.occ].attempts
  <2>1. ASSUME NEW v \in batch'[c], NEW w \in batch'[c], v.occ = w.occ PROVE v = w
    BY <1>3, <2>1, Zenon
  <2>2. QED
    BY <1>3, <2>1, Zenon DEF KnowsItsRows, Current, InHand
<1>4. QED
  BY <1>2, <1>3, RunCopies, Zenon

\* Taking the next row of the batch in hand.
LEMMA AcquireKnows ==
  ASSUME TypeInv, NEW c \in Cycles, KnowsItsRows(c), AcquireLease(c)
  PROVE  KnowsItsRows(c)'
<1>1. PICK w \in batch[c] :
        /\ batch' = [batch EXCEPT ![c] = @ \ {w}]
        /\ work' = [work EXCEPT ![c] = w]
        /\ pc' = [pc EXCEPT ![c] = "begin"] \/ pc' = [pc EXCEPT ![c] = "defer"]
  BY Zenon DEF AcquireLease
<1>2. /\ batch'[c] = batch[c] \ {w} /\ work'[c] = w /\ pc'[c] \in {"begin", "defer"}
      /\ outbox' = outbox
  BY <1>1, Zenon DEF AcquireLease, TypeInv, TypeOK, database
<1>3. ASSUME NEW v \in batch[c] PROVE Current(c, v)'
  BY <1>2, <1>3, Zenon DEF KnowsItsRows, Current
<1>4. Current(c, work[c])'
  BY <1>2, <1>3, Zenon DEF Current
<1>5. QED
  BY <1>2, <1>3, <1>4, Zenon DEF KnowsItsRows, InHand

\* BeginDispatch hands the charged row back to the cycle.
LEMMA BeginKnows ==
  ASSUME TypeInv, NEW c \in Cycles, Alone(c), KnowsItsRows(c), BeginDispatch(c)
  PROVE  KnowsItsRows(c)'
<1> DEFINE p == work[c].occ
<1>1. pc[c] = "begin" /\ p \in Occurrences /\ batch' = batch
  BY Zenon DEF BeginDispatch, TypeInv, WorkInHand, Active, DispatchWork
<1>2. \A o \in Occurrences : Same(o) \/ Charged(o, c)
  BY BeginRow, Zenon
<1>3. \A o \in Occurrences : o # p => Same(o)
  BY <1>2, Zenon DEF Charged
<1>4. CASE LeaveProcess(c)
  BY <1>1, <1>3, <1>4, PutDownKnows, Zenon DEF Foreign, InHand
<1>5. CASE ~ LeaveProcess(c)
  <2>1. pc'[c] = "calling" /\ work'[c].occ = p /\ work'[c].attempts = outbox'[p].attempts
    BY <1>5, BeginCopies, Zenon
  <2>2. ASSUME NEW w \in batch[c]
        PROVE  w.occ \in Occurrences /\ w.occ # p /\ outbox'[w.occ] = outbox[w.occ]
    <3>1. batch[c] \subseteq DispatchWork
      BY Zenon DEF TypeInv, TypeOK
    <3>2. w.occ \in Occurrences /\ w.occ # p
      BY <1>1, <3>1, Zenon DEF KnowsItsRows, InHand, DispatchWork
    <3>3. QED
      BY <1>3, <3>2, Zenon DEF Same
  <2>3. QED
    BY <1>1, <2>1, <2>2, Zenon DEF KnowsItsRows, Current, InHand
<1>6. QED
  BY <1>4, <1>5, Zenon

\* The rows a step of cycle d changes are foreign to every other cycle.
LEMMA StepIsForeign ==
  ASSUME TypeInv, NEW c \in Cycles, NEW d \in Cycles, d # c, Process(d), NEW o \in Occurrences
  PROVE  Foreign(o, c)
<1>1. CASE Run(d)
  BY <1>1, RunRow, Zenon DEF Foreign
<1>2. CASE BeginDispatch(d)
  BY <1>2, BeginRow, Zenon DEF Foreign
<1>3. CASE DeferDispatch(d) \/ PersistResult(d)
  <2>1. PICK s \in {"succeeded", "failed", "retrying"} : Same(o) \/ Finished(o, d, s)
    BY <1>3, DeferRows, PersistRows, Zenon
  <2>2. QED
    BY <2>1, Zenon DEF Foreign
<1>4. CASE AcquireLease(d) \/ TargetAccepts(d) \/ DispatchReturns(d) \/ ReleaseLease(d)
  BY <1>4, Zenon DEF AcquireLease, TargetAccepts, DispatchReturns, ReleaseLease, database, Foreign, Same
<1>5. QED
  BY <1>1, <1>2, <1>3, <1>4, Zenon DEF Process

\* A step of another cycle leaves the variables of this one alone.
LEMMA StepIsLocal ==
  ASSUME TypeInv, NEW c \in Cycles, NEW d \in Cycles, d # c, Process(d)
  PROVE  pc'[c] = pc[c] /\ batch'[c] = batch[c] /\ work'[c] = work[c]
<1>1. CASE Run(d)
  BY <1>1, Zenon DEF Run, TypeInv, TypeOK
<1>2. CASE BeginDispatch(d)
  BY <1>2, Zenon DEF BeginDispatch, LeaveProcess, NextItem, TypeInv, TypeOK
<1>3. CASE DeferDispatch(d) \/ PersistResult(d) \/ ReleaseLease(d)
  BY <1>3, Zenon DEF DeferDispatch, PersistResult, ReleaseLease, LeaveProcess, NextItem, TypeInv, TypeOK
<1>4. CASE AcquireLease(d) \/ TargetAccepts(d) \/ DispatchReturns(d)
  BY <1>4, Zenon DEF AcquireLease, TargetAccepts, DispatchReturns, TypeInv, TypeOK
<1>5. QED
  BY <1>1, <1>2, <1>3, <1>4, Zenon DEF Process

\* A step of a cycle leaves it knowing its rows.
LEMMA ActorKnows ==
  ASSUME TypeInv, NEW c \in Cycles, Alone(c), KnowsItsRows(c), Process(c)
  PROVE  KnowsItsRows(c)'
<1>1. CASE DeferDispatch(c) \/ PersistResult(c)
  <2>1. PICK s \in {"succeeded", "failed", "retrying"} :
          \A o \in Occurrences : Same(o) \/ Finished(o, c, s)
    BY <1>1, DeferRows, PersistRows, Zenon
  <2>2. \A o \in Occurrences : Foreign(o, c)
    BY <2>1, Zenon DEF Foreign
  <2>3. batch'[c] = batch[c] /\ (NextItem(c) \/ LeaveProcess(c))
    BY <1>1, Zenon DEF DeferDispatch, PersistResult
  <2>4. QED
    BY <2>2, <2>3, PutDownKnows, Zenon
<1>2. CASE ReleaseLease(c)
  <2>1. \A o \in Occurrences : Foreign(o, c)
    BY <1>2, Zenon DEF ReleaseLease, database, Foreign, Same
  <2>2. batch'[c] = batch[c] /\ NextItem(c)
    BY <1>2, Zenon DEF ReleaseLease
  <2>3. QED
    BY <2>1, <2>2, PutDownKnows, Zenon
<1>3. CASE TargetAccepts(c) \/ DispatchReturns(c)
  <2>1. /\ pc[c] \in InHand /\ pc'[c] \in {"reached", "persist"}
        /\ batch' = batch /\ work' = work /\ outbox' = outbox
    BY <1>3, Zenon DEF TargetAccepts, DispatchReturns, InHand, TypeInv, TypeOK, database
  <2>2. QED
    BY <2>1, Zenon DEF KnowsItsRows, Current, InHand
<1>4. QED
  BY <1>1, <1>2, <1>3, RunKnows, AcquireKnows, BeginKnows, Zenon DEF Process

\* Every cycle keeps knowing its rows.
LEMMA KnowledgeStep ==
  ASSUME TypeInv, NEW c \in Cycles, Alone(c), KnowsItsRows(c), [Next]_vars
  PROVE  KnowsItsRows(c)'
<1>1. ASSUME NEW d \in Cycles, Process(d) PROVE KnowsItsRows(c)'
  BY <1>1, ActorKnows, BystanderKnows, StepIsForeign, StepIsLocal, Zenon
<1>2. ASSUME NEW p \in Occurrences, InsertDispatch(p) PROVE KnowsItsRows(c)'
  <2>1. \A o \in Occurrences : o # p => outbox'[o] = outbox[o]
    BY <1>2, Zenon DEF InsertDispatch, TypeInv, TypeOK
  <2>2. outbox'[p].status = "pending"
    BY <1>2 DEF InsertDispatch, TypeInv, TypeOK, OutboxRow, OutboxColumns
  <2>3. pc' = pc /\ batch' = batch /\ work' = work
    BY <1>2, Zenon DEF InsertDispatch, local
  <2>4. \A w \in batch[c] : w.occ \in Occurrences
    BY DEF TypeInv, TypeOK, DispatchWork
  <2>5. pc[c] \in InHand => work[c].occ \in Occurrences
    BY Zenon DEF TypeInv, WorkInHand, InHand, Active, DispatchWork
  <2>6. QED
    BY <2>1, <2>2, <2>3, <2>4, <2>5, Zenon DEF KnowsItsRows, Current
<1>3. ASSUME NEW w \in Workers, Crash(w) PROVE KnowsItsRows(c)'
  <2>1. outbox' = outbox
    BY <1>3, Zenon DEF Crash, database
  <2>2. CASE WorkerOf[c] = w
    BY <1>3, <2>2, Zenon DEF Crash, KnowsItsRows, InHand
  <2>3. CASE WorkerOf[c] # w
    BY <1>3, <2>1, <2>3, Zenon DEF Crash, KnowsItsRows, Current
  <2>4. QED
    BY <2>2, <2>3, Zenon
<1>4. CASE Tick \/ UNCHANGED vars
  BY <1>4, Zenon DEF Tick, vars, database, local, KnowsItsRows, Current
<1>5. QED
  BY <1>1, <1>2, <1>3, <1>4, Zenon DEF Next

\* Where the copies of a cycle come from: they are as the row is after the step,
\* or the cycle had them before.
CopyStep(c) ==
  \/ /\ pc'[c] \notin InHand
     /\ \A w \in batch'[c] : /\ w.occ \in Occurrences
                             /\ w.attempts = outbox'[w.occ].attempts
                             /\ w.attempts < MaxAttempts[w.occ]
  \/ /\ batch'[c] \subseteq batch[c]
     /\ \/ pc'[c] \notin InHand
        \/ /\ pc[c] \in InHand /\ work'[c] = work[c]
           /\ pc'[c] = pc[c] \/ pc'[c] \in {"reached", "persist"}
        \/ pc'[c] \in {"begin", "defer"} /\ work'[c] \in batch[c]
        \/ pc'[c] = "calling" /\ work'[c].attempts = outbox'[work'[c].occ].attempts

LEMMA CopySteps ==
  ASSUME TypeInv, NEW c \in Cycles, [Next]_vars
  PROVE  CopyStep(c)
<1>1. ASSUME pc'[c] = pc[c], batch'[c] = batch[c], work'[c] = work[c] PROVE CopyStep(c)
  BY <1>1, Zenon DEF CopyStep
<1>2. ASSUME NextItem(c) \/ LeaveProcess(c), batch' = batch PROVE CopyStep(c)
  <2>1. pc'[c] \notin InHand
    BY <1>2, Zenon DEF TypeInv, TypeOK, NextItem, LeaveProcess, InHand
  <2>2. QED
    BY <1>2, <2>1, Zenon DEF CopyStep
<1>3. CASE Run(c)
  <2>1. pc[c] = "idle" /\ work' = work
    BY <1>3, Zenon DEF Run
  <2>2. QED
    BY <1>1, <1>3, <2>1, RunCopies, Zenon DEF CopyStep, InHand
<1>4. CASE AcquireLease(c)
  <2>1. PICK w \in batch[c] :
          /\ batch' = [batch EXCEPT ![c] = @ \ {w}]
          /\ work' = [work EXCEPT ![c] = w]
          /\ pc' = [pc EXCEPT ![c] = "begin"] \/ pc' = [pc EXCEPT ![c] = "defer"]
    BY <1>4, Zenon DEF AcquireLease
  <2>2. batch'[c] = batch[c] \ {w} /\ work'[c] = w /\ pc'[c] \in {"begin", "defer"}
    BY <2>1, Zenon DEF TypeInv, TypeOK
  <2>3. QED
    BY <2>2, Zenon DEF CopyStep
<1>5. CASE BeginDispatch(c)
  <2>1. batch' = batch
    BY <1>5, Zenon DEF BeginDispatch
  <2>2. QED
    BY <1>2, <1>5, <2>1, BeginCopies, Zenon DEF CopyStep
<1>6. CASE DeferDispatch(c) \/ PersistResult(c) \/ ReleaseLease(c)
  BY <1>2, <1>6, Zenon DEF DeferDispatch, PersistResult, ReleaseLease
<1>7. CASE TargetAccepts(c) \/ DispatchReturns(c)
  <2>1. pc[c] \in InHand /\ pc'[c] \in {"reached", "persist"} /\ batch' = batch /\ work' = work
    BY <1>7, Zenon DEF TargetAccepts, DispatchReturns, InHand, TypeInv, TypeOK
  <2>2. QED
    BY <2>1, Zenon DEF CopyStep
<1>8. ASSUME NEW d \in Cycles, Process(d) PROVE CopyStep(c)
  BY <1>1, <1>3, <1>4, <1>5, <1>6, <1>7, <1>8, StepIsLocal, Zenon DEF Process
<1>9. ASSUME NEW w \in Workers, Crash(w) PROVE CopyStep(c)
  BY <1>1, <1>9, Zenon DEF Crash, CopyStep, InHand
<1>10. ASSUME UNCHANGED local PROVE CopyStep(c)
  BY <1>1, <1>10, Zenon DEF local
<1>11. QED
  BY <1>8, <1>9, <1>10, Zenon DEF Next, InsertDispatch, Tick, vars, local

\* No step lets a copy run ahead of its row, because attempts are only added.
LEMMA BehindStep ==
  ASSUME TypeInv, NEW c \in Cycles, Behind(c), [Next]_vars
  PROVE  Behind(c)'
<1>1. ASSUME NEW w \in DispatchWork, w.attempts <= outbox[w.occ].attempts
      PROVE  w.attempts <= outbox'[w.occ].attempts
  <2>1. w.occ \in Occurrences /\ w.attempts \in Nat
    BY Zenon DEF DispatchWork
  <2>2. QED
    BY <1>1, <2>1, AttemptsGrow, RowNumbers
<1>2. /\ batch[c] \subseteq DispatchWork
      /\ pc[c] \in InHand => work[c] \in DispatchWork
  BY Zenon DEF TypeInv, TypeOK, WorkInHand, InHand, Active
<1>3. ASSUME NEW o \in Occurrences PROVE outbox'[o].attempts <= outbox'[o].attempts
  BY AttemptsGrow
<1>4. \A w \in batch'[c] : w.attempts <= outbox'[w.occ].attempts /\ w.attempts < MaxAttempts[w.occ]
  BY <1>1, <1>2, <1>3, CopySteps, Zenon DEF CopyStep, Behind
<1>5. ASSUME pc'[c] \in InHand
      PROVE  /\ work'[c].attempts <= outbox'[work'[c].occ].attempts
             /\ pc'[c] \in {"defer", "begin"} => work'[c].attempts < MaxAttempts[work'[c].occ]
  <2>1. work'[c].occ \in Occurrences
    BY <1>5, TypeInvStep, Zenon DEF TypeInv, WorkInHand, InHand, Active, DispatchWork
  <2>2. CASE pc[c] \in InHand /\ work'[c] = work[c] /\ (pc'[c] = pc[c] \/ pc'[c] \in {"reached", "persist"})
    BY <1>1, <1>2, <2>2, Zenon DEF Behind
  <2>3. CASE pc'[c] \in {"begin", "defer"} /\ work'[c] \in batch[c]
    BY <1>1, <1>2, <2>3, Zenon DEF Behind
  <2>4. CASE pc'[c] = "calling" /\ work'[c].attempts = outbox'[work'[c].occ].attempts
    BY <1>3, <2>1, <2>4, Zenon
  <2>5. QED
    BY <1>5, <2>2, <2>3, <2>4, CopySteps, Zenon DEF CopyStep
<1>6. QED
  BY <1>4, <1>5, Zenon DEF Behind, InHand

\* CopyInv holds initially and is inductive.
LEMMA CopyInvInductive ==
  /\ Init => CopyInv
  /\ CopyInv /\ [Next]_vars => CopyInv'
<1>1. ASSUME Init PROVE CopyInv
  <2>1. \A c \in Cycles : Behind(c) /\ KnowsItsRows(c)
    BY <1>1, Zenon DEF Init, Behind, KnowsItsRows, InHand
  <2>2. AbsentIsFresh
    BY <1>1, Zenon DEF Init, AbsentIsFresh
  <2>3. QED
    BY <1>1, <2>1, <2>2, TypeInvInit, Zenon DEF CopyInv
<1>2. ASSUME CopyInv, [Next]_vars PROVE CopyInv'
  <2>1. \A c \in Cycles : Behind(c)' /\ (Alone(c) => KnowsItsRows(c)')
    BY <1>2, BehindStep, KnowledgeStep, Zenon DEF CopyInv
  <2>2. ASSUME NEW o \in Occurrences, outbox'[o].status = "absent" PROVE outbox'[o].attempts = 0
    <3>1. RowStep(o)
      BY <1>2, RowSteps, Zenon DEF CopyInv
    <3>2. QED
      BY <1>2, <2>2, <3>1, Zenon DEF CopyInv, AbsentIsFresh, RowStep, Same, Inserted, GivenUp,
         Taken, Charged, Finished
  <2>3. QED
    BY <1>2, <2>1, <2>2, TypeInvStep, Zenon DEF CopyInv, AbsentIsFresh, Alone
<1>3. QED
  BY <1>1, <1>2, Zenon

\* A cycle that finishes a row with an outdated copy shares its process with
\* another; with a current copy it reports what is charged, and puts the row back
\* only with an attempt left.
LEMMA FinishedCopy ==
  ASSUME CopyInv, NEW c \in Cycles, NEW o \in Occurrences,
         NEW s \in {"succeeded", "failed", "retrying"}, Finished(o, c, s)
  PROVE  \/ StaleWrite(o)
         \/ /\ work[c].attempts = outbox[o].attempts
            /\ s = "retrying" => outbox[o].attempts < MaxAttempts[o]
<1>1. /\ pc[c] \in {"defer", "persist"} /\ work[c].occ = o /\ HoldsClaim(c)
      /\ s = "retrying" => pc[c] = "defer" \/ work[c].attempts < MaxAttempts[o]
  BY Zenon DEF Finished
<1>2. work[c].attempts <= outbox[o].attempts /\ (s = "retrying" => work[c].attempts < MaxAttempts[o])
  BY <1>1, Zenon DEF CopyInv, Behind, InHand
<1>3. CASE work[c].attempts = outbox[o].attempts
  BY <1>2, <1>3, Zenon
<1>4. CASE work[c].attempts # outbox[o].attempts
  <2>1. work[c].attempts \in Nat /\ outbox[o].attempts \in Nat
    <3>1. work[c].attempts \in Nat
      BY <1>1, Zenon DEF CopyInv, TypeInv, WorkInHand, Active, DispatchWork
    <3>2. QED
      BY <3>1, RowNumbers, Zenon DEF CopyInv
  <2>2. work[c].attempts < outbox[o].attempts
    BY <1>2, <1>4, <2>1
  <2>3. ~ Alone(c)
    BY <1>1, <1>4, Zenon DEF CopyInv, KnowsItsRows, Current, InHand, HoldsClaim
  <2>4. QED
    BY <1>1, <2>2, <2>3, Zenon DEF Alone, StaleWrite
<1>5. QED
  BY <1>3, <1>4, Zenon

\* No row is stranded, and no occurrence reports other attempts than were charged,
\* but by the write of one of several cycles of a process that works on an
\* outdated copy of the row.  A process that runs one cycle at a time, whatever
\* crashes, claims that expire and acknowledgements that are lost, does neither.
THEOREM HarmIsStale == Spec => OnlyStaleWritesHarm
<1> DEFINE Harmless(o) ==
      /\ ~Stranded(o) => ~Stranded(o)' \/ StaleWrite(o)
      /\ occurrence[o].attempts = outbox[o].attempts =>
           occurrence'[o].attempts = outbox'[o].attempts \/ StaleWrite(o)
<1>1. ASSUME CopyInv, [Next]_vars, NEW o \in Occurrences PROVE Harmless(o)
  <2>1. RowStep(o) /\ outbox[o].attempts \in Nat /\ MaxAttempts[o] \in Nat /\ MaxAttempts[o] > 0
    BY <1>1, RowSteps, RowNumbers, Zenon DEF CopyInv
  <2>2. CASE Inserted(o)
    <3>1. outbox[o].attempts = 0
      BY <1>1, <2>2, Zenon DEF CopyInv, AbsentIsFresh, Inserted
    <3>2. ~Stranded(o)'
      BY <2>1, <2>2, <3>1 DEF Stranded, Inserted
    <3>3. QED
      BY <2>2, <3>2, Zenon DEF Inserted
  <2>3. ASSUME NEW c \in Cycles, NEW s \in {"succeeded", "failed", "retrying"}, Finished(o, c, s)
        PROVE  Harmless(o)
    <3>1. CASE StaleWrite(o)
      BY <3>1, Zenon
    <3>2. CASE /\ work[c].attempts = outbox[o].attempts
               /\ s = "retrying" => outbox[o].attempts < MaxAttempts[o]
      <4>1. /\ outbox'[o].status = s /\ outbox'[o].attempts = outbox[o].attempts
            /\ occurrence'[o].attempts = work[c].attempts
        BY <2>3, Zenon DEF Finished
      <4>2. ~Stranded(o)'
        BY <2>1, <3>2, <4>1 DEF Stranded
      <4>3. QED
        BY <3>2, <4>1, <4>2, Zenon
    <3>3. QED
      BY <1>1, <2>3, <3>1, <3>2, FinishedCopy, Zenon
  <2>4. CASE Same(o)
    BY <2>4, Zenon DEF Same, Stranded
  <2>5. CASE GivenUp(o) \/ \E c \in Cycles : Taken(o, c) \/ Charged(o, c)
    BY <2>5, Zenon DEF GivenUp, Taken, Charged, Stranded
  <2>6. QED
    BY <2>1, <2>2, <2>3, <2>4, <2>5, Zenon DEF RowStep
<1>2. CopyInv /\ [Next]_vars => [\A o \in Occurrences : Harmless(o)]_vars
  BY <1>1, Zenon
<1>3. QED
  BY <1>2, CopyInvInductive, PTL DEF Spec, OnlyStaleWritesHarm
=============================================================================
