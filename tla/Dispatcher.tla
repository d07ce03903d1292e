----------------------------- MODULE Dispatcher -----------------------------
(***************************************************************************)
(* The dispatch half of a scheduler cycle: the outbox and occurrence rows  *)
(* in PostgreSQL, the cycles (goroutines) of the worker processes that     *)
(* claim rows and call the target, the optional Redis lease and the retry  *)
(* policy.  Every PostgreSQL transaction is one atomic step; everything    *)
(* between two transactions of a cycle may interleave with other cycles,   *)
(* with the passing of time and with crashes.                              *)
(***************************************************************************)
EXTENDS Integers, FiniteSets

CONSTANTS
  Occurrences,             \* dispatchable occurrences, one outbox row each
  Workers,                 \* worker identities (one per process)
  Cycles,                  \* goroutines running scheduler cycles
  WorkerOf,                \* the worker whose process runs a cycle
  MaxAttempts,             \* max_attempts of each row's retry snapshot
  RetryWindow,             \* max_retry_window_seconds
  BackoffSeconds,          \* backoff_seconds
  MaxBackoffSeconds,       \* max_backoff_seconds
  ClaimTTL,                \* life of a row claim and of a Redis lease
  DispatchTimeout,         \* per-attempt deadline of the HTTP call
  BatchSize,               \* rows claimed by one cycle
  CoordinationRetryDelay,  \* delay of a row deferred by the lease
  UseRedis,                \* is a lease store configured?
  MaxClock,                \* bound: the last instant of the model
  MaxLag,                  \* bound: how stale a clock reading may be
  None                     \* NULL: no owner, no holder, no row

ASSUME DispatcherAssumption ==
  /\ WorkerOf \in [Cycles -> Workers]
  /\ MaxAttempts \in [Occurrences -> Nat \ {0}]
  /\ {RetryWindow, ClaimTTL, DispatchTimeout, CoordinationRetryDelay} \subseteq Nat \ {0}
  /\ {BackoffSeconds, MaxBackoffSeconds} \subseteq Nat
  /\ {BatchSize, MaxClock, MaxLag} \subseteq Nat
  /\ DispatchTimeout < ClaimTTL   \* enforced by config.Load
  /\ UseRedis \in BOOLEAN
  /\ None \notin Workers \cup Cycles \cup Occurrences

VARIABLES
  clock,       \* real time
  outbox,      \* scheduler_dispatch_outbox
  occurrence,  \* scheduler_occurrence
  lease,       \* Redis keys, one per occurrence
  pc,          \* where each cycle is
  batch,       \* claimed rows a cycle has still to process
  work,        \* the row a cycle is processing, as last read
  deadline,    \* deadline of a cycle's attempt context
  result,      \* class of the last DispatchResult of a cycle
  accepted,    \* history: attempts the target accepted, by occurrence and number
  sent         \* history: HTTP attempts started per occurrence

database == <<outbox, occurrence>>
local == <<pc, batch, work, deadline, result>>
vars == <<clock, outbox, occurrence, lease, pc, batch, work, deadline, result,
          accepted, sent>>

NoTime == -1   \* NULL timestamp

Terminal == {"succeeded", "failed"}
OutboxStatus == {"absent", "pending", "dispatching", "retrying"} \cup Terminal
Results == {"succeeded", "retryable", "permanent"}

\* The columns the dispatcher works with.
OutboxColumns ==
  [status : OutboxStatus, attempts : Nat, nextAttemptAt : Int, firstAttemptAt : Int,
   owner : Workers \cup {None}, expiresAt : Int]

\* ck_scheduler_dispatch_outbox_claim: a row is claimed exactly while dispatching.
OutboxRow ==
  {row \in OutboxColumns :
     IF row.status = "dispatching" THEN row.owner # None /\ row.expiresAt # NoTime
     ELSE row.owner = None /\ row.expiresAt = NoTime}

\* The part of a DispatchWork the dispatcher reads back.
DispatchWork == [occ : Occurrences, attempts : Nat, firstAttemptAt : Int]

NoWork == [occ |-> None, attempts |-> 0, firstAttemptAt |-> NoTime]

Snapshot(o, row) ==
  [occ |-> o, attempts |-> row.attempts, firstAttemptAt |-> row.firstAttemptAt]

\* Instants d.clock.Now() may have returned by the time its transaction runs.
Readings == {t \in 0..clock : clock - t <= MaxLag}

\* Every variable has its type, and no statement leaves an outbox row that the
\* CHECK constraint on claims would reject.
TypeOK ==
  /\ clock \in Nat
  /\ outbox \in [Occurrences -> OutboxRow]
  /\ occurrence \in [Occurrences -> [status : OutboxStatus, attempts : Nat]]
  /\ lease \in [Occurrences -> [holder : Cycles \cup {None}, expiresAt : Int]]
  /\ pc \in [Cycles -> {"idle", "next", "defer", "begin", "calling", "reached",
                        "persist", "release"}]
  /\ batch \in [Cycles -> SUBSET DispatchWork]
  /\ work \in [Cycles -> DispatchWork \cup {NoWork}]
  /\ deadline \in [Cycles -> Int]
  /\ result \in [Cycles -> Results \cup {"none"}]
  /\ accepted \subseteq Occurrences \X Nat
  /\ sent \in [Occurrences -> Nat]

Init ==
  /\ clock = 0
  /\ outbox = [o \in Occurrences |->
       [status |-> "absent", attempts |-> 0, nextAttemptAt |-> NoTime,
        firstAttemptAt |-> NoTime, owner |-> None, expiresAt |-> NoTime]]
  /\ occurrence = [o \in Occurrences |-> [status |-> "absent", attempts |-> 0]]
  /\ lease = [o \in Occurrences |-> [holder |-> None, expiresAt |-> NoTime]]
  /\ pc = [c \in Cycles |-> "idle"]
  /\ batch = [c \in Cycles |-> {}]
  /\ work = [c \in Cycles |-> NoWork]
  /\ deadline = [c \in Cycles |-> NoTime]
  /\ result = [c \in Cycles |-> "none"]
  /\ accepted = {}
  /\ sent = [o \in Occurrences |-> 0]

-----------------------------------------------------------------------------
(* The control flow of Run and process within one cycle.                   *)

\* The loop of Run goes on with the next claimed row, or the cycle ends.
NextItem(c) ==
  /\ pc' = [pc EXCEPT ![c] = IF batch[c] = {} THEN "idle" ELSE "next"]
  /\ work' = [work EXCEPT ![c] = NoWork]

\* process returns; its deferred function releases the lease it holds.
LeaveProcess(c) ==
  IF UseRedis
  THEN pc' = [pc EXCEPT ![c] = "release"] /\ UNCHANGED work
  ELSE NextItem(c)

-----------------------------------------------------------------------------
(* PostgreSQL.                                                             *)

\* The planner inserts the occurrence and its outbox row in one transaction.
InsertDispatch(o) ==
  /\ outbox[o].status = "absent"
  /\ \E now \in Readings :
       outbox' = [outbox EXCEPT ![o].status = "pending", ![o].nextAttemptAt = now]
  /\ occurrence' = [occurrence EXCEPT ![o].status = "pending"]
  /\ UNCHANGED <<clock, lease, local, accepted, sent>>

\* Mutation: the recovery forgets to ask whether attempts are left.
ExhaustedAnyAttempt(now) ==
  {o \in Occurrences : outbox[o].status = "dispatching" /\ outbox[o].expiresAt <= now}

\* Rows whose last attempt was started by a worker that never reported back.
Exhausted(now) ==
  {o \in Occurrences : /\ outbox[o].status = "dispatching"
                       /\ outbox[o].expiresAt <= now
                       /\ outbox[o].attempts >= MaxAttempts[o]}

\* Rows ClaimDispatches may pick.
Claimable(now) ==
  {o \in Occurrences :
     /\ outbox[o].attempts < MaxAttempts[o]
     /\ \/ outbox[o].status \in {"pending", "retrying"} /\ outbox[o].nextAttemptAt <= now
        \/ outbox[o].status = "dispatching" /\ outbox[o].expiresAt <= now}

\* SET claim_owner = NULL, claim_expires_at = NULL.
Unclaimed(row) == [row EXCEPT !.owner = None, !.expiresAt = NoTime]

\* Mutation: the recovery leaves the claim on the row it closes.
RecoveredKeepsClaim(row, now) == [row EXCEPT !.status = "failed", !.nextAttemptAt = now]

\* RecoverExhaustedDispatches: what both tables hold for a recovered row.
Recovered(row, now) ==
  [Unclaimed(row) EXCEPT !.status = "failed", !.nextAttemptAt = now]

\* Mutation: the recovery updates the outbox only.
RecoveredOutboxOnly(o) == occurrence[o]

RecoveredOccurrence(o) == [status |-> "failed", attempts |-> outbox[o].attempts]

\* ClaimDispatches: the row after worker w claimed it.
Claimed(row, w, now) ==
  [row EXCEPT !.status = "dispatching", !.owner = w, !.expiresAt = now + ClaimTTL]

\* The first transaction of Run.  ORDER BY ... LIMIT over the rows no other
\* transaction has locked (SKIP LOCKED) is any BatchSize of the claimable rows.
\* When the acknowledgement of the commit is lost, Run returns an error and the
\* claims stay behind.
Run(c) ==
  /\ pc[c] = "idle"
  /\ \E now \in Readings : \E claimed \in SUBSET Claimable(now) :
       /\ Cardinality(claimed) <= BatchSize
       /\ outbox' = [o \in Occurrences |->
            CASE o \in Exhausted(now) -> Recovered(outbox[o], now)
              [] o \in claimed -> Claimed(outbox[o], WorkerOf[c], now)
              [] OTHER -> outbox[o]]
       /\ occurrence' = [o \in Occurrences |->
            IF o \in Exhausted(now) THEN RecoveredOccurrence(o) ELSE occurrence[o]]
       /\ \/ /\ claimed # {}
             /\ batch' = [batch EXCEPT ![c] = {Snapshot(o, outbox[o]) : o \in claimed}]
             /\ pc' = [pc EXCEPT ![c] = "next"]
          \/ UNCHANGED <<batch, pc>>
  /\ UNCHANGED <<clock, lease, work, deadline, result, accepted, sent>>

\* Mutation: the WHERE clause names the row only.
HoldsAnyRow(c) == TRUE

\* transitionDispatch's WHERE clause: the claim's owner is this worker.  The
\* expiry and the attempt the caller worked on are not looked at.
HoldsClaim(c) ==
  LET row == outbox[work[c].occ] IN row.owner = WorkerOf[c] /\ row.status = "dispatching"

\* transitionDispatch's update of the outbox row: the claim ends.
Settled(row, status, nextAttemptAt) ==
  [Unclaimed(row) EXCEPT !.status = status, !.nextAttemptAt = nextAttemptAt]

\* transitionDispatch: both rows move together or, when the claim is lost or the
\* transaction fails, not at all.
TransitionDispatch(c, status, nextAttemptAt) ==
  LET o == work[c].occ IN
  \/ /\ HoldsClaim(c)
     /\ outbox' = [outbox EXCEPT ![o] = Settled(@, status, nextAttemptAt)]
     /\ occurrence' = [occurrence EXCEPT ![o] = [status |-> status, attempts |-> work[c].attempts]]
  \/ UNCHANGED database

-----------------------------------------------------------------------------
(* process: the optional lease, the attempt and its result.                *)

LeaseFree(o) == lease[o].expiresAt <= clock

\* acquireLease.  SETNX may succeed, find the key, or fail with or without
\* having set the key; without a lease store the row is simply processed.
AcquireLease(c) ==
  /\ pc[c] = "next"
  /\ \E w \in batch[c] :
       /\ batch' = [batch EXCEPT ![c] = @ \ {w}]
       /\ work' = [work EXCEPT ![c] = w]
       /\ \/ /\ ~UseRedis
             /\ pc' = [pc EXCEPT ![c] = "begin"]
             /\ UNCHANGED lease
          \/ /\ UseRedis /\ LeaseFree(w.occ)
             /\ pc' = [pc EXCEPT ![c] = "begin"]
             /\ lease' = [lease EXCEPT ![w.occ] = [holder |-> c, expiresAt |-> clock + ClaimTTL]]
          \/ /\ UseRedis /\ LeaseFree(w.occ)
             /\ pc' = [pc EXCEPT ![c] = "defer"]
             /\ lease' = [lease EXCEPT ![w.occ] = [holder |-> None, expiresAt |-> clock + ClaimTTL]]
          \/ /\ UseRedis
             /\ pc' = [pc EXCEPT ![c] = "defer"]
             /\ UNCHANGED lease
  /\ UNCHANGED <<clock, database, deadline, result, accepted, sent>>

\* Contended or unavailable lease: the row is put back for a moment.
DeferDispatch(c) ==
  /\ pc[c] = "defer"
  /\ \E now \in Readings : TransitionDispatch(c, "retrying", now + CoordinationRetryDelay)
  /\ NextItem(c)
  /\ UNCHANGED <<clock, lease, batch, deadline, result, accepted, sent>>

\* Mutation: the WHERE clause does not compare the attempts.
MayBeginUnbounded(c, now) ==
  LET row == outbox[work[c].occ] IN
  row.owner = WorkerOf[c] /\ row.status = "dispatching" /\ row.expiresAt > now

\* BeginDispatch's WHERE clause.
MayBegin(c, now) ==
  LET row == outbox[work[c].occ] IN
  /\ row.owner = WorkerOf[c]
  /\ row.status = "dispatching"
  /\ row.expiresAt > now
  /\ row.attempts < MaxAttempts[work[c].occ]

\* BeginDispatch's update of the outbox row.
Begun(row, now) ==
  [row EXCEPT !.attempts = @ + 1, !.firstAttemptAt = IF @ = NoTime THEN now ELSE @]

\* The attempt is charged in a transaction of its own before the request leaves.
\* When its commit is not acknowledged the attempt is charged but never made.
BeginDispatch(c) ==
  LET o == work[c].occ IN
  /\ pc[c] = "begin"
  /\ \/ \E now \in Readings :
          /\ MayBegin(c, now)
          /\ outbox' = [outbox EXCEPT ![o] = Begun(@, now)]
          /\ occurrence' = [occurrence EXCEPT ![o] =
               [status |-> "dispatching", attempts |-> outbox[o].attempts + 1]]
          /\ \/ /\ work' = [work EXCEPT ![c] = Snapshot(o, Begun(outbox[o], now))]
                /\ pc' = [pc EXCEPT ![c] = "calling"]
                /\ deadline' = [deadline EXCEPT ![c] = clock + DispatchTimeout]
                /\ sent' = [sent EXCEPT ![o] = @ + 1]
             \/ LeaveProcess(c) /\ UNCHANGED <<deadline, sent>>
     \/ UNCHANGED <<database, deadline, sent>> /\ LeaveProcess(c)
  /\ UNCHANGED <<clock, lease, batch, result, accepted>>

\* The target receives the request of cycle c and accepts it.
TargetAccepts(c) ==
  /\ pc[c] = "calling"
  /\ pc' = [pc EXCEPT ![c] = "reached"]
  /\ accepted' = accepted \cup {<<work[c].occ, work[c].attempts>>}
  /\ UNCHANGED <<clock, database, lease, batch, work, deadline, result, sent>>

\* Mutation: any answer may pass for a success.
UncheckedResults(c) == Results

\* Classes a DispatchResult may have after normalizeAttemptResult: an answer
\* that comes back after the attempt's deadline counts as a timeout, and a
\* cancelled cycle as a permanent failure, whatever the target did.
NormalizedResults(c) ==
  IF pc[c] = "reached" /\ clock < deadline[c] THEN Results ELSE {"retryable", "permanent"}

\* target.Dispatch returns.
DispatchReturns(c) ==
  /\ pc[c] \in {"calling", "reached"}
  /\ \E r \in NormalizedResults(c) : result' = [result EXCEPT ![c] = r]
  /\ pc' = [pc EXCEPT ![c] = "persist"]
  /\ deadline' = [deadline EXCEPT ![c] = NoTime]
  /\ UNCHANGED <<clock, database, lease, batch, work, accepted, sent>>

\* Mutation: the backoff is doubled once too often and never capped.
RetryBackoffUncapped(n) == BackoffSeconds * 2^n

\* 1 << k
Shifted(k) ==
  LET shift[i \in 0..k] == IF i = 0 THEN 1 ELSE 2 * shift[i - 1] IN shift[k]

\* The deterministic ceiling of the delay after failed attempt number n.
RetryBackoff(n) ==
  LET multiplier == Shifted(IF n > 1 THEN n - 1 ELSE 0) IN
  IF BackoffSeconds >= MaxBackoffSeconds \/ BackoffSeconds > MaxBackoffSeconds \div multiplier
  THEN MaxBackoffSeconds
  ELSE BackoffSeconds * multiplier

\* Mutation: one attempt too many is offered for a retry.
VerdictsOffByOne(w, r, now) ==
  LET closesAt == w.firstAttemptAt + RetryWindow IN
  IF r = "succeeded" THEN {[status |-> "succeeded", at |-> now]}
  ELSE IF r = "permanent" \/ w.attempts > MaxAttempts[w.occ] \/ closesAt <= now
  THEN {[status |-> "failed", at |-> now]}
  ELSE {[status |-> "retrying", at |-> now]}

\* persistResult: the status and next attempt it may ask for.  A retryable
\* failure is given up when attempts or window are used up, when the jittered
\* attempt would not start before the window's end, or when the random source
\* fails.
Verdicts(w, r, now) ==
  LET closesAt == (IF w.firstAttemptAt = NoTime THEN now ELSE w.firstAttemptAt) + RetryWindow
      remaining == closesAt - now
      ceiling == IF RetryBackoff(w.attempts) > remaining THEN remaining ELSE RetryBackoff(w.attempts)
      fail == [status |-> "failed", at |-> now]
  IN IF r = "succeeded" THEN {[status |-> "succeeded", at |-> now]}
     ELSE IF r = "permanent" \/ w.attempts >= MaxAttempts[w.occ] \/ remaining <= 0 THEN {fail}
     ELSE {fail} \cup {[status |-> "retrying", at |-> now + delay] :
                        delay \in {d \in 0..ceiling : now + d < closesAt}}

PersistResult(c) ==
  /\ pc[c] = "persist"
  /\ \E now \in Readings : \E v \in Verdicts(work[c], result[c], now) :
       TransitionDispatch(c, v.status, v.at)
  /\ LeaveProcess(c)
  /\ result' = [result EXCEPT ![c] = "none"]
  /\ UNCHANGED <<clock, lease, batch, deadline, accepted, sent>>

\* lease.Release: compare the token and delete; an error is ignored.
ReleaseLease(c) ==
  /\ pc[c] = "release"
  /\ \/ /\ lease[work[c].occ].holder = c
        /\ lease' = [lease EXCEPT ![work[c].occ] = [holder |-> None, expiresAt |-> NoTime]]
     \/ UNCHANGED lease
  /\ NextItem(c)
  /\ UNCHANGED <<clock, database, batch, deadline, result, accepted, sent>>

-----------------------------------------------------------------------------
(* The environment.                                                        *)

\* The process of worker w dies and is started again under the same identity:
\* what its cycles knew is lost, PostgreSQL and Redis keep what they hold.
Crash(w) ==
  LET Reset(f, v) == [c \in Cycles |-> IF WorkerOf[c] = w THEN v ELSE f[c]] IN
  /\ \E c \in Cycles : WorkerOf[c] = w /\ pc[c] # "idle"
  /\ pc' = Reset(pc, "idle")
  /\ batch' = Reset(batch, {})
  /\ work' = Reset(work, NoWork)
  /\ deadline' = Reset(deadline, NoTime)
  /\ result' = Reset(result, "none")
  /\ UNCHANGED <<clock, database, lease, accepted, sent>>

Tick ==
  /\ clock < MaxClock
  /\ clock' = clock + 1
  /\ UNCHANGED <<database, lease, local, accepted, sent>>

Process(c) ==
  \/ Run(c) \/ AcquireLease(c) \/ DeferDispatch(c) \/ BeginDispatch(c)
  \/ TargetAccepts(c) \/ DispatchReturns(c) \/ PersistResult(c) \/ ReleaseLease(c)

Next ==
  \/ \E o \in Occurrences : InsertDispatch(o)
  \/ \E c \in Cycles : Process(c)
  \/ \E w \in Workers : Crash(w)
  \/ Tick

Spec == Init /\ [][Next]_vars

-----------------------------------------------------------------------------
(* Properties.                                                             *)

\* The outbox row and the occurrence row never tell different stories: they are
\* open together and closed together with the same outcome, although three
\* transactions of the dispatcher write both and ClaimDispatches writes only one.
OutboxOccurrenceAgree ==
  \A o \in Occurrences :
    IF outbox[o].status = "dispatching"
    THEN occurrence[o].status \in {"pending", "retrying", "dispatching"}
    ELSE occurrence[o].status = outbox[o].status

\* No occurrence costs the target more than max_attempts requests, whatever
\* claims expire, cycles overlap or workers crash: every request was charged to
\* the row by a BeginDispatch of its own.
AttemptBudget ==
  \A o \in Occurrences :
    sent[o] <= outbox[o].attempts /\ outbox[o].attempts <= MaxAttempts[o]

\* A closed occurrence is never reopened or closed differently, by a late
\* result, a late deferral or a recovery.
ClosedForever ==
  [][\A o \in Occurrences :
       occurrence[o].status \in Terminal =>
         occurrence'[o] = occurrence[o] /\ outbox'[o] = outbox[o]]_vars

\* "succeeded" is recorded only for an attempt whose own request the target
\* accepted: an earlier request that was accepted too late does not count.
SucceededWasAccepted ==
  \A o \in Occurrences :
    outbox[o].status = "succeeded" => <<o, occurrence[o].attempts>> \in accepted

\* ClaimDispatches takes no row whose attempts are used up and
\* RecoverExhaustedDispatches only claimed ones, so that a waiting row without
\* attempts stays open forever.
Stranded(o) ==
  outbox[o].status \in {"pending", "retrying"} /\ outbox[o].attempts >= MaxAttempts[o]

\* A row that waits to be claimed has an attempt left.
ExhaustedRowsClose == \A o \in Occurrences : ~Stranded(o)

\* The occurrence row reports the attempts that were charged to the outbox row.
\* This holds while every process runs one cycle at a time; overlapping cycles
\* break it, as OnlyStaleWritesHarm says.
AttemptsMirrored ==
  \A o \in Occurrences : occurrence[o].attempts = outbox[o].attempts

\* A cycle of a process with other cycles is about to write what it knows of the
\* row o, which it took into its hands before a later attempt was charged.
StaleWrite(o) ==
  \E c, d \in Cycles :
    /\ c # d /\ WorkerOf[c] = WorkerOf[d]
    /\ pc[c] \in {"defer", "persist"} /\ work[c].occ = o /\ HoldsClaim(c)
    /\ work[c].attempts < outbox[o].attempts

\* The one way to strand a row, or to let the occurrence report other attempts
\* than were charged: transitionDispatch accepts the write of a cycle that works
\* on an outdated copy of the row, because a later cycle of the same process
\* holds the claim.  No crash, lost acknowledgement, expired claim or other
\* process does it.
OnlyStaleWritesHarm ==
  [][\A o \in Occurrences :
       /\ ~Stranded(o) => ~Stranded(o)' \/ StaleWrite(o)
       /\ occurrence[o].attempts = outbox[o].attempts =>
            occurrence'[o].attempts = outbox'[o].attempts \/ StaleWrite(o)]_vars

\* The longest time a row of this status is kept from the next cycle.
LongestWait(status) ==
  CASE status = "pending" -> 0
    [] status = "dispatching" -> ClaimTTL
    [] status = "retrying" -> IF MaxBackoffSeconds > CoordinationRetryDelay
                              THEN MaxBackoffSeconds ELSE CoordinationRetryDelay

\* If nobody touches it, the open row o is selected for a claim or for recovery
\* by every cycle that starts after its longest wait.
ComesBack(o) ==
  LET then == clock + LongestWait(outbox[o].status) IN
  outbox[o].status \in {"pending", "dispatching", "retrying"} =>
    o \in Claimable(then) \cup Exhausted(then)

\* Every open row comes back, whatever crash, expired claim, lease or backoff keeps
\* it away: neither the instants nor the attempts of a row put it out of reach.
\* As AttemptsMirrored, this is promised to processes with one cycle at a time.
OpenRowsComeBack == \A o \in Occurrences : ComesBack(o)

\* docs/RELIABILITY.md: claim_ttl > dispatch_timeout keeps a row from being
\* claimed by another worker during a legal HTTP attempt.
NoReclaimDuringAttempt ==
  [][\A c \in Cycles :
       (pc[c] \in {"calling", "reached"} /\ clock < deadline[c]) =>
         outbox'[work[c].occ].owner \in {WorkerOf[c], None}]_vars

\* docs/RELIABILITY.md: a used-up retry window ends the dispatch, so no attempt
\* starts after it.
NoAttemptAfterWindow ==
  [][\A o \in Occurrences :
       (sent'[o] > sent[o] /\ outbox[o].firstAttemptAt # NoTime) =>
         clock < outbox[o].firstAttemptAt + RetryWindow]_vars

-----------------------------------------------------------------------------
(* The dispatcher implements the delivery promise: claims, leases, retries *)
(* and cycles are steps the promise does not see.                          *)

DeliveryStatus ==
  [o \in Occurrences |->
     IF occurrence[o].status \in {"pending", "dispatching", "retrying"}
     THEN "open" ELSE occurrence[o].status]

DeliveryAttempts == [o \in Occurrences |-> outbox[o].attempts]

DeliveryAccepted == {attempt[1] : attempt \in accepted}

Promise == INSTANCE Delivery WITH
  status <- DeliveryStatus, attempts <- DeliveryAttempts, accepted <- DeliveryAccepted

\* Every behaviour of the dispatcher is a behaviour of Delivery.
ImplementsDelivery == Promise!Spec
=============================================================================
