------------------------------ MODULE Planner -------------------------------
(***************************************************************************)
(* The planning half of a scheduler cycle: schedule rows, their claims and *)
(* versions, the misfire and overlap policies, and the occurrences that    *)
(* due instants become.  Control commands and the closing of occurrences   *)
(* by the dispatcher interleave with the planning cycles; every            *)
(* transaction is one step, except that what materialize reads before its  *)
(* inserts (HasOpenOccurrence) may be stale when it commits.               *)
(***************************************************************************)
EXTENDS Integers, FiniteSets

CONSTANTS
  Names,         \* schedule names of one tenant
  Ids,           \* row identities: numbers, handed out in order
  Definitions,   \* schedule definitions clients submit
  Workers,       \* worker identities
  Cycles,        \* goroutines running scheduler cycles
  WorkerOf,      \* the worker whose process runs a cycle
  ClaimTTL,      \* life of a schedule claim
  BatchSize,     \* schedules claimed by one cycle
  MaxClock,      \* bound: the last instant of the model
  MaxLag,        \* bound: how stale a clock reading may be
  MaxCommands,   \* bound: commands that take effect
  None           \* NULL: no owner, no row

VARIABLES
  clock,        \* real time
  schedule,     \* scheduler_schedule by name
  occurrence,   \* scheduler_occurrence by schedule identity and instant
  nextId,       \* the next row identity
  commands,     \* commands that took effect so far
  pc,           \* where each cycle is
  observed,     \* the clock reading a cycle plans with
  batch,        \* claimed schedules a cycle has still to materialize
  item,         \* the schedule a cycle is materializing, as claimed
  open          \* what HasOpenOccurrence told the cycle

local == <<pc, observed, batch, item, open>>
vars == <<clock, schedule, occurrence, nextId, commands, pc, observed, batch, item, open>>

R == INSTANCE Recurrence

NoTime == -1
Instants == 0..MaxClock
Misfire == {"skip", "fire_once", "catch_up_bounded"}

ASSUME PlannerAssumption ==
  /\ WorkerOf \in [Cycles -> Workers]
  /\ {ClaimTTL, BatchSize} \subseteq Nat \ {0}
  /\ {MaxClock, MaxLag, MaxCommands} \subseteq Nat
  /\ IsFiniteSet(Ids) /\ Ids \subseteq Nat \ {0}
  /\ \A d \in Definitions : /\ d.rule.kind \in {"every", "cron", "once"}
                            /\ d.rule.kind = "every" => d.rule.interval \in Nat \ {0}
                            /\ d.rule.kind = "cron" => d.rule.minutes \subseteq Nat
                            /\ d.rule.kind = "once" => d.rule.at \in Nat
                            /\ d.misfire \in Misfire /\ d.limit \in Nat \ {0}
                            /\ d.misfire # "catch_up_bounded" => d.limit = 1
                            /\ d.overlap \in {"allow", "forbid"}
                            /\ d.status \in {"active", "paused"}
  /\ None \notin Workers /\ None \notin Ids

Readings == {t \in 0..clock : clock - t <= MaxLag}

IsOnce(row) == row.rule.kind = "once"

\* Rows of scheduler_schedule that its CHECK constraints accept.
ScheduleRow ==
  LET Columns == [id : Ids, version : Nat, status : {"active", "paused", "exhausted"},
                  rule : {d.rule : d \in Definitions}, misfire : Misfire, limit : Nat,
                  overlap : {"allow", "forbid"}, nextDueAt : Int,
                  owner : Workers \cup {None}, expiresAt : Int] IN
  {row \in Columns :
     /\ (row.owner = None) = (row.expiresAt = NoTime)
     /\ row.status = "paused" => row.owner = None
     /\ row.limit > 0 /\ (row.misfire # "catch_up_bounded" => row.limit = 1)
     /\ IF row.status = "exhausted"
        THEN IsOnce(row) /\ row.nextDueAt = NoTime /\ row.owner = None
        ELSE row.nextDueAt >= 0 /\ (IsOnce(row) => row.nextDueAt = row.rule.at)}

NoRow == [id |-> None]
Skipped == {"misfire_skipped", "bound_exceeded", "overlap_blocked"}
OccurrenceStatus == {"absent", "open", "closed"} \cup Skipped

\* Every variable has its type, and no statement leaves a schedule row that a
\* CHECK constraint of the table would reject.
TypeOK ==
  /\ clock \in Nat
  /\ schedule \in [Names -> ScheduleRow \cup {NoRow}]
  /\ occurrence \in [Ids -> [Instants -> OccurrenceStatus]]
  /\ nextId \in Nat /\ commands \in Nat
  /\ pc \in [Cycles -> {"idle", "plan", "insert", "release"}]
  /\ observed \in [Cycles -> Int]
  /\ \A c \in Cycles : \A row \in batch[c] \cup ({item[c]} \ {NoRow}) :
       row.id \in Ids /\ row.status = "active"
  /\ open \in [Cycles -> BOOLEAN]

Init ==
  /\ clock = 0
  /\ schedule = [n \in Names |-> NoRow]
  /\ occurrence = [i \in Ids |-> [t \in Instants |-> "absent"]]
  /\ nextId = 1
  /\ commands = 0
  /\ pc = [c \in Cycles |-> "idle"]
  /\ observed = [c \in Cycles |-> NoTime]
  /\ batch = [c \in Cycles |-> {}]
  /\ item = [c \in Cycles |-> NoRow]
  /\ open = [c \in Cycles |-> FALSE]

-----------------------------------------------------------------------------
(* planSchedule: what a claimed row becomes at instant now.  "next" is the *)
(* new due instant, NoTime when the schedule is used up, R!NoNext when the *)
(* recurrence fails.                                                       *)

Fire(S, next) == [dispatch |-> S, skip |-> {}, code |-> "none", next |-> next]
\* Mutation: the skipped instant leaves no occurrence.
SkipUnrecorded(t, code, next) == Fire({}, next)

Skip(t, code, next) == [dispatch |-> {}, skip |-> {t}, code |-> code, next |-> next]

\* The loop variable of boundedCatchUp after k iterations, for each k.
Candidates(row, now) ==
  LET candidate[k \in 0..row.limit] ==
        IF k = 0 THEN row.nextDueAt
        ELSE IF candidate[k - 1] \in row.nextDueAt..now THEN R!Next(row.rule, candidate[k - 1])
        ELSE candidate[k - 1]
  IN candidate

\* Mutation: the instant the bound cut off is dropped without a record.
BoundedCatchUpSilent(row, now) ==
  LET candidate == Candidates(row, now)
      due == {candidate[k] : k \in 0..(row.limit - 1)} \cap (row.nextDueAt..now)
      last == candidate[row.limit]
  IN Fire(due, IF last > now \/ last = R!NoNext THEN last ELSE R!NextAfter(row.rule, last, now))

BoundedCatchUp(row, now) ==
  LET candidate == Candidates(row, now)
      due == {candidate[k] : k \in 0..(row.limit - 1)} \cap (row.nextDueAt..now)
      last == candidate[row.limit]
  IN IF last = R!NoNext \/ last > now THEN Fire(due, last)
     ELSE [dispatch |-> due, skip |-> {last}, code |-> "bound_exceeded",
           next |-> R!NextAfter(row.rule, last, now)]

PlanSchedule(row, now) ==
  LET due == row.nextDueAt IN
  CASE IsOnce(row) /\ due < now /\ row.misfire = "skip" -> Skip(due, "misfire_skipped", NoTime)
    [] IsOnce(row) /\ ~(due < now /\ row.misfire = "skip") -> Fire({due}, NoTime)
    [] ~IsOnce(row) /\ due = now -> Fire({due}, R!Next(row.rule, due))
    [] ~IsOnce(row) /\ due < now /\ row.misfire = "skip" ->
         Skip(due, "misfire_skipped", R!NextAfter(row.rule, due, now))
    [] ~IsOnce(row) /\ due < now /\ row.misfire = "fire_once" ->
         Fire({due}, R!NextAfter(row.rule, due, now))
    [] ~IsOnce(row) /\ due < now /\ row.misfire = "catch_up_bounded" -> BoundedCatchUp(row, now)

-----------------------------------------------------------------------------
(* The planner's transactions.                                             *)

Exists(n) == schedule[n] # NoRow
Unclaimed(row) == [row EXCEPT !.owner = None, !.expiresAt = NoTime]

\* Bound: nothing fails so late that the claim it leaves behind would expire
\* only after the last instant of the model.
FaultsAllowed == clock + ClaimTTL <= MaxClock

\* Mutation: only rows without a claim are due, expired claims included.
DueUnclaimed(now) ==
  {n \in Names : /\ Exists(n) /\ schedule[n].status = "active"
                 /\ schedule[n].nextDueAt <= now /\ schedule[n].expiresAt = NoTime}

Due(now) ==
  {n \in Names : /\ Exists(n) /\ schedule[n].status = "active"
                 /\ schedule[n].nextDueAt <= now /\ schedule[n].expiresAt <= now}

\* ClaimDueSchedules has claimed these rows.  A claim does not change the
\* version.  When the commit is not acknowledged, Run gives up and the claims
\* stay behind.
Claim(c, now, claimed) ==
  /\ schedule' = [n \in Names |->
       IF n \in claimed
       THEN [schedule[n] EXCEPT !.owner = WorkerOf[c], !.expiresAt = now + ClaimTTL]
       ELSE schedule[n]]
  /\ \/ /\ claimed # {}
        /\ batch' = [batch EXCEPT ![c] = {Unclaimed(schedule[n]) : n \in claimed}]
        /\ observed' = [observed EXCEPT ![c] = now]
        /\ pc' = [pc EXCEPT ![c] = "plan"]
     \/ (claimed = {} \/ FaultsAllowed) /\ UNCHANGED <<batch, observed, pc>>
  /\ UNCHANGED <<clock, occurrence, nextId, commands, item, open>>

\* Rows that other transactions hold locked are skipped, so any part of the due
\* rows may be claimed.
Run(c) ==
  /\ pc[c] = "idle"
  /\ \E now \in Readings : \E claimed \in SUBSET Due(now) :
       Cardinality(claimed) <= BatchSize /\ Claim(c, now, claimed)

\* The first rows of ORDER BY next_due_at, id, up to the limit.
FirstDueRows(now) ==
  LET Before(m, n) == \/ schedule[m].nextDueAt < schedule[n].nextDueAt
                      \/ schedule[m].nextDueAt = schedule[n].nextDueAt /\ schedule[m].id < schedule[n].id
  IN {n \in Due(now) : Cardinality({m \in Due(now) : Before(m, n)}) < BatchSize}

\* A cycle that meets no locked row claims from the head of the queue.
RunUnhindered(c) ==
  /\ pc[c] = "idle" /\ FirstDueRows(clock) # {}
  /\ Claim(c, clock, FirstDueRows(clock))
  /\ pc'[c] = "plan"

\* The loop of Run goes on with the next claimed schedule, or the cycle ends.
NextItem(c) ==
  /\ pc' = [pc EXCEPT ![c] = IF batch[c] = {} THEN "idle" ELSE "plan"]
  /\ observed' = [observed EXCEPT ![c] = IF batch[c] = {} THEN NoTime ELSE @]
  /\ item' = [item EXCEPT ![c] = NoRow]
  /\ open' = [open EXCEPT ![c] = FALSE]

HasOpenOccurrence(i) == \E t \in Instants : occurrence[i][t] = "open"

\* materialize up to its first read: the plan, or the decision to release.
Plan(c) ==
  /\ pc[c] = "plan"
  /\ \E row \in batch[c] :
       LET failed == PlanSchedule(row, observed[c]).next = R!NoNext IN
       /\ batch' = [batch EXCEPT ![c] = @ \ {row}]
       /\ item' = [item EXCEPT ![c] = row]
       /\ pc' = [pc EXCEPT ![c] = IF failed THEN "release" ELSE "insert"]
       /\ open' = [open EXCEPT ![c] =
            ~failed /\ row.overlap = "forbid" /\ HasOpenOccurrence(row.id)]
  /\ UNCHANGED <<clock, schedule, occurrence, nextId, commands, observed>>

\* Mutation: the WHERE clause names the row only.
AdvanceAnyVersion(c, n) == schedule[n].id = item[c].id

\* AdvanceSchedule's WHERE clause.
MayAdvance(c, n) ==
  /\ schedule[n].id = item[c].id
  /\ schedule[n].version = item[c].version
  /\ schedule[n].owner = WorkerOf[c]

\* Mutation: the last advance of a once schedule keeps the claim.
AdvancedKeepsClaim(row, next) ==
  [row EXCEPT !.nextDueAt = next, !.version = @ + 1,
              !.status = IF next = NoTime THEN "exhausted" ELSE @]

Advanced(row, next) ==
  [Unclaimed(row) EXCEPT !.nextDueAt = next, !.version = @ + 1,
                         !.status = IF next = NoTime THEN "exhausted" ELSE @]

\* Mutation: every due instant of the plan is dispatched.
DispatchedAll(c, plan) ==
  {t \in plan.dispatch : occurrence[item[c].id][t] = "absent"}

\* Instants of the plan that become dispatches: all that are new or, under
\* overlap_policy forbid, the first of them if nothing was seen open.
Dispatched(c, plan) ==
  LET new == {t \in plan.dispatch : occurrence[item[c].id][t] = "absent"} IN
  IF item[c].overlap = "allow" THEN new
  ELSE {t \in new : ~open[c] /\ \A u \in new : t <= u}

\* The rest of materialize: occurrences, outbox rows and the advance of the
\* schedule commit together, or nothing does.
Materialize(c) ==
  LET i == item[c].id
      plan == PlanSchedule(item[c], observed[c])
      Inserted(t) == CASE t \in Dispatched(c, plan) -> "open"
                       [] t \in plan.dispatch \ Dispatched(c, plan) -> "overlap_blocked"
                       [] t \in plan.skip -> plan.code
  IN
  /\ pc[c] = "insert"
  /\ \/ \E n \in Names :
          /\ Exists(n) /\ MayAdvance(c, n)
          /\ occurrence' = [occurrence EXCEPT ![i] = [t \in Instants |->
               IF t \in plan.dispatch \cup plan.skip /\ @[t] = "absent" THEN Inserted(t) ELSE @[t]]]
          /\ schedule' = [schedule EXCEPT ![n] = Advanced(@, plan.next)]
     \/ /\ FaultsAllowed \/ \A n \in Names : ~(Exists(n) /\ MayAdvance(c, n))
        /\ UNCHANGED <<schedule, occurrence>>
  /\ NextItem(c)
  /\ UNCHANGED <<clock, nextId, commands, batch>>

\* ReleaseScheduleClaim looks at the owner, not at the version.
MayRelease(c, n) == Exists(n) /\ schedule[n].id = item[c].id /\ schedule[n].owner = WorkerOf[c]

ReleaseScheduleClaim(c) ==
  /\ pc[c] = "release"
  /\ \/ \E n \in Names :
          MayRelease(c, n) /\ schedule' = [schedule EXCEPT ![n] = Unclaimed(@)]
     \/ /\ FaultsAllowed \/ \A n \in Names : ~MayRelease(c, n)
        /\ UNCHANGED schedule
  /\ NextItem(c)
  /\ UNCHANGED <<clock, occurrence, nextId, commands, batch>>

-----------------------------------------------------------------------------
(* Control commands: what Service.apply does to the row of a schedule.     *)
(* Each one takes the claim away and moves the version on, so that a plan  *)
(* made before it cannot commit after it.                                  *)

Row(i, version, d, status, next) ==
  [id |-> i, version |-> version, status |-> status, rule |-> d.rule,
   misfire |-> d.misfire, limit |-> d.limit, overlap |-> d.overlap,
   nextDueAt |-> next, owner |-> None, expiresAt |-> NoTime]

\* Mutation: a run_at that has passed is accepted.
FirstDueAnyRunAt(rule, now) ==
  IF rule.kind = "once" THEN rule.at ELSE R!Next(rule, now)

\* The first due instant of a new definition; a run_at that is not in the
\* future and a rule without a next instant are invalid commands.
FirstDue(rule, now) ==
  IF rule.kind = "once" THEN (IF rule.at > now THEN rule.at ELSE R!NoNext)
  ELSE R!Next(rule, now)

Command(n, row) ==
  /\ commands < MaxCommands /\ commands' = commands + 1
  /\ schedule' = [schedule EXCEPT ![n] = row]
  /\ UNCHANGED <<clock, occurrence, local>>

Create(n, d) ==
  /\ ~Exists(n) /\ nextId \in Ids /\ nextId' = nextId + 1
  /\ \E now \in Readings :
       LET next == FirstDue(d.rule, now) IN
       next # R!NoNext /\ Command(n, Row(nextId, 1, d, d.status, next))

\* Mutation: any two once definitions count as the same obligation.
SameKind(d, row) == d.rule.kind = "once" /\ IsOnce(row)

\* The update names the run_at the schedule already has.
SameRunAt(d, row) == d.rule.kind = "once" /\ IsOnce(row) /\ d.rule.at = row.rule.at

\* An update that keeps the run_at keeps the due instant as well, and leaves an
\* exhausted schedule exhausted.
Update(n, d) ==
  /\ Exists(n)
  /\ LET row == schedule[n]
         same == SameRunAt(d, row)
     IN \/ /\ same
           /\ Command(n, Row(row.id, row.version + 1, d,
                IF row.status = "exhausted" THEN "exhausted" ELSE d.status, row.nextDueAt))
        \/ /\ ~same
           /\ \E now \in Readings :
                LET next == FirstDue(d.rule, now) IN
                next # R!NoNext /\ Command(n, Row(row.id, row.version + 1, d, d.status, next))
  /\ UNCHANGED nextId

Delete(n) ==
  /\ Exists(n)
  /\ Command(n, NoRow)
  /\ UNCHANGED nextId

\* SetScheduleStatus
WithStatus(row, status, next) ==
  [Unclaimed(row) EXCEPT !.status = status, !.nextDueAt = next, !.version = @ + 1]

Pause(n) ==
  /\ Exists(n) /\ schedule[n].status # "exhausted"
  /\ Command(n, WithStatus(schedule[n], "paused", schedule[n].nextDueAt))
  /\ UNCHANGED nextId

\* A once schedule resumes at its run_at even when that has passed.
Resume(n) ==
  /\ Exists(n) /\ schedule[n].status # "exhausted"
  /\ \E now \in Readings :
       LET rule == schedule[n].rule
           next == IF rule.kind = "once" THEN rule.at ELSE R!Next(rule, now)
       IN next # R!NoNext /\ Command(n, WithStatus(schedule[n], "active", next))
  /\ UNCHANGED nextId

-----------------------------------------------------------------------------
(* The environment.                                                        *)

\* The dispatcher brings an occurrence to a terminal status.
CloseOccurrence(i, t) ==
  /\ occurrence[i][t] = "open"
  /\ occurrence' = [occurrence EXCEPT ![i][t] = "closed"]
  /\ UNCHANGED <<clock, schedule, nextId, commands, local>>

\* A process dies: its cycles lose what they hold, its claims stay in the table.
Crash(w) ==
  LET Ends(c) == WorkerOf[c] = w IN
  /\ FaultsAllowed
  /\ \E c \in Cycles : Ends(c) /\ pc[c] # "idle"
  /\ pc' = [c \in Cycles |-> IF Ends(c) THEN "idle" ELSE pc[c]]
  /\ observed' = [c \in Cycles |-> IF Ends(c) THEN NoTime ELSE observed[c]]
  /\ batch' = [c \in Cycles |-> IF Ends(c) THEN {} ELSE batch[c]]
  /\ item' = [c \in Cycles |-> IF Ends(c) THEN NoRow ELSE item[c]]
  /\ open' = [c \in Cycles |-> IF Ends(c) THEN FALSE ELSE open[c]]
  /\ UNCHANGED <<clock, schedule, occurrence, nextId, commands>>

Tick ==
  /\ clock < MaxClock
  /\ clock' = clock + 1
  /\ UNCHANGED <<schedule, occurrence, nextId, commands, local>>

Next ==
  \/ \E c \in Cycles : Run(c) \/ Plan(c) \/ Materialize(c) \/ ReleaseScheduleClaim(c)
  \/ \E n \in Names : Delete(n) \/ Pause(n) \/ Resume(n) \/ \E d \in Definitions : Create(n, d) \/ Update(n, d)
  \/ \E i \in Ids, t \in Instants : CloseOccurrence(i, t)
  \/ \E w \in Workers : Crash(w)
  \/ Tick

Spec == Init /\ [][Next]_vars

\* Time passes; a started cycle runs on to its end; and of the cycles that keep
\* being started, always some later one finds no due row locked (row locks last
\* as long as one short transaction, so this is strong fairness).
Fairness ==
  /\ WF_vars(Tick)
  /\ \A c \in Cycles : WF_vars(Plan(c) \/ Materialize(c) \/ ReleaseScheduleClaim(c))
  /\ SF_vars(\E c \in Cycles : RunUnhindered(c))

FairSpec == Spec /\ Fairness

-----------------------------------------------------------------------------
(* Correctness.                                                            *)

New(i, t) == occurrence[i][t] = "absent" /\ occurrence'[i][t] # "absent"

\* The planner, not a command, changed the due instant of the schedule n.
Moved(n) ==
  /\ Exists(n) /\ commands' = commands
  /\ <<schedule'[n].status, schedule'[n].nextDueAt>> # <<schedule[n].status, schedule[n].nextDueAt>>

\* Instants of a rule from its due instant up to (not including) a later one.
Between(rule, due, end) ==
  IF rule.kind = "every" THEN {t \in due..(end - 1) : (t - due) % rule.interval = 0}
  ELSE {due} \cup {t \in rule.minutes : t \in due..(end - 1)}

\* "There is no unrecorded skip": AdvanceSchedule moves a schedule past a due
\* instant only together with an occurrence for that instant; under
\* catch_up_bounded also for every later instant it passes, except those behind
\* a bound_exceeded record, which stands for the backlog that was dropped.
DueAccounted ==
  [][\A n \in Names : Moved(n) =>
       LET row == schedule[n]
           recorded == occurrence'[row.id]
       IN /\ recorded[row.nextDueAt] # "absent"
          /\ ~IsOnce(row) => schedule'[n].nextDueAt > row.nextDueAt
          /\ ~IsOnce(row) /\ row.misfire = "catch_up_bounded" =>
               \A t \in Between(row.rule, row.nextDueAt, schedule'[n].nextDueAt) :
                 \E u \in row.nextDueAt..t :
                   recorded[u] # "absent" /\ (u = t \/ recorded[u] = "bound_exceeded")]_vars

\* overlap_policy forbid: although HasOpenOccurrence is read before the inserts
\* and other cycles, commands and the dispatcher run in between, no commit opens
\* an occurrence of such a schedule while another is open, or two at once.
ForbidNeverOverlaps ==
  [][\A n \in Names : Exists(n) /\ schedule[n].overlap = "forbid" =>
       LET i == schedule[n].id IN
       \A t, u \in Instants : New(i, t) /\ occurrence'[i][t] = "open" /\ u # t
                              => occurrence'[i][u] # "open"]_vars

\* An occurrence appears only for a schedule that is active at that moment, at
\* an instant that is due and not yet passed by the schedule: a pause, delete or
\* update that commits between claim and materialize stops the plan.
OnlyActiveFires ==
  [][\A i \in Ids, t \in Instants : New(i, t) =>
       \E n \in Names : /\ Exists(n) /\ schedule[n].id = i /\ schedule[n].status = "active"
                        /\ t \in schedule[n].nextDueAt..clock
                        /\ (schedule'[n].nextDueAt = NoTime \/ schedule'[n].nextDueAt > t)]_vars

\* A once schedule is exhausted only when its run_at has its occurrence; an
\* update that keeps the run_at neither loses nor repeats it.
ExhaustedWasRecorded ==
  \A n \in Names : Exists(n) /\ schedule[n].status = "exhausted" =>
    occurrence[schedule[n].id][schedule[n].rule.at] # "absent"

\* A schedule that can still fire has every instant it recorded behind its due
\* instant, up to the staleness of one clock reading: commands that recompute the
\* due instant, and late plans, take it back by no more than that.  With
\* synchronous clocks the unique key of InsertOccurrence swallows nothing; with
\* lag, only instants that this window holds.
RecordedBehindDue ==
  \A n \in Names : Exists(n) /\ schedule[n].status # "exhausted" =>
    \A t \in Instants : occurrence[schedule[n].id][t] # "absent" =>
      t < schedule[n].nextDueAt + MaxLag

\* The schedule n is due and its rule has an instant to go on with.
Waits(n) ==
  /\ Exists(n) /\ schedule[n].status = "active" /\ schedule[n].nextDueAt <= clock
  /\ PlanSchedule(schedule[n], clock).next # R!NoNext

\* A due schedule does not stay due: whatever crashes, lost acknowledgements and
\* failed transactions leave its row claimed, the claim expires and a later cycle
\* materializes it, also next to schedules whose recurrence fails and which every
\* cycle claims and releases, as long as those leave room in the batch.
DueIsPlanned == \A n \in Names : Waits(n) ~> ~Waits(n)
=============================================================================
