# Kokoro scheduler: TLA+ specifications

The scheduler stores schedules in PostgreSQL, turns due instants into durable
occurrences and dispatches each of them to an HTTP target at least once. This
directory specifies its protocols in TLA+, checks them with TLC on small
instances and proves their safety with TLAPS for every instance.
`PROJECT.json` maps every definition to the source lines it models and lists the
runs, the mutants that show each property can fail, the hazards, the findings
and the theorems.

## 1. Inventory

| Part | State | Operations | Specified in |
| --- | --- | --- | --- |
| Dispatcher (`application/dispatcher.go`, `postgres/outbox.go`) | outbox and occurrence rows; the row a cycle holds; attempt deadline | recover exhausted, claim batch, defer, begin, HTTP attempt, persist verdict, release lease | `Dispatcher` |
| Redis lease (`redis/lease_store.go`) | one key per occurrence with a token and a TTL | acquire, token-checked release, expiry | `Dispatcher` |
| Planner (`application/planner.go`, `postgres/due.go`) | schedule rows with claim, version and due instant; occurrences by instant | claim due, plan by misfire policy, overlap check, insert and advance, release claim | `Planner` |
| Recurrence (`recurrence/calculator.go`, `cron.go`) | none | next instant, next instant in phase after a threshold, field parsing, day matching, bounded search | `Recurrence`, `CronField`, `CronCalendar` |
| Command service (`application/commands.go`, `postgres/commands.go`) | schedule rows, receipts, advisory locks | create, update, delete, pause, resume, each with an idempotency receipt | `CommandService`, promise in `Receipts`; as atomic environment steps in `Planner` |
| Control HTTP transport (`transport/http`) and validation (`domain/schedule.go`) | one request, its digest, the schedule it becomes | the handler's checks in order, body decoding, normalisation, digest, `prepare`, validation | `Admission` |
| Runtime and wakeup (`application/runtime.go`, `gocron/wakeup.go`) | accepting, readiness, wait group, runtime context, shutdown deadline | start, timer callback, trigger, cycle, stop | `Runtime` |
| Schema installer (`postgres/bootstrap.go`) | namespace objects, advisory lock | inspect, install, commit, readiness test | `Installer` |
| Scheduler command (`cmd/scheduler/main.go`) | stage of start-up, pool with the connections that are out, Redis client, probe | load, ping, build, run, transactions of cycles and requests, deferred closes, restart, `/readyz` | `Process`, on top of `Runtime` and `Installer` |
| HTTP target client (`httpclient/client.go`, `domain/occurrence.go`) | one attempt | payload check, resolution, pinning, request, body, classification, normalisation | `TargetClient` |
| Target policy (`config/target_allowlist.go`, address checks of `httpclient/client.go`) | parsed allowlist | parse, look up, decide per address | `TargetPolicy` |
| Configuration (`config/config.go`) | none | bounds, cross-checks, defaults of the constructors | `Configuration` |

How the parts meet. A timer callback or the start of the process triggers a
*cycle*: a goroutine that runs the planner and then the dispatcher. Cycles of one
process may overlap and share one worker identity; processes share nothing but
PostgreSQL and, if configured, Redis. The planner inserts an occurrence and its
outbox row in the transaction that advances the schedule. The dispatcher reads
nothing else of the planner, so the insert is the only step the two models share:
`InsertDispatch` in `Dispatcher`, part of `Materialize` in `Planner`. In the other
direction `CloseOccurrence` in `Planner` stands for the dispatcher's terminal
writes, which is all the overlap policy sees of it. Commands change the schedule
rows the planner has claimed; versions and statuses in the `WHERE` clauses keep
the two apart.

What is hard here: overlapping cycles with the same worker identity; claims and
leases that expire under a worker that is still alive; clock readings taken
before a transaction and used in it; commits whose acknowledgement is lost;
crashes between any two steps; an HTTP context that ends while the answer
arrives; commands racing with the planner and with their own retries; bounds
and normalisations that are written in several layers and must agree; installers
racing with each other and with a starting process; shutdown racing with timer
callbacks; cron rules at the edges of the calendar and of `int`. `PROJECT.json` lists these as hazards, line by line, with
the properties that would catch them.

## 2. Modules

`Dispatcher` is the core. Its variables are the two tables, the Redis keys, and
per cycle a program counter, the claimed batch, the row in hand as last read,
the deadline of the attempt and the class of its result; `sent` and `accepted`,
the attempts whose request the target accepted, are history. Each PostgreSQL transaction is one action (`Run` is
`RecoverExhaustedDispatches` with `ClaimDispatches`, then `BeginDispatch`,
`DeferDispatch`, `PersistResult`), and every transaction may also fail or commit
without the caller learning of it. `AcquireLease`, `DispatchReturns`,
`ReleaseLease`, the tick of the clock, the target's acceptance and the crash of a
process interleave between them. Each transaction picks its clock reading from
`Readings`, the instants at most `MaxLag` before now.

`Delivery` is what the dispatcher promises without workers, claims and clocks: an
occurrence opens once, is charged a bounded number of attempts, and closes once,
as succeeded only if the target accepted a request. `Dispatcher` implements it
under the mapping `DeliveryStatus`, `DeliveryAttempts`, `accepted`.

`Planner` has the schedule rows with every column the planner's statements read,
the occurrences by schedule and instant, and per cycle the reading it plans with,
the batch and the schedule as claimed. `Plan` computes and reads
`HasOpenOccurrence`, `Materialize` inserts and advances if version and claim
still hold: a competing commit between the two is possible. Commands
are atomic steps here; their interleaving is the subject of `CommandService`.
`Run` claims any set of due rows up to the batch size, because rows locked by
others are skipped; `RunUnhindered` is the case in which none is, which the
fairness assumption speaks of. A process may crash, a transaction may fail and an
acknowledgement may get lost whenever the claim left behind can still expire
inside the model (`FaultsAllowed`). `Recurrence` supplies `Next` and `NextAfter` for intervals and
for rules with finitely many instants.

`CommandService` runs each request as the statements of a READ COMMITTED
transaction: advisory lock, receipt lookup, clock reading and row read,
conditional write with the receipt, or the re-read that decides between
"changed", "exhausted" and "not found". The write, the receipt and the commit are
one step: the row lock keeps other writers out in between and nothing is visible
before the commit. An acknowledgement may be lost; clients send the same
requests again at any time.

`Receipts` is what the command service promises: a command takes effect in one
step, on the row as it is in that step, together with its receipt, at most once;
a request with the same identity is answered from the receipt. `CommandService`
implements it with `Callers` as the mapping of its sessions.

`Admission` follows one request from the handler to the stored schedule:
`ServeHTTP` makes the handler's checks (which status answers a failed one is left
out), `DecodePayload` normalises and the digest is taken, `Prepare` normalises again
and validates, and the rule goes to the recurrence calculator: an `@every` rule to
the interval bounds, to the nanosecond, a cron rule to the parser. A string is its
text and whether white space surrounds it; bodies and URLs are classes by what is
wrong with them. The constant `RunAt` gives texts of `run_at` the instants they
denote, with several texts for one instant and texts that denote none; `Duration`
does the same for intervals. A payload is its content, down to the literals of its
numbers, which `canonicalizeJSON` keeps, and its spelling, which it does not. `Admission` extends `CronCalendar`, so that the
parser and the search run on what was admitted. `CronField` is the parser's loop
over the items of one field with integers up to `MaxInt` that wrap around; `CronCalendar` extends it
to the parser's test for a possible date, day matching and the ten-year search,
day by day.

`Runtime` is the main goroutine from `Start` to the end of `Stop`, timer callbacks
that have fired but not yet triggered, the wait group and the cycles. `Installer` is
any number of installation commands, each one transaction under the advisory
lock. `Process` composes the two: `run` loads, pings, opens Redis, builds, hands
over to the runtime and passes through its deferred closes however it returns, while
installers work on the namespace and probes arrive; it may be started again.
`conn` is the `WithinTx` of each cycle and of each request: `Pool.Close` refuses new
acquisitions and then waits for every connection that is out. A cycle's statements
end when the runtime's context is cancelled. A request's do not: its context
outlives a `Shutdown` that gave up at its deadline. The deferred rollback runs
under a background context, so only the database ends it.

`TargetPolicy` is the decision which addresses an attempt may go to, with `netip`
shrunk to 4-bit IPv4 and 6-bit IPv6 addresses that keep the mapped range, zones,
the invalid address and one representative of each listed block. What
`IsSafeTargetAddress` asks are `netip`'s predicates (`IsPrivate`, `IsLoopback` and the
others), defined apart from the list of internal blocks that the allowlist is
checked against, so that the agreement of the two is a result. `Configuration` is `config.Load` with what the
constructors make of the values; URLs and the worker id are well formed or not.
`TargetClient` is one attempt from an accepted
environment to the verdict, with the context ending between any two steps.

Naming: actions and operators keep the Go names. An operator whose comment starts
with "Mutation:" is a plausible bug used by the mutant list of `PROJECT.json`
and by nothing else.

## 3. Runs

Run one with `tlc -config X.cfg M`, using the pair `PROJECT.json` gives.

| Run | Instance | What it shows |
| --- | --- | --- |
| `dispatch_overlap` | one row, two cycles of one process, two attempts, readings one tick stale | `OutboxOccurrenceAgree`, `AttemptBudget`, `SucceededWasAccepted` (for the very attempt reported), `ClosedForever`, refinement of `Delivery`; `OnlyStaleWritesHarm`: what overlapping cycles break, they break in one way only |
| `dispatch_lease` | one row, two processes of one cycle each with a Redis lease, four attempts, a backoff of 1 that doubles to a cap of 2 | both tables count alike, and every open row is selected again, by the claim or by the recovery, once its claim, its backoff or the coordination delay is over. Both hold because a process runs one cycle at a time; with overlapping cycles both fail |
| `plan_overlap` | an interval of 1 that catches up two instants and forbids overlap, once schedules active and paused, two overlapping cycles, stale readings, three commands | every instant passed is accounted for, at most one occurrence is open, only active schedules fire, a once schedule is exhausted only with its occurrence recorded, recorded instants stay behind the due instant up to the staleness of a reading, the table's CHECK constraints hold |
| `plan_skip` | two schedules in one batch of each of two processes, a cron rule that runs out (skip) and an interval (fire_once), with fairness | accounting as above; a due schedule is planned in the end, whatever crashes and lost acknowledgements leave behind |
| `commands` | two sessions and the planner, all five operations on one name again and again, keys reused for another body | one effect per receipt, refinement of `Receipts`, an exhausted schedule is not armed again |
| `runtime_life` | two cycles, one request, a probe, two pending callbacks, two installers, a namespace that may hold foreign objects | installers change an empty namespace only and refuse instead of failing, the process serves an installed namespace only; clean stop is quiet, wait group used correctly, every exit closes what was opened; a shutdown always gets to closing the pool, and ends in an exit unless a request's transaction or a rollback never comes back |
| `target_attempt` | a plain environment with one part varied at a time, all prefixes of the small address space, statuses at each edge of the table up to 999 | configured claims are longer than configured attempts; an allowlist admits internal addresses only and the default policy none of them, in both forms and with zones, so that a request goes to an internal address exactly when an allowlist is configured; the classification table whenever the context ends |
| `cron_search` | requests that differ from a plain one in any two members of the head or of the body; then all pairs of day-of-week items over edge values and steps, integers up to 15; then days at month ends, searched from 2000, 2026 and 2096 | what is stored is what was digested and fits the CHECK constraints with two exceptions (below), two requests have one digest exactly when they mean the same, of what the handler accepted `prepare` refuses only rules without an instant; the field is exactly what the items mean and the loop ends; an accepted expression has a date within ten years, which the search finds |

Runs that find a violation, each of something the documentation states:

| Run | Statement | What happens |
| --- | --- | --- |
| `stranded_row` | used-up attempts end a dispatch, and overlapping wakeups are safe (`docs/RELIABILITY.md:49`, `:17`) | A slow cycle's retry or deferral lands on the claim of a newer cycle of the same process, because `transitionDispatch` compares the worker identity only. The row is left `retrying` with all attempts charged; neither the claim query nor recovery selects it again. |
| `reclaim_during_attempt` | `claim_ttl > dispatch_timeout` prevents a reclaim during a legal attempt (`:51`) | The claim runs from the batch claim and `BeginDispatch` does not renew it, so it may expire inside the attempt. The budget and the closing of the occurrence are not affected. |
| `attempt_after_window` | an elapsed retry window ends the dispatch (`:49`) | The window is tested when a result is persisted; a row claimed late or recovered starts another attempt after it. |
| `ready_during_shutdown` | readiness closes before the HTTP server shuts down (`:61`) | `main` calls `server.Shutdown` first and `Runtime.Stop` second. |

`AttemptsMirrored` and `OpenRowsComeBack` fail like `stranded_row` when the cycles of one
process overlap, which the wakeup adapter allows: the write of the slow cycle leaves
the occurrence with fewer attempts than were charged, or the row out of reach.
`OnlyStaleWritesHarm` in `dispatch_overlap` and the theorem `HarmIsStale` say that
such a write is the only cause.

Two disagreements have no run of their own. `docs/API_CONTRACT.md:144` makes every
status that is not 408, 425, 429 or 5xx permanent; the client retries everything
from 500 up, 600 to 999 included, and `ClassifiedAsDocumented` says what the client does.
And `StoredFitsSchema` names the two cases in which an accepted command fails at its
INSERT: a time zone name over 128 bytes that `time.LoadLocation` resolves, and a
payload with U+0000, which `jsonb` does not store.

### Bounds

Two cycles are enough for every race above: each is between one stale actor and
one current one, and the `WHERE` clauses of a write look at one row. Two
attempts let a stale writer with an attempt left meet a row without. `ClaimTTL` is 2 (3 in
`reclaim_during_attempt`) and `MaxClock` 4, so that a claim can expire, be taken
over and expire again. `dispatch_lease` has four attempts and `MaxClock` 3, so that the
backoff is doubled and then held by its cap, which is below the second doubling. Batches of several rows are model-checked in `plan_skip`;
for the dispatcher they are covered by the proofs, which hold for every batch
size. In `Planner`, `MaxClock` 4 with `ClaimTTL` 1 and catch-up limit 2 lets the
backlog exceed the limit and a claim be taken over several times, and `MaxCommands`
bounds the commands that take effect between the cycles. `Ids` has two members
where a schedule is deleted and created again. `MaxLag` 1 makes readings of two
cycles cross. In `CronField` the largest integer is 15, so that the largest step, also 15,
overflows when it is added; the day-of-week field is the one with a second name
(7) for a value. In `CronCalendar` the starts cover a leap day, a year that is not
a leap year though divisible by four (2100, inside a ten-year search from 2096)
and an ordinary date. Intervals are at, next to and a nanosecond off both bounds. Requests differ from a plain one in any two members of the head, or any two of the
body, which covers every order of two refusals and every comparison of two
members; deviations in three members at once are left out, except among the four retry
numbers, which vary together. Addresses of four and
six bits keep what the policy tells apart: two families, the mapped range,
prefixes of every length, and a block of each kind. `Process` lets the runtime
start only when no installation is under way (`Settled`): later installers find the
namespace used and change nothing, and without this bound every state of the
runtime would be multiplied by every state of theirs. Foreign objects are there from
the start or not at all: DDL by third parties, which does not take the advisory
lock, can come between an installer's inspection and its script, and `OnlyIntoEmpty`
says nothing of it. One request stands for all: requests meet only in the pool,
whose closing waits for each alike. In `CommandService` one tick is enough: `run_at` 1 is
in the future before it and past after it. Sessions are symmetric there, and all
properties checked under symmetry are safety properties.

Deadlock is checked except where the system ends: `Process`, `TargetClient`
and `Admission` stop when their work is done.

### Fairness

`Dispatcher`, `CommandService` and `TargetClient` state no fairness; their
properties are safety properties. `OpenRowsComeBack` expresses progress without it:
every open row is claimable, or its claim or delay runs out within a bounded
time.

`Planner` assumes for `DueIsPlanned` that time passes, that a cycle which has claimed
rows goes on (weak fairness of each of its later steps, any of which may still
fail), and that of the cycles the timer keeps starting some later one finds no due
row locked (strong fairness of `RunUnhindered`): the locks behind `SKIP LOCKED` last as
long as one short transaction, and wakeups never stop. It does not assume that
a cycle with a free claim exists at any given time, or that crashes stop for its
sake: `FaultsAllowed` only keeps the last claim inside the clock bound.

`Process` assumes that the main goroutine is scheduled, that the shutdown deadline and
the probe's two seconds pass, and that a statement of a cycle ends once the runtime's
context is cancelled: `WithinTx` and the statements inside it take that context. Three
calls do not take it, and nothing is assumed of them: the deferred rollback and the
dispatcher's release of a lease have contexts of their own, and the transaction of
a request has the request's. `ShutdownEnds` therefore has two outcomes, the exit and a
connection that never comes back, while `ShutdownClosesPool` needs neither.
Requests, callbacks, cycles that are not cancelled, installers and restarts are under
no assumption. `Admission` assumes that the handler, the parser and the search keep running.

## 4. Proofs

The safety properties of the runs are also theorems, for arbitrary values of
the constants. The two that need processes with one cycle each are proved in the
form that overlapping cycles leave: `RowsComeBack` excepts stranded rows, `HarmIsStale`
says where those, and differing counts, come from. The runs try a property, and the invariant behind it, on a small
instance; the proofs remove the bounds. A theorem rests on the named assumption of
its module; `NoUnrecordedSkip` has a premise of its own.

| Theorem | Module | Statement |
| --- | --- | --- |
| `TypeCorrect` | `DispatcherProofs` | `Spec => []TypeOK`, including the claim CHECK of the outbox |
| `RowsAgree` | `DispatcherProofs` | the two tables agree on what is open, succeeded or failed |
| `BudgetKept` | `DispatcherProofs` | no more requests than `max_attempts` |
| `SuccessIsReal` | `DispatcherProofs` | an attempt is reported as succeeded only if the target accepted that attempt's request |
| `ClosedStaysClosed` | `DispatcherProofs` | a closed occurrence never changes |
| `RowsComeBack` | `DispatcherProofs` | an open row that is not stranded is out of reach no longer than its claim, backoff or coordination delay, however cycles overlap |
| `DeliveryKept` | `DispatcherProofs` | `Spec` implements `Delivery` |
| `HarmIsStale` | `DispatcherProofs` | a step that strands a row, or makes the tables count differently, writes an outdated copy under the claim of a later cycle of the same process |
| `TypeCorrect` | `PlannerSafety` | types and the CHECK constraints of the schedule table |
| `ForbidIsKept` | `PlannerSafety` | under forbid no commit opens an occurrence next to an open one |
| `ExhaustedIsRecorded` | `PlannerSafety` | a once schedule is exhausted only with the occurrence of its `run_at` |
| `OnlyActiveSchedulesFire` | `PlannerSafety` | an occurrence is recorded only for a schedule active at the commit |
| `DueFollowsRecorded` | `PlannerSafety` | recorded instants lie before the due instant plus `MaxLag`, for every lag |
| `NoUnrecordedSkip` | `PlannerSafety` | with `MaxLag` within every catch-up bound: no due instant is passed without the record its policy owes |
| `CommandTypeCorrect` | `CommandProofs` | types of rows, receipts, locks and sessions |
| `EffectsMatchReceipts` | `CommandProofs` | every receipt stands for one effect, every effect has its receipt |
| `DuplicatesWait` | `CommandProofs` | one session per command identity is past the advisory lock |
| `UsedUpRunAtStays` | `CommandProofs` | an exhausted schedule is not armed again for the same `run_at` |
| `CommandsRefineReceipts` | `CommandProofs` | `CommandService` implements `Receipts` |
| `ProcessTypeCorrect` | `ProcessProofs` | types of the process, its runtime and its installers; the wait group counts the busy cycles |
| `StopIsQuiet`, `WaitGroupKept`, `ReadyIsHonest` | `ProcessProofs` | the runtime's three safety properties |
| `UsedIsUntouched`, `WaitersAreRefused` | `ProcessProofs` | the installer's two |
| `InstalledBeforeServing`, `ExitIsClean` | `ProcessProofs` | the two that relate both parts with `run` |
| `VerdictsAsDocumented` | `TargetProofs` | the classification table, whenever the context ends |
| `PolicyIsKept` | `TargetProofs` | the address policy for every allowlist over the small address space |
| `ClaimsOutlive` | `TargetProofs` | configured claims are longer than configured attempts, in every accepted environment |
| `FieldsAreExact` | `AdmissionProofs` | a parsed field is what its items mean, for every width of `int` |
| `AcceptedIsFound` | `AdmissionProofs` | an accepted expression has a date inside the horizon; a refused one has none |
| `DigestIsOfStored` | `AdmissionProofs` | what is stored is what was digested |
| `OnlyRulesAreRefused` | `AdmissionProofs` | `prepare` refuses nothing the handler accepted but rules without an instant, and those always |
| `DigestsAreMeanings` | `AdmissionProofs` | the digest says what the request means with the documented defaults, and keeps no spelling |
| `AcceptedFitsSchema` | `AdmissionProofs` | the CHECK constraints hold but for the two exceptions of `StoredFitsSchema` |

### Assumptions

- `DispatcherAssumption`: every cycle has a worker, every row has a positive budget,
  timing constants are naturals with `DispatchTimeout < ClaimTTL`, and `None` names
  nothing. The clock bound `MaxClock` and the lag `MaxLag` are arbitrary naturals.
- `PlannerAssumption` and `CommandAssumption`: definitions are as validation leaves them
  (a positive interval, a positive limit that is 1 without catch-up), row identities
  are finitely many numbers, requests and identities have their types.
- `FieldAssumption`: the largest `int` is at least the largest weekday.
  `CalendarAssumption`: starts are dates, a month field that was parsed is not empty,
  and the horizon (ten years in the code) is over eight years, the longest time
  without a leap day.
- `TargetAssumption`: statuses are the ones `net/http` hands over as final, up to 999, answers are lists of addresses, lists of
  prefixes are lists of prefixes. `RequestAssumption`: members of a request have
  their JSON types. `RuleAssumption`: the items of a request's cron rule are items.

### The arguments

**Dispatcher.** `TypeOK` is not inductive: `PersistResult` writes through the row in
hand, so `TypeInv` adds `WorkInHand`, that a cycle past `next` holds a real row.
On top of it one lemma, `RowSteps`, reduces every step of the system to the six
ways one row can change (same, inserted, given up, taken, charged, finished);
`SafeInv` is then preserved by looking at these six cases instead of at every
action. `SafeInv` strengthens the properties by what connects them: attempts charged bound the
requests sent, a result of success in a cycle's hand implies acceptance, and the
statuses of the two tables correspond. The refinement uses the same lemma: charging is the promise's
`Attempt`, finishing is `Succeed` or `GiveUp`, recovery gives up a set, the rest
stutters. `RowsComeBack` needs what the shift in `retryBackoff` computes: the
delay never exceeds `MaxBackoffSeconds`, however often it is doubled. The
last theorem, `HarmIsStale`, is about copies: `CopyInv` says that a copy never has more
attempts than the row and that a cycle without others in its process, while it
owns a row, has the row's own attempts in its copy. A write that passes the owner test is then of
a current copy, which does no harm (`FinishedCopy`), or is a `StaleWrite`; `stranded_row` shows
that the latter happens.

**Planner.** `HasOpenOccurrence` is read before the inserts, and the claim that guards
the row may have expired and been taken by another cycle of the same worker, so
what saves the overlap policy is the version. `PlannerInv` says so: a claimed row is
the row of the table as long as the versions are equal (`HeldCurrent`), row
identities are never reused (`IdsUnique`), and a "nothing open" answer stays true
until the version moves (`NothingOpened`). `Moves` is the planner's counterpart of
`RowSteps`: a row is kept up to its claim, gone, created under a new identity, or
its version moves; an occurrence opens only in the commit that moves the version
of its schedule. Types and `PlannerInv` are proved together, since each needs
the other in the commit.

`PlannerProofs` has what the planner computes. `CandidatesClimb` and
`CandidatesCover` describe the catch-up loop after k turns: the instants rise, and
there is no instant of the rule between two of them. From these, `PlanShape` says
what any plan records and that it moves forward, `CatchUpCovers` that a plan
within the bound leaves no instant out.

`RecordedBehind` relates the two tables: no recorded instant is `MaxLag` or more past
the instant its schedule waits for, which is `RecordedBehindDue`. Without lag no schedule
waits for an instant already recorded. With lag it
says how many instants of a catch-up can have been recorded before; as long as
that is within the bound, `NoUnrecordedSkip` follows. The premise is needed: with a
limit of 2 and `MaxLag` 3 TLC finds a plan whose bound is used up by instants a faster
clock already recorded, and `DueAccounted` fails. With the code's readings, a lag
that long is a clock difference of as many intervals between two processes.

**Commands.** `CommandInv` has a clause for each stage of a session (`Stage`: who
holds the lock, what is known of the receipt, which results are possible), the
wholeness of receipts, and `SameVersionSameRow`: a row read earlier with the version
it still has is the row as it is now. The last clause is why the conditional
write is atomic although it follows its read: `WritePerforms` shows that the
write does to the current row what the command computed from the row read. Every
other statement of a session is the promise's `Replay`, `Refuse`, `Fail`, or
nothing. `RowsValid` adds the constraints of the stored row; `WrittenIsEffect` gives it
and `UsedUpRunAtStays` the row a write leaves.

**Process.** A step is a step of the runtime or none together with a step of the
installer or none (`StepOfParts`), so each has its own invariant: `RuntimeInv` makes
every flag a function of where the main goroutine is, `InstallInv` gives the advisory
lock to whoever is past it and an empty namespace to whoever runs the script.
`StageInv` relates the two along the stages of `run`.

**Target.** `AttemptInv` says what error and code each step of an attempt finds, so
that the verdict is a function of the fault and of the context alone.
`PolicyInv` carries the policy from the allowlist to the pinned address.
`InternalPrefix` shows that a prefix inside an internal block contains internal
addresses only, by division with the block sizes, and `SafeIsNotInternal` that
`netip`'s predicates leave out every block of the list.

**Admission and cron.** `FieldInv` says what the parser's loop has collected after any
number of turns (`TurnOfLoop`, `PlusFits`: the sum that would overflow is past the end
of its range). `SearchInv` keeps a matching date ahead of the search: `AcceptedIsAhead`
names one when the search begins (an allowed weekday in the first week of an
allowed month of the next year, or an allowed date of a leap year at most eight
years ahead, by `LeapSoon`), `AheadTomorrow` shows that a day which does not match
cannot pass it. `AdmitInv` is that the checks have passed, that the digest is of
the normalised request, and what the calculator found wrong with a rule it refused; `NormalisedOnce`
shows that normalising twice is normalising once, `PassedIsAdmitted` reads off the
handler's checks what an accepted request satisfies, and `MeaningKept` relates
its digest to its meaning.

**Induction.** The provers cannot instantiate an induction theorem with an operator. Where
a loop needs induction, the proof takes the set of turns that violate the claim
and its least member (`LeastNat` in `NumberLemmas`). `Iterates` is what a recursive function
over `0..k` is, proved that way.

**Provers.** A leaf that names `Zenon` is first-order and needs no arithmetic; naming the
prover spares the encoding for the SMT solver, which takes most of the time in
these modules. Numbers like 3600 have names in the proofs for the same reason.

Only proved, and in no run's list: that duplicates wait (`DuplicatesWait`) and that
readiness is honest (`ReadyIsHonest`), which the theorems about the same
invariants bring along.

Only model-checked: liveness, which is beyond the prover used here (`DueIsPlanned`,
`ShutdownClosesPool`, `ShutdownEnds`, `LoopEnds`), and the runs that find a violation.

## 5. Abstractions and omissions

- Time is a natural number. Durations keep their order and their sums, not
  their size. Random jitter of the backoff is a choice over the interval the
  code can produce.
- In the protocol modules payloads, headers, URLs, tenants and error texts are
  left out: no statement branches on them beyond the outcomes the models have. All tables are
  keyed by tenant, and nothing crosses tenants. `Admission` and `Configuration` keep
  texts as the classes their checks tell apart.
- A target may accept a request whose answer the scheduler never sees; acceptance
  is modelled up to the end of the attempt. A later acceptance would only
  add to `accepted` and change no other variable.
- `skip` and `fire_once` record the first missed instant only, as documented;
  `DueAccounted` counts the instants in between as covered by that record.
- With clock skew between processes a schedule may wait for an instant that is already
  recorded; the unique key drops the insert. `RecordedBehindDue` bounds how far back
  this reaches.
- Schedules whose recurrence fails are claimed and released by every cycle. When
  they fill the batch, others wait behind them; `DueIsPlanned` is checked where
  they leave room, and `AcceptedMeansFound` shows that accepted rules do not fail.
- Resuming a schedule recalculates from the current instant, as documented.
- PostgreSQL resolves lock cycles by aborting a transaction; the models contain the abort,
  not the lock order.

### Not modelled

- Cron tokens, descriptors and names, hours and minutes, and time zones with
  their transitions: `CronCalendar` works on days, `CronField` on parsed items.
- `encoding/json` accepts member names in other cases; bodies have members under
  their own names only.
- `Renew` of the Redis lease is never called and has no action.
- The reading of the schema catalog and `CompareSchemaCatalog`: only integration tests
  call them.
- Cycles' calls to a target at exit: they hold no connection and end with the process.
- Status codes and layout of responses, log lines, scanning of rows into structs, TLS and
  transport settings, the `healthcheck` subcommand, interfaces and thin wrappers, and
  test doubles.
- `application/json_validation.go`, a walk over JSON keys that nothing calls.
- A single model of planner, dispatcher and runtime together. They share one step, the
  insert of an occurrence, and one fact, that it closes; both are in the separate
  models, and the product of their states is out of reach of TLC.

## 6. Plan

Done: the modules of section 2, the runs of section 3, the theorems of section 4.
Next, in this order:

1. Refine the composition: the planner's `InsertDispatch` and `CloseOccurrence` as
   steps of one abstract occurrence, with both detailed modules shown to take them.
2. State what `NextAfter` computes against a reference, that it is the first
   instant in phase after the threshold, as a theorem of its own.
3. A countdown model of time for the dispatcher's liveness: an open row is closed
   under fair cycles.
4. Hours, minutes and zone transitions in `CronCalendar`.
