--------------------------- MODULE Configuration ----------------------------
(***************************************************************************)
(* config.Load: from the environment to the values the constructors use.   *)
(* Durations are seconds.  A variable that is not set is Unset and one     *)
(* that does not parse is Bad.                                             *)
(***************************************************************************)
EXTENDS TargetPolicy

Unset == -1
Bad == -2

\* The database URL, the Redis URL and the worker id are text that nothing below
\* looks into: each is well formed or not.
DatabaseAccepted(text) == text = "well_formed"
RedisAccepted(text) == text \in {"", "well_formed"}
WorkerAccepted(text) == text \in {"", "well_formed"}

MaximumConfiguredDuration == 86400
MaximumBatchSize == 1000

DurationAccepted(raw) == raw = Unset \/ raw \in 1..MaximumConfiguredDuration
DurationValue(raw, fallback) == IF raw = Unset THEN fallback ELSE raw

BatchAccepted(raw) == raw = Unset \/ raw \in 1..MaximumBatchSize

WakeupInterval(env) == DurationValue(env.wakeup, 1)
ClaimTTL(env) == DurationValue(env.claim, 120)
DispatchTimeout(env) == DurationValue(env.dispatch, 30)
BatchSize(env) == IF env.batch = Unset THEN 100 ELSE env.batch

\* Mutation: a claim that ends with the attempt is let through.
ClaimOutlivesLoosely(env) == ClaimTTL(env) >= DispatchTimeout(env)

\* The defaults are filled in before the two are compared.
ClaimOutlives(env) == ClaimTTL(env) > DispatchTimeout(env)

LoadAccepts(env) ==
  /\ DatabaseAccepted(env.database)
  /\ RedisAccepted(env.redis)
  /\ DurationAccepted(env.wakeup) /\ DurationAccepted(env.claim) /\ DurationAccepted(env.dispatch)
  /\ ClaimOutlives(env)
  /\ BatchAccepted(env.batch)
  /\ WorkerAccepted(env.worker)
  /\ AllowlistAccepted(env.allow)

-----------------------------------------------------------------------------
(* NewPlanner, NewDispatcher, NewDefaultClientWithAllowlist and NewWakeup. *)

OrDefault(value, fallback) == IF value <= 0 THEN fallback ELSE value

\* What the constructors make of a loaded configuration.
Construct(env) ==
  [plannerTTL |-> OrDefault(ClaimTTL(env), 120), plannerBatch |-> OrDefault(BatchSize(env), 100),
   dispatcherTTL |-> OrDefault(ClaimTTL(env), 120), dispatcherBatch |-> OrDefault(BatchSize(env), 100),
   attempt |-> OrDefault(DispatchTimeout(env), 30), client |-> OrDefault(DispatchTimeout(env), 30)]

\* NewWakeup refuses what is not positive, and the worker needs a name.
ConstructAccepts(env) == WakeupInterval(env) > 0
=============================================================================
