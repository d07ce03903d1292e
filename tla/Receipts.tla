------------------------------ MODULE Receipts ------------------------------
(***************************************************************************)
(* What the command service promises its callers.  A command takes effect  *)
(* in one step, on the row as it is in that very step and together with    *)
(* its receipt; it does so at most once, and every later request with the  *)
(* same identity is answered from the receipt.  Locks, reads that may be   *)
(* stale, versions and transactions are not part of the promise.           *)
(***************************************************************************)
EXTENDS Integers

CONSTANTS
  Names,               \* schedule names
  NoRow,               \* no schedule of that name
  Sessions,            \* callers
  Submitted,           \* requests they send: [op, name, key, body]
  Times,               \* readings of the clock
  Ids,                 \* row identities
  Admits(_, _),        \* Admits(q, row): the operation applies to the row
  Effect(_, _, _, _)   \* Effect(q, row, t, id): the row it leaves

VARIABLES
  rows,       \* schedules by name
  receipts,   \* receipts by command identity
  callers     \* [req, answer] of each caller

promise == <<rows, receipts, callers>>

Nobody == [req |-> [op |-> "none"], answer |-> "none"]
Unused == "none"
Refusals == {"already_exists", "not_found", "exhausted", "changed"}

Done(op) == CASE op = "create" -> "registered" [] op = "update" -> "updated"
              [] op = "delete" -> "deleted" [] op = "pause" -> "paused" [] op = "resume" -> "resumed"

Key(q) == <<q.op, q.name, q.key>>

Waits(s) == callers[s].req # Nobody.req /\ callers[s].answer = "none"
Query(s) == callers[s].req
Receipt(s) == receipts[Key(Query(s))]

Told(s, code) == callers' = [callers EXCEPT ![s] = [req |-> Query(s), answer |-> code]]

Start ==
  /\ rows = [n \in Names |-> NoRow]
  /\ \A i \in DOMAIN receipts : receipts[i].result = Unused
  /\ callers = [s \in Sessions |-> Nobody]

Ask(s) ==
  /\ callers[s] = Nobody
  /\ \E q \in Submitted : callers' = [callers EXCEPT ![s] = [req |-> q, answer |-> "none"]]
  /\ UNCHANGED <<rows, receipts>>

\* The receipt is kept; its caller learns of it unless the answer is lost.
Keep(s, code) ==
  /\ Receipt(s).result = Unused
  /\ receipts' = [receipts EXCEPT ![Key(Query(s))] = [body |-> Query(s).body, result |-> code]]
  /\ Told(s, code) \/ Told(s, "failed")

Perform(s) ==
  LET q == Query(s) IN
  /\ Waits(s) /\ Admits(q, rows[q.name])
  /\ Keep(s, Done(q.op))
  /\ \E t \in Times, id \in Ids : rows' = [rows EXCEPT ![q.name] = Effect(q, rows[q.name], t, id)]

Refuse(s) ==
  /\ Waits(s)
  /\ \E code \in Refusals : Keep(s, code)
  /\ UNCHANGED rows

Replay(s) ==
  /\ Waits(s)
  /\ Receipt(s).result # Unused
  /\ Told(s, IF Receipt(s).body = Query(s).body THEN Receipt(s).result ELSE "idempotency_conflict")
  /\ UNCHANGED <<rows, receipts>>

\* A request without a receipt may be invalid; any request may fail.
Fail(s) ==
  /\ Waits(s)
  /\ Told(s, "failed") \/ (Receipt(s).result = Unused /\ Told(s, "invalid_command"))
  /\ UNCHANGED <<rows, receipts>>

Leave(s) ==
  /\ callers[s].answer # "none"
  /\ callers' = [callers EXCEPT ![s] = Nobody]
  /\ UNCHANGED <<rows, receipts>>

\* The planner moves an active schedule on.
Advance(n) ==
  /\ rows[n] # NoRow /\ rows[n].status = "active"
  /\ rows' = [rows EXCEPT ![n] = rows'[n]]
  /\ rows'[n].id = rows[n].id /\ rows'[n].rule = rows[n].rule
  /\ rows'[n].version = rows[n].version + 1 /\ rows'[n].status \in {"active", "exhausted"}
  /\ UNCHANGED <<receipts, callers>>

Step ==
  \/ \E s \in Sessions : Ask(s) \/ Perform(s) \/ Refuse(s) \/ Replay(s) \/ Fail(s) \/ Leave(s)
  \/ \E n \in Names : Advance(n)

Promise == Start /\ [][Step]_promise
=============================================================================
