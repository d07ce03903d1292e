--------------------------- MODULE CommandService ---------------------------
(***************************************************************************)
(* Control commands with idempotency receipts.  A session executes one     *)
(* request in one READ COMMITTED transaction: advisory lock of the command *)
(* identity, receipt lookup, reads, one conditional write and the receipt. *)
(* Statements of different sessions, planner commits and the clock         *)
(* interleave; what a transaction writes becomes visible when it commits,  *)
(* and no other writer passes its write in between (row lock), so that the *)
(* write, the receipt and the commit are one step.                         *)
(***************************************************************************)
EXTENDS Integers

CONSTANTS
  Names,        \* schedule names of one tenant
  Ids,          \* row identities: 1..n, handed out in order
  Keys,         \* idempotency keys
  Definitions,  \* schedule definitions: [rule, status]
  Submitted,    \* requests that clients send, over and over
  Sessions,     \* concurrent executions of requests
  MaxClock,     \* bound: the last instant of the model
  None          \* NULL: no row, no receipt, nothing read

VARIABLES
  clock,      \* real time
  schedule,   \* scheduler_schedule by name
  nextId,     \* the next row identity
  receipt,    \* scheduler_command_receipt by command identity
  lock,       \* advisory locks: the session that holds an identity
  effects,    \* history: how often a command identity changed a schedule
  pc,         \* where each session is
  request,    \* the request a session executes
  now,        \* the clock reading of apply
  current,    \* the row apply read
  result      \* the code of the result or error a session has

session == <<pc, request, now, current, result>>
vars == <<clock, schedule, nextId, receipt, lock, effects, pc, request, now, current, result>>

R == INSTANCE Recurrence

Operations == {"create", "update", "delete", "pause", "resume"}
Applied == {"registered", "updated", "deleted", "paused", "resumed"}
Refused == {"already_exists", "not_found", "exhausted", "changed"}
Errors == {"idempotency_conflict", "invalid_command", "failed"}

\* A body belongs to create and update only; the others digest the same body.
Requests ==
  [op : {"create", "update"}, name : Names, key : Keys, body : Definitions]
  \cup [op : {"delete", "pause", "resume"}, name : Names, key : Keys, body : {None}]

\* Method and path are part of the scope, so an identity fixes the operation
\* and the name; the digest adds the body.
Identity(q) == <<q.op, q.name, q.key>>
Identities == Operations \X Names \X Keys

ASSUME CommandAssumption ==
  /\ MaxClock \in Nat
  /\ Ids \subseteq Nat /\ None \notin Ids
  /\ Submitted \subseteq Requests
  /\ None \notin Definitions /\ None \notin Sessions
  /\ \A d \in Definitions : /\ d.rule.kind \in {"every", "cron", "once"}
                            /\ d.rule.kind = "every" => d.rule.interval \in Nat \ {0}
                            /\ d.rule.kind = "cron" => d.rule.minutes \subseteq Nat
                            /\ d.rule.kind = "once" => d.rule.at \in Nat
                            /\ d.status \in {"active", "paused"}

NoTime == -1
NoRow == [id |-> None]
NoRequest == [op |-> "none"]
NoReceipt == [body |-> None, result |-> "none"]

\* Rows that ck_scheduler_schedule_next accepts.
ScheduleRow ==
  {row \in [id : Ids, version : Nat, status : {"active", "paused", "exhausted"},
            rule : {d.rule : d \in Definitions}, nextDueAt : Int] :
     IF row.status = "exhausted" THEN row.rule.kind = "once" /\ row.nextDueAt = NoTime
     ELSE row.nextDueAt >= 0 /\ (row.rule.kind = "once" => row.nextDueAt = row.rule.at)}

\* Every variable has its type, and no command leaves a row that the table's
\* CHECK on status, run_at and next_due_at would reject.
TypeOK ==
  /\ clock \in Nat /\ nextId \in Nat
  /\ schedule \in [Names -> ScheduleRow \cup {NoRow}]
  /\ receipt \in [Identities -> [body : Definitions \cup {None}, result : Applied \cup Refused \cup {"none"}]]
  /\ lock \in [Identities -> Sessions \cup {None}]
  /\ effects \in [Identities -> Nat]
  /\ pc \in [Sessions -> {"idle", "lock", "find", "apply", "write", "reread", "receipt", "done"}]
  /\ request \in [Sessions -> Requests \cup {NoRequest}]
  /\ now \in [Sessions -> Int]
  /\ current \in [Sessions -> ScheduleRow \cup {NoRow}]
  /\ result \in [Sessions -> Applied \cup Refused \cup Errors \cup {"none"}]

Init ==
  /\ clock = 0 /\ nextId = 1
  /\ schedule = [n \in Names |-> NoRow]
  /\ receipt = [i \in Identities |-> NoReceipt]
  /\ lock = [i \in Identities |-> None]
  /\ effects = [i \in Identities |-> 0]
  /\ pc = [s \in Sessions |-> "idle"]
  /\ request = [s \in Sessions |-> NoRequest]
  /\ now = [s \in Sessions |-> NoTime]
  /\ current = [s \in Sessions |-> NoRow]
  /\ result = [s \in Sessions |-> "none"]

-----------------------------------------------------------------------------
(* Moving a session.                                                       *)

Own(s) == Identity(request[s])
Goto(s, label) == pc' = [pc EXCEPT ![s] = label]
tables == <<clock, schedule, nextId, receipt, effects>>

\* apply returns: what it read is gone.
Leave(s, label, code) ==
  /\ Goto(s, label)
  /\ result' = [result EXCEPT ![s] = code]
  /\ now' = [now EXCEPT ![s] = NoTime]
  /\ current' = [current EXCEPT ![s] = NoRow]

\* The transaction ends and the caller gets a result or an error.
Return(s, code) ==
  /\ Leave(s, "done", code)
  /\ lock' = [i \in Identities |-> IF lock[i] = s THEN None ELSE lock[i]]

\* Execute enters its transaction with a request that prepare accepted.
Begin(s, q) ==
  /\ pc[s] = "idle"
  /\ Goto(s, "lock")
  /\ request' = [request EXCEPT ![s] = q]
  /\ UNCHANGED <<tables, lock, now, current, result>>

LockFree(i) == lock[i] = None

LockCommandIdentity(s) ==
  /\ pc[s] = "lock" /\ LockFree(Own(s))
  /\ lock' = [lock EXCEPT ![Own(s)] = s]
  /\ Goto(s, "find")
  /\ UNCHANGED <<tables, request, now, current, result>>

\* Mutation: the digest is not compared.
FindAnyBody(s) ==
  LET prior == receipt[Own(s)] IN
  /\ pc[s] = "find"
  /\ IF prior = NoReceipt THEN Goto(s, "apply") /\ UNCHANGED <<now, current, result, lock>>
     ELSE Return(s, prior.result)
  /\ UNCHANGED <<tables, request>>

\* A prior receipt answers the request or, for another body, refuses the key.
FindCommandReceipt(s) ==
  LET prior == receipt[Own(s)] IN
  /\ pc[s] = "find"
  /\ \/ /\ prior = NoReceipt
        /\ Goto(s, "apply")
        /\ UNCHANGED <<now, current, result, lock>>
     \/ /\ prior # NoReceipt /\ prior.body = request[s].body
        /\ Return(s, prior.result)
     \/ /\ prior # NoReceipt /\ prior.body # request[s].body
        /\ Return(s, "idempotency_conflict")
  /\ UNCHANGED <<tables, request>>

-----------------------------------------------------------------------------
(* apply: the reads.                                                       *)

Reads(s) == request[s].op \in {"update", "pause", "resume"}

\* Result that the read alone decides.
ReadResult(s) ==
  LET row == schedule[request[s].name] IN
  CASE Reads(s) /\ row = NoRow -> "not_found"
    [] request[s].op \in {"pause", "resume"} /\ row # NoRow /\ row.status = "exhausted" -> "exhausted"
    [] OTHER -> "none"

\* Mutation: any two once definitions count as the same obligation.
SameKind(d, row) == d.rule.kind = "once" /\ row # NoRow /\ row.rule.kind = "once"

SameRunAt(d, row) ==
  d.rule.kind = "once" /\ row # NoRow /\ row.rule.kind = "once" /\ d.rule.at = row.rule.at

\* The due instant the command writes.  R!NoNext: the command is invalid.
NextDueAt(q, row, t) ==
  CASE q.op = "update" /\ SameRunAt(q.body, row) -> row.nextDueAt
    [] q.op \in {"create", "update"} /\ ~SameRunAt(q.body, row) ->
         IF q.body.rule.kind # "once" THEN R!Next(q.body.rule, t)
         ELSE IF q.body.rule.at > t THEN q.body.rule.at ELSE R!NoNext
    [] q.op = "resume" -> IF row.rule.kind = "once" THEN row.rule.at ELSE R!Next(row.rule, t)
    [] q.op = "pause" -> row.nextDueAt
    [] q.op = "delete" -> NoTime

\* The clock is read before the row.  A rejected command leaves no receipt.
Apply(s) ==
  LET q == request[s]
      row == IF Reads(s) THEN schedule[q.name] ELSE NoRow
      code == ReadResult(s)
  IN
  /\ pc[s] = "apply"
  /\ \/ /\ code # "none"
        /\ Leave(s, "receipt", code) /\ UNCHANGED lock
     \/ /\ code = "none" /\ NextDueAt(q, row, clock) = R!NoNext
        /\ Return(s, IF q.op = "resume" THEN "failed" ELSE "invalid_command")
     \/ /\ code = "none" /\ NextDueAt(q, row, clock) # R!NoNext
        /\ Goto(s, "write")
        /\ now' = [now EXCEPT ![s] = clock]
        /\ current' = [current EXCEPT ![s] = row]
        /\ UNCHANGED <<result, lock>>
  /\ UNCHANGED <<tables, request>>

-----------------------------------------------------------------------------
(* apply: the write.                                                       *)

\* Mutation: the WHERE clause of the conditional write ignores the version.
MayWriteAnyVersion(s) ==
  LET row == schedule[request[s].name] IN
  IF request[s].op = "create" THEN row = NoRow ELSE row # NoRow

\* The statement finds its row: none for create, any for delete, the one that
\* was read (by identity and version) for the others.
MayWrite(s) ==
  LET row == schedule[request[s].name] IN
  CASE request[s].op = "create" -> row = NoRow
    [] request[s].op = "delete" -> row # NoRow
    [] request[s].op = "update" -> row # NoRow /\ row.id = current[s].id /\ row.version = current[s].version
    [] request[s].op \in {"pause", "resume"} ->
         /\ row # NoRow /\ row.id = current[s].id /\ row.version = current[s].version
         /\ row.status # "exhausted"

Status(q, row) ==
  CASE q.op = "create" -> q.body.status
    [] q.op = "update" ->
         IF SameRunAt(q.body, row) /\ row.status = "exhausted" THEN "exhausted" ELSE q.body.status
    [] q.op = "pause" -> "paused"
    [] q.op = "resume" -> "active"

\* The row the statement leaves: identity and version are the row's own, what the
\* command computed comes from the row and the clock it read.
Written(s) ==
  LET q == request[s]
      row == schedule[q.name]
  IN CASE q.op = "delete" -> NoRow
       [] q.op # "delete" ->
            [id |-> IF q.op = "create" THEN nextId ELSE row.id,
             version |-> IF q.op = "create" THEN 1 ELSE row.version + 1,
             status |-> Status(q, current[s]),
             rule |-> IF q.op \in {"create", "update"} THEN q.body.rule ELSE row.rule,
             nextDueAt |-> IF q.op = "pause" THEN row.nextDueAt ELSE NextDueAt(q, current[s], now[s])]

Code(op) == CASE op = "create" -> "registered" [] op = "update" -> "updated"
              [] op = "delete" -> "deleted" [] op = "pause" -> "paused" [] op = "resume" -> "resumed"

\* The commit reaches the caller, or its acknowledgement is lost.
Answer(s, code) == Return(s, code) \/ Return(s, "failed")

\* Mutation: the schedule changes in a transaction of its own.
StoredApart(s, code) ==
  \/ receipt' = [receipt EXCEPT ![Own(s)] = [body |-> request[s].body, result |-> code]] /\ Answer(s, code)
  \/ UNCHANGED receipt /\ Return(s, "failed")

\* InsertCommandReceipt and commit; the primary key admits one receipt.
Stored(s, code) ==
  /\ receipt[Own(s)] = NoReceipt
  /\ receipt' = [receipt EXCEPT ![Own(s)] = [body |-> request[s].body, result |-> code]]
  /\ Answer(s, code)

Write(s) ==
  LET q == request[s] IN
  /\ pc[s] = "write"
  /\ \/ /\ MayWrite(s) /\ Stored(s, Code(q.op))
        /\ schedule' = [schedule EXCEPT ![q.name] = Written(s)]
        /\ effects' = [effects EXCEPT ![Own(s)] = @ + 1]
        /\ IF q.op = "create" THEN nextId \in Ids /\ nextId' = nextId + 1 ELSE UNCHANGED nextId
     \/ /\ ~MayWrite(s) /\ q.op \in {"create", "delete"}
        /\ Leave(s, "receipt", IF q.op = "create" THEN "already_exists" ELSE "not_found")
        /\ UNCHANGED <<schedule, nextId, receipt, effects, lock>>
     \/ /\ ~MayWrite(s) /\ q.op \in {"update", "pause", "resume"}
        /\ Goto(s, "reread")
        /\ UNCHANGED <<schedule, nextId, receipt, effects, lock, result, now, current>>
  /\ UNCHANGED <<clock, request>>

\* After a lost race the row is read again to name the reason.
Reread(s) ==
  LET row == schedule[request[s].name] IN
  /\ pc[s] = "reread"
  /\ Leave(s, "receipt",
       IF row = NoRow THEN "not_found"
       ELSE IF request[s].op # "update" /\ row.status = "exhausted" THEN "exhausted"
       ELSE "changed")
  /\ UNCHANGED <<tables, lock, request>>

\* The transaction of a command that changed nothing.
InsertCommandReceipt(s) ==
  /\ pc[s] = "receipt"
  /\ Stored(s, result[s])
  /\ UNCHANGED <<clock, schedule, nextId, effects, request>>

\* Cancellation, a lost connection, a duplicate key or a crash rolls back.
Rollback(s) ==
  /\ pc[s] \notin {"idle", "done"}
  /\ Return(s, "failed")
  /\ UNCHANGED <<tables, request>>

\* The caller has its answer; the same request may come again.
End(s) ==
  /\ pc[s] = "done"
  /\ Goto(s, "idle")
  /\ request' = [request EXCEPT ![s] = NoRequest]
  /\ result' = [result EXCEPT ![s] = "none"]
  /\ UNCHANGED <<tables, lock, now, current>>

-----------------------------------------------------------------------------
(* The environment.                                                        *)

\* The planner commits: a once schedule is exhausted, another moves on.
AdvanceSchedule(n) ==
  LET row == schedule[n]
      once == row.rule.kind = "once"
      next == IF once THEN NoTime ELSE R!NextAfter(row.rule, row.nextDueAt, clock)
  IN
  /\ row # NoRow /\ row.status = "active" /\ row.nextDueAt <= clock
  /\ next # R!NoNext
  /\ schedule' = [schedule EXCEPT ![n] =
       [id |-> row.id, version |-> row.version + 1, status |-> IF once THEN "exhausted" ELSE "active",
        rule |-> row.rule, nextDueAt |-> next]]
  /\ UNCHANGED <<clock, nextId, receipt, effects, lock, session>>

Tick ==
  /\ clock < MaxClock
  /\ clock' = clock + 1
  /\ UNCHANGED <<schedule, nextId, receipt, effects, lock, session>>

Next ==
  \/ \E s \in Sessions : \/ \E q \in Submitted : Begin(s, q)
                         \/ LockCommandIdentity(s) \/ FindCommandReceipt(s) \/ Apply(s) \/ Write(s)
                         \/ Reread(s) \/ InsertCommandReceipt(s) \/ Rollback(s) \/ End(s)
  \/ \E n \in Names : AdvanceSchedule(n)
  \/ Tick

Spec == Init /\ [][Next]_vars

-----------------------------------------------------------------------------
(* Correctness.                                                            *)

\* A command identity changes a schedule at most once, and it has changed one
\* exactly when its receipt says so: the effect and the receipt of Execute
\* commit together however often the request is retried or lost.
OneEffectPerReceipt ==
  \A i \in Identities : effects[i] = (IF receipt[i].result \in Applied THEN 1 ELSE 0)

\* Under the advisory lock no transaction that found no receipt is overtaken by
\* a duplicate of its request, so the receipt's primary key never rejects it.
NoDuplicateInFlight ==
  \A s \in Sessions : pc[s] \in {"apply", "write", "reread", "receipt"} => receipt[Own(s)] = NoReceipt

\* A once obligation that was materialised is not armed again: a command turns
\* an exhausted row into one that can fire only by giving it another rule, even
\* when the planner exhausted it after the command read it.
ExhaustedStaysExhausted ==
  [][\A n \in Names :
       schedule[n] # NoRow /\ schedule[n].status = "exhausted" /\ schedule'[n].id = schedule[n].id =>
         schedule'[n].status = "exhausted" \/ schedule'[n].rule # schedule[n].rule]_vars

-----------------------------------------------------------------------------
(* Refinement.                                                             *)

\* The operation applies to a row, and the row it makes of it.
Admits(q, row) ==
  CASE q.op = "create" -> row = NoRow
    [] q.op \in {"update", "delete"} -> row # NoRow
    [] q.op \in {"pause", "resume"} -> row # NoRow /\ row.status # "exhausted"

Effect(q, row, t, id) ==
  IF q.op = "delete" THEN NoRow
  ELSE [id |-> IF q.op = "create" THEN id ELSE row.id,
        version |-> IF q.op = "create" THEN 1 ELSE row.version + 1,
        status |-> Status(q, row),
        rule |-> IF q.op \in {"create", "update"} THEN q.body.rule ELSE row.rule,
        nextDueAt |-> NextDueAt(q, row, t)]

Callers == [s \in Sessions |-> [req |-> request[s], answer |-> IF pc[s] = "done" THEN result[s] ELSE "none"]]

Promised == INSTANCE Receipts WITH
  Times <- 0..MaxClock, rows <- schedule, receipts <- receipt, callers <- Callers

\* Execute implements the promise of Receipts: although the row is read in one
\* statement and written in another, with planner commits and other commands between
\* them, the command that is applied acts on the row as it is at the write; it and its
\* receipt are one step, duplicates are answered from the receipt, and a caller is
\* told of success only when the receipt says so.
CommandsAreAtomic == Promised!Promise
=============================================================================
