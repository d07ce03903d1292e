--------------------------- MODULE CommandProofs ----------------------------
(***************************************************************************)
(* Proofs about CommandService for any number of sessions, names, keys,    *)
(* definitions and instants: the receipt and the effect agree, duplicates  *)
(* never overtake a transaction in flight, and the service implements the  *)
(* promise of Receipts.                                                    *)
(***************************************************************************)
EXTENDS CommandService, NumberLemmas, TLAPS

InFlight == {"find", "apply", "write", "reread", "receipt"}

\* A row has the columns of the table; its contents are any values.
IsRow(row) ==
  /\ row = [id |-> row.id, version |-> row.version, status |-> row.status,
            rule |-> row.rule, nextDueAt |-> row.nextDueAt]
  /\ row.id \in Ids /\ row.version \in Nat

\* The state functions have their domains.
Shape ==
  /\ clock \in 0..MaxClock /\ nextId \in Nat
  /\ schedule = [n \in Names |-> schedule[n]]
  /\ receipt \in [Identities -> [body : Definitions \cup {None}, result : Applied \cup Refused \cup {"none"}]]
  /\ lock \in [Identities -> Sessions \cup {None}]
  /\ effects \in [Identities -> Nat]
  /\ pc \in [Sessions -> {"idle", "lock", "find", "apply", "write", "reread", "receipt", "done"}]
  /\ request \in [Sessions -> Submitted \cup {NoRequest}]
  /\ now \in [Sessions -> 0..MaxClock \cup {NoTime}]
  /\ current = [s \in Sessions |-> current[s]]
  /\ result \in [Sessions -> Applied \cup Refused \cup Errors \cup {"none"}]

\* Where a session is says what it holds.
Stage(s) ==
  /\ pc[s] # "idle" => request[s] \in Submitted
  /\ pc[s] = "idle" => request[s] = NoRequest
  /\ pc[s] \in InFlight => lock[Own(s)] = s
  /\ pc[s] = "write" => now[s] \in 0..MaxClock /\ (Reads(s) <=> current[s] # NoRow)
  /\ pc[s] \notin {"write", "reread"} => current[s] = NoRow
  /\ pc[s] = "receipt" => result[s] \in Refused
  /\ pc[s] = "done" => result[s] # "none"
  /\ pc[s] \in {"apply", "write", "reread", "receipt"} => receipt[Own(s)] = NoReceipt

Stages == \A s \in Sessions : Stage(s)

\* A receipt is there when it has a result.
ReceiptsWhole == \A i \in Identities : receipt[i].result = "none" => receipt[i] = NoReceipt

\* Rows that were handed out before are older than the next identity, and two rows of
\* one identity and version are the same row: this makes the version check of the
\* conditional write a check that the row has not changed since it was read.
SameVersionSameRow ==
  /\ \A n \in Names : schedule[n] # NoRow => IsRow(schedule[n]) /\ schedule[n].id < nextId
  /\ \A s \in Sessions : current[s] # NoRow =>
       /\ IsRow(current[s]) /\ current[s].id < nextId
       /\ LET row == schedule[request[s].name] IN
          row # NoRow /\ row.id = current[s].id =>
            /\ current[s].version <= row.version
            /\ current[s].version = row.version => current[s] = row

CommandInv == Shape /\ Stages /\ ReceiptsWhole /\ SameVersionSameRow /\ OneEffectPerReceipt

-----------------------------------------------------------------------------
(* Requests.                                                               *)

\* A submitted request names an operation, a schedule and a key, and so an identity.
LEMMA SubmittedHasIdentity ==
  ASSUME NEW q \in Submitted
  PROVE  /\ q.op \in Operations /\ q.name \in Names /\ q.key \in Keys
         /\ q.body \in Definitions \cup {None}
         /\ Identity(q) \in Identities
         /\ q # NoRequest
BY CommandAssumption DEF Requests, Operations, Identity, Identities, NoRequest


\* The identity of a session that executes a request.
LEMMA OwnIdentity ==
  ASSUME CommandInv, NEW s \in Sessions, pc[s] # "idle"
  PROVE  request[s] \in Submitted /\ Own(s) \in Identities
BY SubmittedHasIdentity, Zenon DEF CommandInv, Stages, Stage, Own

-----------------------------------------------------------------------------
(* Shape.                                                                  *)

\* The session's variables after Leave and Return.
LEMMA LeaveShape ==
  ASSUME Shape, NEW s \in Sessions, NEW label \in {"receipt", "done"},
         NEW code \in Applied \cup Refused \cup Errors, Leave(s, label, code)
  PROVE  /\ pc' \in [Sessions -> {"idle", "lock", "find", "apply", "write", "reread", "receipt", "done"}]
         /\ now' \in [Sessions -> 0..MaxClock \cup {NoTime}]
         /\ current' = [x \in Sessions |-> current'[x]]
         /\ result' \in [Sessions -> Applied \cup Refused \cup Errors \cup {"none"}]
BY Zenon DEF Shape, Leave, Goto

\* A session that answers its caller keeps the types.
LEMMA ReturnShape ==
  ASSUME Shape, NEW s \in Sessions, NEW code \in Applied \cup Refused \cup Errors, Return(s, code)
  PROVE  /\ pc' \in [Sessions -> {"idle", "lock", "find", "apply", "write", "reread", "receipt", "done"}]
         /\ now' \in [Sessions -> 0..MaxClock \cup {NoTime}]
         /\ current' = [x \in Sessions |-> current'[x]]
         /\ result' \in [Sessions -> Applied \cup Refused \cup Errors \cup {"none"}]
         /\ lock' \in [Identities -> Sessions \cup {None}]
<1>1. Leave(s, "done", code)
  BY Zenon DEF Return
<1>2. lock' \in [Identities -> Sessions \cup {None}]
  BY Zenon DEF Return, Shape
<1> QED
  BY <1>1, <1>2, LeaveShape, Zenon

\* The receipts and the session after the receipt is inserted.
LEMMA StoredShape ==
  ASSUME CommandInv, NEW s \in Sessions, pc[s] # "idle", NEW code \in Applied \cup Refused, Stored(s, code)
  PROVE  /\ pc' \in [Sessions -> {"idle", "lock", "find", "apply", "write", "reread", "receipt", "done"}]
         /\ now' \in [Sessions -> 0..MaxClock \cup {NoTime}]
         /\ current' = [x \in Sessions |-> current'[x]]
         /\ result' \in [Sessions -> Applied \cup Refused \cup Errors \cup {"none"}]
         /\ lock' \in [Identities -> Sessions \cup {None}]
         /\ receipt' \in [Identities -> [body : Definitions \cup {None}, result : Applied \cup Refused \cup {"none"}]]
<1>1. Return(s, code) \/ Return(s, "failed")
  BY Zenon DEF Stored, Answer
<1>2. Shape /\ "failed" \in Errors
  BY Zenon DEF CommandInv, Errors
<1>3. receipt' \in [Identities -> [body : Definitions \cup {None}, result : Applied \cup Refused \cup {"none"}]]
  BY OwnIdentity, SubmittedHasIdentity, Zenon DEF Stored, Shape, CommandInv
<1> QED
  BY <1>1, <1>2, <1>3, ReturnShape, Zenon

\* FindCommandReceipt keeps the types.
LEMMA FindShape ==
  ASSUME CommandInv, NEW s \in Sessions, FindCommandReceipt(s)
  PROVE  Shape'
<1>1. Shape /\ pc[s] # "idle"
  BY Zenon DEF FindCommandReceipt, CommandInv
<1>2. Own(s) \in Identities
  BY <1>1, OwnIdentity, Zenon
<1>3. UNCHANGED <<clock, schedule, nextId, receipt, effects, request>>
  BY Zenon DEF FindCommandReceipt, tables
<1>4. CASE receipt[Own(s)] = NoReceipt
  BY <1>1, <1>3, <1>4, Zenon DEF FindCommandReceipt, Shape, Goto
<1>5. CASE receipt[Own(s)] # NoReceipt
  <2>1. receipt[Own(s)].result \in Applied \cup Refused
    BY <1>1, <1>2, <1>5, Zenon DEF Shape, CommandInv, ReceiptsWhole
  <2>2. \E code \in Applied \cup Refused \cup Errors : Return(s, code)
    BY <2>1, <1>5, Zenon DEF FindCommandReceipt, Errors
  <2> QED
    BY <1>1, <1>3, <2>2, ReturnShape, Zenon DEF Shape
<1> QED
  BY <1>4, <1>5, Zenon

\* The reads of apply keep the types.
LEMMA ApplyShape ==
  ASSUME CommandInv, NEW s \in Sessions, Apply(s)
  PROVE  Shape'
<1>1. Shape /\ UNCHANGED <<clock, schedule, nextId, receipt, effects, request>>
  BY Zenon DEF Apply, tables, CommandInv
<1>2. CASE Goto(s, "write")
  BY <1>1, <1>2 DEF Apply, Shape, Goto, Leave, Return
<1>3. CASE \E code \in {"failed", "invalid_command"} : Return(s, code)
  BY <1>1, <1>3, ReturnShape, Zenon DEF Shape, Errors
<1>4. CASE Leave(s, "receipt", ReadResult(s)) /\ UNCHANGED lock /\ ReadResult(s) # "none"
  <2>1. ReadResult(s) \in Refused
    BY <1>4, Zenon DEF ReadResult, Refused
  <2> QED
    BY <1>1, <1>4, <2>1, LeaveShape, Zenon DEF Shape
<1> QED
  BY <1>2, <1>3, <1>4, Zenon DEF Apply

\* The conditional write keeps the types.
LEMMA WriteShape ==
  ASSUME CommandInv, NEW s \in Sessions, Write(s)
  PROVE  Shape'
<1>1. Shape /\ pc[s] # "idle" /\ UNCHANGED <<clock, request>>
  BY Zenon DEF Write, CommandInv
<1>2. request[s].op \in Operations /\ request[s].name \in Names /\ Own(s) \in Identities
  BY <1>1, OwnIdentity, SubmittedHasIdentity, Zenon
<1>3. CASE MayWrite(s)
  <2>1. Stored(s, Code(request[s].op))
    BY <1>3, Zenon DEF Write
  <2>2. Code(request[s].op) \in Applied
    BY <1>2, Zenon DEF Code, Applied, Operations
  <2>3. schedule' = [n \in Names |-> schedule'[n]] /\ effects' \in [Identities -> Nat] /\ nextId' \in Nat
    BY <1>1, <1>2, <1>3, CommandAssumption DEF Write, Shape
  <2> QED
    BY <1>1, <2>1, <2>2, <2>3, StoredShape, Zenon DEF Shape
<1>4. CASE ~MayWrite(s) /\ request[s].op \in {"create", "delete"}
  <2>1. \E code \in Refused : Leave(s, "receipt", code)
    BY <1>4, Zenon DEF Write, Refused
  <2> QED
    BY <1>1, <1>4, <2>1, LeaveShape, Zenon DEF Shape, Write
<1>5. CASE ~MayWrite(s) /\ request[s].op \in {"update", "pause", "resume"}
  BY <1>1, <1>5, Zenon DEF Shape, Write, Goto
<1> QED
  BY <1>2, <1>3, <1>4, <1>5, Zenon DEF Operations

\* The read after a write that met no row keeps the types.
LEMMA RereadShape ==
  ASSUME CommandInv, NEW s \in Sessions, Reread(s)
  PROVE  Shape'
<1>1. Shape /\ UNCHANGED <<clock, schedule, nextId, receipt, effects, lock, request>>
  BY Zenon DEF Reread, tables, CommandInv
<1>2. \E code \in Refused : Leave(s, "receipt", code)
  BY Zenon DEF Reread, Refused
<1> QED
  BY <1>1, <1>2, LeaveShape, Zenon DEF Shape

\* InsertCommandReceipt keeps the types.
LEMMA InsertShape ==
  ASSUME CommandInv, NEW s \in Sessions, InsertCommandReceipt(s)
  PROVE  Shape'
<1>1. Shape /\ pc[s] # "idle" /\ UNCHANGED <<clock, schedule, nextId, effects, request>>
  BY Zenon DEF InsertCommandReceipt, CommandInv
<1>2. result[s] \in Refused /\ Stored(s, result[s])
  BY Zenon DEF InsertCommandReceipt, CommandInv, Stages, Stage
<1> QED
  BY <1>1, <1>2, StoredShape, Zenon DEF Shape

\* The other steps change one or two variables.
LEMMA OtherShape ==
  ASSUME CommandInv,
         \/ \E s \in Sessions : \/ \E q \in Submitted : Begin(s, q)
                                \/ LockCommandIdentity(s) \/ Rollback(s) \/ End(s)
         \/ \E n \in Names : AdvanceSchedule(n)
         \/ Tick
  PROVE  Shape'
<1> USE DEF CommandInv, Shape, Goto, tables
<1>1. CASE \E s \in Sessions : \E q \in Submitted : Begin(s, q)
  BY <1>1 DEF Begin
<1>2. CASE \E s \in Sessions : LockCommandIdentity(s)
  BY <1>2, OwnIdentity DEF LockCommandIdentity
<1>3. CASE \E s \in Sessions : Rollback(s)
  BY <1>3, ReturnShape, Zenon DEF Rollback, Errors
<1>4. CASE \E s \in Sessions : End(s)
  BY <1>4, Zenon DEF End
<1>5. CASE \E n \in Names : AdvanceSchedule(n)
  <2>1. PICK n \in Names : AdvanceSchedule(n)
    BY <1>5, Zenon
  <2>2. /\ \E row : schedule' = [schedule EXCEPT ![n] = row]
        /\ UNCHANGED <<clock, nextId, receipt, effects, lock, session>>
    BY <2>1, Zenon DEF AdvanceSchedule
  <2>3. schedule' = [m \in Names |-> schedule'[m]]
    BY <2>2, Zenon
  <2> QED
    BY <2>2, <2>3, Zenon DEF session
<1>6. CASE Tick
  BY <1>6, CommandAssumption DEF Tick, session
<1> QED
  BY <1>1, <1>2, <1>3, <1>4, <1>5, <1>6, Zenon

-----------------------------------------------------------------------------
(* Stages.                                                                 *)

\* A session keeps its stage when its own variables, its lock and its receipt stay.
LEMMA StageKept ==
  ASSUME NEW x \in Sessions, Stage(x),
         pc'[x] = pc[x], request'[x] = request[x], now'[x] = now[x],
         current'[x] = current[x], result'[x] = result[x],
         pc[x] \in InFlight => lock'[Own(x)] = x /\ receipt'[Own(x)] = receipt[Own(x)]
  PROVE  Stage(x)'
BY Zenon DEF Stage, Own, Reads, InFlight

\* Two sessions in flight hold different identities: the advisory lock.
LEMMA IdentitiesApart ==
  ASSUME CommandInv, NEW s \in Sessions, NEW x \in Sessions, x # s,
         pc[s] \in InFlight, pc[x] \in InFlight
  PROVE  Own(x) # Own(s)
BY Zenon DEF CommandInv, Stages, Stage

\* A step of one session leaves the stages of the others.
LEMMA OthersStage ==
  ASSUME CommandInv, NEW s \in Sessions, NEW x \in Sessions, x # s,
         pc'[x] = pc[x], request'[x] = request[x], now'[x] = now[x],
         current'[x] = current[x], result'[x] = result[x],
         \/ UNCHANGED lock
         \/ lock' = [i \in Identities |-> IF lock[i] = s THEN None ELSE lock[i]]
         \/ LockFree(Own(s)) /\ lock' = [lock EXCEPT ![Own(s)] = s],
         \/ UNCHANGED receipt
         \/ pc[s] \in InFlight /\ \E v : receipt' = [receipt EXCEPT ![Own(s)] = v]
  PROVE  Stage(x)'
<1>1. Stage(x)
  BY Zenon DEF CommandInv, Stages
<1>2. ASSUME pc[x] \in InFlight
      PROVE  lock'[Own(x)] = x /\ receipt'[Own(x)] = receipt[Own(x)]
  <2>1. Own(x) \in Identities /\ lock[Own(x)] = x
    BY <1>1, <1>2, OwnIdentity, Zenon DEF Stage, InFlight
  <2>2. lock'[Own(x)] = x
    BY <2>1, CommandAssumption DEF LockFree, CommandInv, Shape
  <2>3. receipt'[Own(x)] = receipt[Own(x)]
    BY <1>2, <2>1, IdentitiesApart, Zenon DEF CommandInv, Shape
  <2> QED
    BY <2>2, <2>3, Zenon
<1> QED
  BY <1>1, <1>2, StageKept, Zenon

\* A new request starts at the first stage.
LEMMA BeginStages ==
  ASSUME CommandInv, NEW s \in Sessions, NEW q \in Submitted, Begin(s, q)
  PROVE  Stages'
<1>1. Stage(s)'
  BY Zenon DEF CommandInv, Shape, Stages, Stage, Begin, Goto, InFlight
<1>2. ASSUME NEW x \in Sessions, x # s PROVE Stage(x)'
  BY <1>2, OthersStage, Zenon DEF CommandInv, Shape, Begin, Goto, tables
<1> QED
  BY <1>1, <1>2, Zenon DEF Stages

\* The advisory lock is taken only while it is free.
LEMMA LockStages ==
  ASSUME CommandInv, NEW s \in Sessions, LockCommandIdentity(s)
  PROVE  Stages'
<1>1. Own(s) \in Identities
  BY OwnIdentity, Zenon DEF LockCommandIdentity
<1>2. Stage(s)'
  BY <1>1, Zenon DEF CommandInv, Shape, Stages, Stage, LockCommandIdentity, Goto, InFlight, Own
<1>3. ASSUME NEW x \in Sessions, x # s PROVE Stage(x)'
  BY <1>3, OthersStage, Zenon DEF CommandInv, Shape, LockCommandIdentity, Goto, tables
<1> QED
  BY <1>2, <1>3, Zenon DEF Stages

\* A session that is done holds nothing.
LEMMA ReturnStage ==
  ASSUME CommandInv, NEW s \in Sessions, pc[s] # "idle", NEW code \in Applied \cup Refused \cup Errors,
         Return(s, code), UNCHANGED request
  PROVE  Stage(s)'
BY Zenon DEF CommandInv, Shape, Stages, Stage, Return, Leave, Goto, InFlight, Applied, Refused, Errors

\* A session passes the receipt lookup only when there is no receipt.
LEMMA FindStages ==
  ASSUME CommandInv, NEW s \in Sessions, FindCommandReceipt(s)
  PROVE  Stages'
<1>1. pc[s] = "find" /\ UNCHANGED <<receipt, request>>
  BY Zenon DEF FindCommandReceipt, tables
<1>2. Own(s) \in Identities
  BY <1>1, OwnIdentity, Zenon
<1>3. Stage(s)'
  <2>1. CASE receipt[Own(s)] = NoReceipt
    BY <1>1, <2>1, Zenon DEF FindCommandReceipt, CommandInv, Shape, Stages, Stage, Goto, InFlight, Own
  <2>2. CASE receipt[Own(s)] # NoReceipt
    <3>1. receipt[Own(s)].result \in Applied \cup Refused
      BY <1>2, <2>2, Zenon DEF Shape, CommandInv, ReceiptsWhole
    <3>2. \E code \in Applied \cup Refused \cup Errors : Return(s, code)
      BY <3>1, <2>2, Zenon DEF FindCommandReceipt, Errors
    <3> QED
      BY <1>1, <3>2, ReturnStage, Zenon
  <2> QED
    BY <2>1, <2>2, Zenon
<1>4. ASSUME NEW x \in Sessions, x # s PROVE Stage(x)'
  BY <1>1, <1>4, OthersStage, Zenon DEF CommandInv, Shape, FindCommandReceipt, Return, Leave, Goto
<1> QED
  BY <1>3, <1>4, Zenon DEF Stages

\* apply goes on to the write, or to a receipt for what it read.
LEMMA ApplyStages ==
  ASSUME CommandInv, NEW s \in Sessions, Apply(s)
  PROVE  Stages'
<1>1. pc[s] = "apply" /\ UNCHANGED <<receipt, request>> /\ Stage(s)
  BY Zenon DEF Apply, tables, CommandInv, Stages
<1>2. Stage(s)'
  <2>1. CASE ReadResult(s) # "none"
    <3>1. ReadResult(s) \in Refused
      BY <2>1, Zenon DEF ReadResult, Refused
    <3>2. Leave(s, "receipt", ReadResult(s)) /\ UNCHANGED lock
      BY <2>1, Zenon DEF Apply
    <3> QED
      BY <1>1, <3>1, <3>2, Zenon DEF CommandInv, Shape, Stage, Leave, Goto, InFlight, Own
  <2>2. CASE ReadResult(s) = "none" /\ ~Goto(s, "write")
    <3>1. \E code \in {"failed", "invalid_command"} : Return(s, code)
      BY <2>2, Zenon DEF Apply
    <3> QED
      BY <1>1, <3>1, ReturnStage, Zenon DEF Errors
  <2>3. CASE ReadResult(s) = "none" /\ Goto(s, "write")
    <3>1. /\ now' = [now EXCEPT ![s] = clock] /\ UNCHANGED lock
          /\ current' = [current EXCEPT ![s] = IF Reads(s) THEN schedule[request[s].name] ELSE NoRow]
      BY <1>1, <2>3, Zenon DEF Apply, Return, Leave, Goto, CommandInv, Shape
    <3>2. Reads(s) => schedule[request[s].name] # NoRow
      BY <2>3, Zenon DEF ReadResult
    <3>3. Reads(s)' <=> Reads(s)
      BY <1>1, Zenon DEF Reads
    <3> QED
      BY <1>1, <2>3, <3>1, <3>2, <3>3, Zenon DEF CommandInv, Shape, Stage, Goto, InFlight, Own
  <2> QED
    BY <2>1, <2>2, <2>3, Zenon
<1>3. ASSUME NEW x \in Sessions, x # s PROVE Stage(x)'
  BY <1>1, <1>3, OthersStage, Zenon DEF CommandInv, Shape, Apply, Return, Leave, Goto
<1> QED
  BY <1>2, <1>3, Zenon DEF Stages

\* The write ends in an answer, in a refusal, or in the read that explains it.
LEMMA WriteStages ==
  ASSUME CommandInv, NEW s \in Sessions, Write(s)
  PROVE  Stages'
<1>1. pc[s] = "write" /\ UNCHANGED request /\ Stage(s)
  BY Zenon DEF Write, CommandInv, Stages
<1>2. request[s].op \in Operations /\ Own(s) \in Identities
  BY <1>1, OwnIdentity, SubmittedHasIdentity, Zenon
<1>3. Stage(s)'
  <2>1. CASE MayWrite(s)
    <3>1. Code(request[s].op) \in Applied
      BY <1>2, Zenon DEF Code, Applied, Operations
    <3>2. \E code \in Applied \cup Refused \cup Errors : Return(s, code)
      BY <2>1, <3>1, Zenon DEF Write, Stored, Answer, Errors
    <3> QED
      BY <1>1, <3>2, ReturnStage, Zenon
  <2>2. CASE ~MayWrite(s) /\ request[s].op \in {"create", "delete"}
    <3>1. (\E code \in Refused : Leave(s, "receipt", code)) /\ UNCHANGED <<lock, receipt>>
      BY <2>2, Zenon DEF Write, Refused
    <3> QED
      BY <1>1, <3>1, Zenon DEF CommandInv, Shape, Stage, Leave, Goto, InFlight, Own
  <2>3. CASE ~MayWrite(s) /\ request[s].op \in {"update", "pause", "resume"}
    BY <1>1, <2>3, Zenon DEF Write, CommandInv, Shape, Stage, Goto, InFlight, Own
  <2> QED
    BY <1>2, <2>1, <2>2, <2>3, Zenon DEF Operations
<1>4. ASSUME NEW x \in Sessions, x # s PROVE Stage(x)'
  <2>1. /\ pc'[x] = pc[x] /\ request'[x] = request[x] /\ now'[x] = now[x]
        /\ current'[x] = current[x] /\ result'[x] = result[x]
    BY <1>4, Zenon DEF Write, Stored, Answer, Return, Leave, Goto, CommandInv, Shape
  <2>2. UNCHANGED lock \/ lock' = [i \in Identities |-> IF lock[i] = s THEN None ELSE lock[i]]
    BY Zenon DEF Write, Stored, Answer, Return
  <2>3. UNCHANGED receipt \/ \E v : receipt' = [receipt EXCEPT ![Own(s)] = v]
    BY Zenon DEF Write, Stored
  <2> QED
    BY <1>1, <1>4, <2>1, <2>2, <2>3, OthersStage, Zenon DEF InFlight
<1> QED
  BY <1>3, <1>4, Zenon DEF Stages

\* The second read ends in a refusal.
LEMMA RereadStages ==
  ASSUME CommandInv, NEW s \in Sessions, Reread(s)
  PROVE  Stages'
<1>1. pc[s] = "reread" /\ UNCHANGED <<receipt, request, lock>> /\ Stage(s)
  BY Zenon DEF Reread, tables, CommandInv, Stages
<1>2. \E code \in Refused : Leave(s, "receipt", code)
  BY Zenon DEF Reread, Refused
<1>3. Stage(s)'
  BY <1>1, <1>2, Zenon DEF CommandInv, Shape, Stage, Leave, Goto, InFlight, Own
<1>4. ASSUME NEW x \in Sessions, x # s PROVE Stage(x)'
  BY <1>1, <1>2, <1>4, OthersStage, Zenon DEF CommandInv, Shape, Leave, Goto
<1> QED
  BY <1>3, <1>4, Zenon DEF Stages

\* A stored refusal ends the session.
LEMMA InsertStages ==
  ASSUME CommandInv, NEW s \in Sessions, InsertCommandReceipt(s)
  PROVE  Stages'
<1>1. pc[s] = "receipt" /\ UNCHANGED request /\ Stage(s) /\ Stored(s, result[s])
  BY Zenon DEF InsertCommandReceipt, CommandInv, Stages
<1>2. \E code \in Applied \cup Refused \cup Errors : Return(s, code)
  BY <1>1, Zenon DEF Stored, Answer, Stage, Errors
<1>3. Stage(s)'
  BY <1>1, <1>2, ReturnStage, Zenon
<1>4. ASSUME NEW x \in Sessions, x # s PROVE Stage(x)'
  BY <1>1, <1>2, <1>4, OthersStage, Zenon DEF CommandInv, Shape, Stored, Return, Leave, Goto, InFlight
<1> QED
  BY <1>3, <1>4, Zenon DEF Stages

\* The other steps.
LEMMA OtherStages ==
  ASSUME CommandInv,
         \/ \E s \in Sessions : Rollback(s) \/ End(s)
         \/ \E n \in Names : AdvanceSchedule(n)
         \/ Tick
  PROVE  Stages'
<1>1. ASSUME NEW s \in Sessions, Rollback(s) PROVE Stages'
  <2>1. Stage(s)'
    BY <1>1, ReturnStage, Zenon DEF Rollback, Errors
  <2>2. ASSUME NEW x \in Sessions, x # s PROVE Stage(x)'
    BY <1>1, <2>2, OthersStage, Zenon DEF CommandInv, Shape, Rollback, Return, Leave, Goto, tables
  <2> QED
    BY <2>1, <2>2, Zenon DEF Stages
<1>2. ASSUME NEW s \in Sessions, End(s) PROVE Stages'
  <2>1. Stage(s)'
    BY <1>2, Zenon DEF CommandInv, Shape, Stages, Stage, End, Goto, InFlight
  <2>2. ASSUME NEW x \in Sessions, x # s PROVE Stage(x)'
    BY <1>2, <2>2, OthersStage, Zenon DEF CommandInv, Shape, End, Goto, tables
  <2> QED
    BY <2>1, <2>2, Zenon DEF Stages
<1>3. CASE (\E n \in Names : AdvanceSchedule(n)) \/ Tick
  BY <1>3 DEF AdvanceSchedule, Tick, session, CommandInv, Stages, Stage, Own, Reads
<1> QED
  BY <1>1, <1>2, <1>3, Zenon

-----------------------------------------------------------------------------
(* Receipts and effects.                                                   *)

\* Inserting a receipt for a request keeps receipts whole.
LEMMA StoredWhole ==
  ASSUME CommandInv, NEW s \in Sessions, pc[s] # "idle", NEW code \in Applied \cup Refused, Stored(s, code)
  PROVE  ReceiptsWhole' /\ receipt'[Own(s)].result = code
                        /\ \A i \in Identities \ {Own(s)} : receipt'[i] = receipt[i]
BY OwnIdentity, Zenon DEF CommandInv, Shape, ReceiptsWhole, Stored, Applied, Refused

\* A write has one effect and one receipt, in one commit.
LEMMA WriteEffects ==
  ASSUME CommandInv, NEW s \in Sessions, Write(s)
  PROVE  ReceiptsWhole' /\ OneEffectPerReceipt'
<1>1. pc[s] # "idle" /\ request[s].op \in Operations /\ Own(s) \in Identities
  BY OwnIdentity, SubmittedHasIdentity, Zenon DEF Write
<1>2. CASE MayWrite(s)
  <2>1. Code(request[s].op) \in Applied
    BY <1>1, Zenon DEF Code, Applied, Operations
  <2>2. Stored(s, Code(request[s].op)) /\ receipt[Own(s)] = NoReceipt
    BY <1>2, Zenon DEF Write, Stored
  <2>3. effects[Own(s)] = 0 /\ effects' = [effects EXCEPT ![Own(s)] = @ + 1]
    BY <1>1, <1>2, <2>2 DEF Write, CommandInv, OneEffectPerReceipt, NoReceipt, Applied
  <2>4. /\ ReceiptsWhole' /\ receipt'[Own(s)].result \in Applied
        /\ \A i \in Identities \ {Own(s)} : receipt'[i] = receipt[i]
    BY <1>1, <2>1, <2>2, StoredWhole, Zenon
  <2> QED
    BY <1>1, <2>3, <2>4 DEF CommandInv, Shape, OneEffectPerReceipt
<1>3. CASE ~MayWrite(s)
  BY <1>3, Zenon DEF Write, CommandInv, ReceiptsWhole, OneEffectPerReceipt
<1> QED
  BY <1>2, <1>3, Zenon

\* The receipt of a refusal comes without an effect.
LEMMA InsertEffects ==
  ASSUME CommandInv, NEW s \in Sessions, InsertCommandReceipt(s)
  PROVE  ReceiptsWhole' /\ OneEffectPerReceipt'
<1>1. pc[s] # "idle" /\ result[s] \in Refused /\ Stored(s, result[s]) /\ UNCHANGED effects
  BY Zenon DEF InsertCommandReceipt, CommandInv, Stages, Stage
<1>2. receipt[Own(s)] = NoReceipt /\ Own(s) \in Identities
  BY <1>1, OwnIdentity, Zenon DEF Stored
<1>3. /\ ReceiptsWhole' /\ receipt'[Own(s)].result \in Refused
      /\ \A i \in Identities \ {Own(s)} : receipt'[i] = receipt[i]
  BY <1>1, StoredWhole, Zenon
<1>4. effects[Own(s)] = 0
  BY <1>2 DEF CommandInv, OneEffectPerReceipt, NoReceipt, Applied
<1> QED
  BY <1>1, <1>2, <1>3, <1>4, Zenon DEF CommandInv, OneEffectPerReceipt, Applied, Refused

-----------------------------------------------------------------------------
(* Versions.                                                               *)

\* The rows and the reads stay as they are.
LEMMA VersionsKept ==
  ASSUME CommandInv, UNCHANGED <<schedule, nextId>>,
         \A x \in Sessions : \/ current'[x] = NoRow
                             \/ current'[x] = current[x] /\ request'[x] = request[x]
  PROVE  SameVersionSameRow'
BY Zenon DEF CommandInv, SameVersionSameRow, IsRow

\* What apply reads is the row of its version.
LEMMA ApplyVersions ==
  ASSUME CommandInv, NEW s \in Sessions, Apply(s)
  PROVE  SameVersionSameRow'
<1>1. /\ UNCHANGED <<schedule, nextId, request>>
      /\ \A x \in Sessions \ {s} : current'[x] = current[x]
      /\ current'[s] = NoRow \/ current'[s] = schedule[request[s].name]
  BY Zenon DEF Apply, tables, Return, Leave, CommandInv, Shape
<1>2. request[s].name \in Names
  BY OwnIdentity, SubmittedHasIdentity, Zenon DEF Apply
<1>3. ASSUME NEW x \in Sessions, current'[x] # NoRow
      PROVE  /\ IsRow(current'[x]) /\ current'[x].id < nextId
             /\ LET row == schedule[request[x].name] IN
                row # NoRow /\ row.id = current'[x].id =>
                  /\ current'[x].version <= row.version
                  /\ current'[x].version = row.version => current'[x] = row
  <2>1. CASE x = s
    BY <1>1, <1>2, <1>3, <2>1 DEF CommandInv, SameVersionSameRow, IsRow
  <2>2. CASE x # s
    BY <1>1, <1>3, <2>2, Zenon DEF CommandInv, SameVersionSameRow
  <2> QED
    BY <2>1, <2>2, Zenon
<1> QED
  BY <1>1, <1>3, Zenon DEF CommandInv, SameVersionSameRow, IsRow

\* A row that a step leaves is absent, new, or one version older than before.
LEMMA VersionsMove ==
  ASSUME CommandInv, NEW n \in Names, NEW row, schedule' = [schedule EXCEPT ![n] = row],
         nextId' \in Nat, nextId <= nextId',
         row # NoRow => IsRow(row) /\ row.id < nextId',
         row # NoRow => \/ row.id >= nextId
                        \/ schedule[n] # NoRow /\ row.id = schedule[n].id
                           /\ row.version = schedule[n].version + 1,
         \A x \in Sessions : current'[x] = NoRow \/ current'[x] = current[x],
         UNCHANGED request
  PROVE  SameVersionSameRow'
<1>1. schedule'[n] = row /\ \A m \in Names \ {n} : schedule'[m] = schedule[m]
  BY Zenon DEF CommandInv, Shape
<1>2. \A m \in Names : schedule'[m] # NoRow => IsRow(schedule'[m]) /\ schedule'[m].id < nextId'
  BY <1>1, CommandAssumption DEF CommandInv, SameVersionSameRow, IsRow, Shape
<1>3. ASSUME NEW x \in Sessions, current'[x] # NoRow
      PROVE  /\ IsRow(current'[x]) /\ current'[x].id < nextId'
             /\ LET r == schedule'[request'[x].name] IN
                r # NoRow /\ r.id = current'[x].id =>
                  /\ current'[x].version <= r.version
                  /\ current'[x].version = r.version => current'[x] = r
  <2>1. current'[x] = current[x] /\ current[x] # NoRow /\ request'[x] = request[x]
    BY <1>3, Zenon
  <2>2. IsRow(current[x]) /\ current[x].id < nextId /\ nextId \in Nat
    BY <2>1, Zenon DEF CommandInv, SameVersionSameRow, Shape
  <2>3. current[x].id \in Nat /\ current[x].version \in Nat
    BY <2>2, CommandAssumption, Zenon DEF IsRow
  <2>4. request[x].name \in Names
    BY <2>1, OwnIdentity, SubmittedHasIdentity, Zenon DEF CommandInv, Stages, Stage
  <2>5. CASE request[x].name # n
    BY <1>1, <2>1, <2>2, <2>3, <2>4, <2>5 DEF CommandInv, SameVersionSameRow
  <2>6. CASE request[x].name = n
    <3>1. SUFFICES ASSUME row # NoRow, row.id = current[x].id
                   PROVE  current[x].version < row.version /\ row.version \in Nat
      BY <1>1, <2>1, <2>2, <2>3, <2>6
    <3>2. row.id = schedule[n].id /\ row.version = schedule[n].version + 1 /\ schedule[n] # NoRow
      BY <2>2, <2>3, <3>1
    <3>3. current[x].version <= schedule[n].version /\ schedule[n].version \in Nat
      BY <2>1, <2>6, <3>1, <3>2, Zenon DEF CommandInv, SameVersionSameRow, IsRow
    <3> QED
      BY <2>3, <3>2, <3>3
  <2> QED
    BY <2>5, <2>6, Zenon
<1> QED
  BY <1>2, <1>3, Zenon DEF SameVersionSameRow, IsRow

\* A write moves the version of the row it changes.
LEMMA WriteVersions ==
  ASSUME CommandInv, NEW s \in Sessions, Write(s)
  PROVE  SameVersionSameRow'
<1>1. request[s].op \in Operations /\ request[s].name \in Names
  BY OwnIdentity, SubmittedHasIdentity, Zenon DEF Write
<1>2. \A x \in Sessions : current'[x] = NoRow \/ current'[x] = current[x]
  BY Zenon DEF Write, Stored, Answer, Return, Leave, CommandInv, Shape
<1>3. UNCHANGED request
  BY Zenon DEF Write
<1>4. CASE ~MayWrite(s)
  BY <1>2, <1>3, <1>4, VersionsKept, Zenon DEF Write
<1>5. CASE MayWrite(s)
  <2> DEFINE n == request[s].name
  <2>1. /\ schedule' = [schedule EXCEPT ![n] = Written(s)]
        /\ IF request[s].op = "create" THEN nextId \in Ids /\ nextId' = nextId + 1 ELSE UNCHANGED nextId
    BY <1>5, Zenon DEF Write
  <2>2. nextId \in Nat /\ nextId' \in Nat /\ nextId <= nextId'
    BY <2>1 DEF CommandInv, Shape
  <2>3. CASE request[s].op = "delete"
    <3>1. Written(s) = NoRow
      BY <2>3, Zenon DEF Written
    <3> QED
      BY <1>1, <1>2, <1>3, <2>1, <2>2, <3>1, VersionsMove, Zenon
  <2>4. CASE request[s].op = "create"
    <3>1. Written(s).id = nextId /\ IsRow(Written(s))
      BY <2>1, <2>4, Zenon DEF Written, IsRow
    <3>2. nextId' = nextId + 1
      BY <2>1, <2>4, Zenon
    <3>3. Written(s).id < nextId' /\ Written(s).id >= nextId
      BY <2>2, <3>1, <3>2
    <3> QED
      BY <1>1, <1>2, <1>3, <2>1, <2>2, <3>1, <3>3, VersionsMove, Zenon
  <2>5. CASE request[s].op \in {"update", "pause", "resume"}
    <3>1. schedule[n] # NoRow
      BY <1>5, <2>5, Zenon DEF MayWrite
    <3>2. IsRow(schedule[n]) /\ schedule[n].id < nextId
      BY <1>1, <3>1, Zenon DEF CommandInv, SameVersionSameRow
    <3>3. /\ Written(s).id = schedule[n].id /\ Written(s).version = schedule[n].version + 1
          /\ IsRow(Written(s))
      <4>1. /\ Written(s).id = schedule[n].id /\ Written(s).version = schedule[n].version + 1
            /\ Written(s) = [id |-> Written(s).id, version |-> Written(s).version,
                             status |-> Written(s).status, rule |-> Written(s).rule,
                             nextDueAt |-> Written(s).nextDueAt]
        BY <2>5, Zenon DEF Written
      <4>2. schedule[n].id \in Ids /\ schedule[n].version \in Nat
        BY <3>2, Zenon DEF IsRow
      <4> QED
        BY <4>1, <4>2 DEF IsRow
    <3>4. UNCHANGED nextId
      BY <2>1, <2>5, Zenon
    <3> QED
      BY <1>1, <1>2, <1>3, <2>1, <2>2, <3>1, <3>2, <3>3, <3>4, VersionsMove, Zenon
  <2> QED
    BY <1>1, <2>3, <2>4, <2>5, Zenon DEF Operations
<1> QED
  BY <1>4, <1>5, Zenon

\* The planner moves the version as well.
LEMMA AdvanceVersions ==
  ASSUME CommandInv, NEW n \in Names, AdvanceSchedule(n)
  PROVE  SameVersionSameRow'
<1>1. schedule[n] # NoRow /\ UNCHANGED <<nextId, current, request>>
  BY Zenon DEF AdvanceSchedule, session
<1>2. IsRow(schedule[n]) /\ schedule[n].id < nextId
  BY <1>1, Zenon DEF CommandInv, SameVersionSameRow
<1>3. PICK next, status :
        schedule' = [schedule EXCEPT ![n] =
          [id |-> schedule[n].id, version |-> schedule[n].version + 1, status |-> status,
           rule |-> schedule[n].rule, nextDueAt |-> next]]
  BY Zenon DEF AdvanceSchedule
<1> DEFINE row == [id |-> schedule[n].id, version |-> schedule[n].version + 1, status |-> status,
                   rule |-> schedule[n].rule, nextDueAt |-> next]
<1>4. row.id = schedule[n].id /\ row.version = schedule[n].version + 1 /\ IsRow(row)
  <2>1. /\ row.id = schedule[n].id /\ row.version = schedule[n].version + 1
        /\ row = [id |-> row.id, version |-> row.version, status |-> row.status,
                  rule |-> row.rule, nextDueAt |-> row.nextDueAt]
    BY Zenon
  <2>2. schedule[n].id \in Ids /\ schedule[n].version \in Nat
    BY <1>2, Zenon DEF IsRow
  <2> HIDE DEF row
  <2> QED
    BY <2>1, <2>2 DEF IsRow
<1>5. nextId \in Nat /\ row.id < nextId'
  BY <1>1, <1>2, <1>4, Zenon DEF CommandInv, Shape
<1>6. schedule' = [schedule EXCEPT ![n] = row]
  BY <1>3, Zenon
<1>7. nextId' \in Nat /\ nextId <= nextId' /\ UNCHANGED request /\ \A x \in Sessions : current'[x] = current[x]
  BY <1>1, <1>5
<1> HIDE DEF row
<1> QED
  BY <1>1, <1>4, <1>5, <1>6, <1>7, VersionsMove, Zenon

-----------------------------------------------------------------------------
(* The invariant.                                                          *)

\* The invariant holds of empty tables.
LEMMA CommandInvInit == Init => CommandInv
<1> SUFFICES ASSUME Init PROVE CommandInv
  BY Zenon
<1>1. Shape
  BY CommandAssumption DEF Init, Shape, NoReceipt
<1>2. Stages
  BY Zenon DEF Init, Stages, Stage, InFlight
<1>3. ReceiptsWhole /\ OneEffectPerReceipt
  BY Zenon DEF Init, ReceiptsWhole, OneEffectPerReceipt, NoReceipt, Applied
<1>4. SameVersionSameRow
  BY Zenon DEF Init, SameVersionSameRow
<1> QED
  BY <1>1, <1>2, <1>3, <1>4, Zenon DEF CommandInv

\* Every statement keeps the invariant.
LEMMA CommandInvStep == CommandInv /\ [Next]_vars => CommandInv'
<1> SUFFICES ASSUME CommandInv, [Next]_vars PROVE CommandInv'
  BY Zenon
<1>1. ASSUME NEW s \in Sessions, NEW q \in Submitted, Begin(s, q) PROVE CommandInv'
  <2>1. SameVersionSameRow'
    <3>1. current[s] = NoRow /\ \A x \in Sessions \ {s} : request'[x] = request[x]
      BY <1>1, Zenon DEF Begin, CommandInv, Shape, Stages, Stage
    <3> QED
      BY <1>1, <3>1, VersionsKept, Zenon DEF Begin, tables
  <2>2. ReceiptsWhole' /\ OneEffectPerReceipt'
    BY <1>1, Zenon DEF Begin, tables, CommandInv, ReceiptsWhole, OneEffectPerReceipt
  <2> QED
    BY <1>1, <2>1, <2>2, OtherShape, BeginStages, Zenon DEF CommandInv
<1>2. ASSUME NEW s \in Sessions, LockCommandIdentity(s) PROVE CommandInv'
  <2>1. SameVersionSameRow'
    BY <1>2, VersionsKept, Zenon DEF LockCommandIdentity, tables
  <2>2. ReceiptsWhole' /\ OneEffectPerReceipt'
    BY <1>2, Zenon DEF LockCommandIdentity, tables, CommandInv, ReceiptsWhole, OneEffectPerReceipt
  <2> QED
    BY <1>2, <2>1, <2>2, OtherShape, LockStages, Zenon DEF CommandInv
<1>3. ASSUME NEW s \in Sessions, FindCommandReceipt(s) PROVE CommandInv'
  <2>1. SameVersionSameRow'
    BY <1>3, VersionsKept, Zenon DEF FindCommandReceipt, Return, Leave, tables, CommandInv, Shape
  <2>2. ReceiptsWhole' /\ OneEffectPerReceipt'
    BY <1>3, Zenon DEF FindCommandReceipt, tables, CommandInv, ReceiptsWhole, OneEffectPerReceipt
  <2> QED
    BY <1>3, <2>1, <2>2, FindShape, FindStages, Zenon DEF CommandInv
<1>4. ASSUME NEW s \in Sessions, Apply(s) PROVE CommandInv'
  <2>1. ReceiptsWhole' /\ OneEffectPerReceipt'
    BY <1>4, Zenon DEF Apply, tables, CommandInv, ReceiptsWhole, OneEffectPerReceipt
  <2> QED
    BY <1>4, <2>1, ApplyShape, ApplyStages, ApplyVersions, Zenon DEF CommandInv
<1>5. ASSUME NEW s \in Sessions, Write(s) PROVE CommandInv'
  BY <1>5, WriteShape, WriteStages, WriteEffects, WriteVersions, Zenon DEF CommandInv
<1>6. ASSUME NEW s \in Sessions, Reread(s) PROVE CommandInv'
  <2>1. SameVersionSameRow'
    BY <1>6, VersionsKept, Zenon DEF Reread, Leave, tables, CommandInv, Shape
  <2>2. ReceiptsWhole' /\ OneEffectPerReceipt'
    BY <1>6, Zenon DEF Reread, tables, CommandInv, ReceiptsWhole, OneEffectPerReceipt
  <2> QED
    BY <1>6, <2>1, <2>2, RereadShape, RereadStages, Zenon DEF CommandInv
<1>7. ASSUME NEW s \in Sessions, InsertCommandReceipt(s) PROVE CommandInv'
  <2>1. SameVersionSameRow'
    BY <1>7, VersionsKept, Zenon DEF InsertCommandReceipt, Stored, Answer, Return, Leave, CommandInv, Shape
  <2> QED
    BY <1>7, <2>1, InsertShape, InsertStages, InsertEffects, Zenon DEF CommandInv
<1>8. ASSUME NEW s \in Sessions, Rollback(s) \/ End(s) PROVE CommandInv'
  <2>1. SameVersionSameRow'
    <3>1. /\ UNCHANGED <<schedule, nextId>>
          /\ \A x \in Sessions : \/ current'[x] = NoRow
                                 \/ current'[x] = current[x] /\ request'[x] = request[x]
      BY <1>8, Zenon DEF Rollback, End, Return, Leave, tables, CommandInv, Shape, Stages, Stage
    <3> QED
      BY <3>1, VersionsKept, Zenon
  <2>2. ReceiptsWhole' /\ OneEffectPerReceipt'
    BY <1>8, Zenon DEF Rollback, End, tables, CommandInv, ReceiptsWhole, OneEffectPerReceipt
  <2> QED
    BY <1>8, <2>1, <2>2, OtherShape, OtherStages, Zenon DEF CommandInv
<1>9. ASSUME NEW n \in Names, AdvanceSchedule(n) PROVE CommandInv'
  <2>1. ReceiptsWhole' /\ OneEffectPerReceipt'
    BY <1>9, Zenon DEF AdvanceSchedule, CommandInv, ReceiptsWhole, OneEffectPerReceipt
  <2> QED
    BY <1>9, <2>1, OtherShape, OtherStages, AdvanceVersions, Zenon DEF CommandInv
<1>10. CASE Tick
  <2>1. SameVersionSameRow' /\ ReceiptsWhole' /\ OneEffectPerReceipt'
    BY <1>10, Zenon DEF Tick, session, CommandInv, SameVersionSameRow, ReceiptsWhole, OneEffectPerReceipt
  <2> QED
    BY <1>10, <2>1, OtherShape, OtherStages, Zenon DEF CommandInv
<1>11. CASE UNCHANGED vars
  BY <1>11, Zenon DEF vars, CommandInv, Shape, Stages, Stage, Own, Reads, ReceiptsWhole, SameVersionSameRow,
     OneEffectPerReceipt, IsRow
<1> QED
  BY <1>1, <1>2, <1>3, <1>4, <1>5, <1>6, <1>7, <1>8, <1>9, <1>10, <1>11, Zenon DEF Next

\* The invariant of the command service.
LEMMA CommandInvHolds == Spec => []CommandInv
BY CommandInvInit, CommandInvStep, PTL DEF Spec

-----------------------------------------------------------------------------
(* Rows that the table accepts.                                            *)

\* What was read is a row, and a command that goes on to its write found a due instant.
RowsValid ==
  /\ \A n \in Names : schedule[n] \in ScheduleRow \cup {NoRow}
  /\ \A s \in Sessions :
       /\ current[s] \in ScheduleRow \cup {NoRow}
       /\ pc[s] = "write" => NextDueAt(request[s], current[s], now[s]) # R!NoNext

Rules == {d.rule : d \in Definitions}

\* What validation leaves in a rule.
LEMMA RuleParts ==
  ASSUME NEW rule \in Rules
  PROVE  /\ rule.kind \in {"every", "cron", "once"}
         /\ rule.kind = "once" => rule.at \in Nat
         /\ rule.kind # "once" => Recurs(rule)
BY CommandAssumption, Zenon DEF Rules, Recurs

\* Calculator.Next finds an instant, or fails.
LEMMA NextFound ==
  ASSUME NEW rule \in Rules, rule.kind # "once", NEW t \in Nat, R!Next(rule, t) # R!NoNext
  PROVE  R!Next(rule, t) \in Nat
<1>1. R!Next(rule, t) = Rec!Next(rule, t) /\ R!NoNext = Rec!NoNext
  BY Zenon DEF R!Next, Rec!Next, R!NextMatch, Rec!NextMatch, R!NoNext, Rec!NoNext
<1> QED
  BY <1>1, RuleParts, NextIsLater, Zenon

\* Calculator.NextAfter finds an instant, or fails.
LEMMA NextAfterFound ==
  ASSUME NEW rule \in Rules, rule.kind # "once", NEW due \in Nat, NEW t \in Nat, due <= t,
         R!NextAfter(rule, due, t) # R!NoNext
  PROVE  R!NextAfter(rule, due, t) \in Nat
<1>1. R!NextAfter(rule, due, t) = Rec!NextAfter(rule, due, t) /\ R!NoNext = Rec!NoNext
  BY Zenon DEF R!NextAfter, Rec!NextAfter, R!NextMatch, Rec!NextMatch, R!NoNext, Rec!NoNext
<1> QED
  BY <1>1, RuleParts, NextAfterIsLater, Zenon

\* The columns of a row.
LEMMA RowParts ==
  ASSUME NEW row \in ScheduleRow
  PROVE  /\ row.id \in Ids /\ row.version \in Nat /\ row.rule \in Rules /\ row.nextDueAt \in Int
         /\ row.status \in {"active", "paused", "exhausted"}
         /\ row.status = "exhausted" => row.rule.kind = "once" /\ row.nextDueAt = NoTime
         /\ row.status # "exhausted" => row.nextDueAt \in Nat /\ (row.rule.kind = "once" => row.nextDueAt = row.rule.at)
BY DEF ScheduleRow, Rules

\* A row is made of columns that fit.
LEMMA RowOf ==
  ASSUME NEW id \in Ids, NEW version \in Nat, NEW status \in {"active", "paused", "exhausted"},
         NEW rule \in Rules, NEW due \in Int,
         IF status = "exhausted" THEN rule.kind = "once" /\ due = NoTime
         ELSE due \in Nat /\ (rule.kind = "once" => due = rule.at)
  PROVE  [id |-> id, version |-> version, status |-> status, rule |-> rule, nextDueAt |-> due] \in ScheduleRow
BY DEF ScheduleRow, Rules

\* The due instant a command found fits the status and the rule that it writes with it.
LEMMA DueFits ==
  ASSUME NEW q \in Submitted, q.op # "delete", NEW row \in ScheduleRow \cup {NoRow}, Admits(q, row),
         NEW t \in Nat, NextDueAt(q, row, t) # R!NoNext
  PROVE  LET status == Status(q, row)
             rule == IF q.op \in {"create", "update"} THEN q.body.rule ELSE row.rule
             due == NextDueAt(q, row, t)
         IN /\ status \in {"active", "paused", "exhausted"} /\ rule \in Rules /\ due \in Int
            /\ IF status = "exhausted" THEN rule.kind = "once" /\ due = NoTime
               ELSE due \in Nat /\ (rule.kind = "once" => due = rule.at)
<1>1. q.op \in Operations
  BY SubmittedHasIdentity, Zenon
<1>2. q.op \in {"create", "update"} => q.body \in Definitions
  BY CommandAssumption, Zenon DEF Requests
<1>3. \A d \in Definitions : d.status \in {"active", "paused"} /\ d.rule \in Rules
  BY CommandAssumption, Zenon DEF Rules
<1>4. q.op \in {"update", "pause", "resume"} => row \in ScheduleRow
  BY Zenon DEF Admits
<1>5. CASE q.op \in {"create", "update"} /\ ~SameRunAt(q.body, row)
  <2>1. Status(q, row) = q.body.status
    BY <1>5, Zenon DEF Status
  <2>2. CASE q.body.rule.kind # "once"
    <3>1. NextDueAt(q, row, t) = R!Next(q.body.rule, t)
      BY <1>5, <2>2, Zenon DEF NextDueAt
    <3> QED
      BY <1>2, <1>3, <1>5, <2>1, <2>2, <3>1, NextFound
  <2>3. CASE q.body.rule.kind = "once"
    <3>1. NextDueAt(q, row, t) = q.body.rule.at
      BY <1>5, <2>3, Zenon DEF NextDueAt
    <3>2. q.body.rule \in Rules /\ q.body.rule.at \in Nat
      BY <1>2, <1>3, <1>5, <2>3, RuleParts, Zenon
    <3> QED
      BY <1>2, <1>3, <1>5, <2>1, <3>1, <3>2
  <2> QED
    BY <2>2, <2>3, Zenon
<1>6. CASE q.op = "update" /\ SameRunAt(q.body, row)
  <2>1. NextDueAt(q, row, t) = row.nextDueAt
    BY <1>6, Zenon DEF NextDueAt
  <2>2. q.body.rule.kind = "once" /\ row.rule.kind = "once" /\ q.body.rule.at = row.rule.at
    BY <1>6, Zenon DEF SameRunAt
  <2>3. Status(q, row) = IF row.status = "exhausted" THEN "exhausted" ELSE q.body.status
    BY <1>6, Zenon DEF Status
  <2> QED
    BY <1>2, <1>3, <1>4, <1>6, <2>1, <2>2, <2>3, RowParts, Zenon
<1>7. CASE q.op \in {"pause", "resume"}
  <2>1. row.status # "exhausted" /\ row \in ScheduleRow
    BY <1>4, <1>7, Zenon DEF Admits
  <2>2. row.rule \in Rules /\ row.nextDueAt \in Nat /\ (row.rule.kind = "once" => row.nextDueAt = row.rule.at)
    BY <2>1, RowParts, Zenon
  <2>3. CASE q.op = "pause"
    <3>1. NextDueAt(q, row, t) = row.nextDueAt /\ Status(q, row) = "paused"
      BY <2>3, Zenon DEF NextDueAt, Status
    <3> QED
      BY <2>2, <2>3, <3>1
  <2>4. CASE q.op = "resume"
    <3>1. Status(q, row) = "active"
      BY <2>4, Zenon DEF Status
    <3>2. NextDueAt(q, row, t) = IF row.rule.kind = "once" THEN row.rule.at ELSE R!Next(row.rule, t)
      BY <2>4, Zenon DEF NextDueAt
    <3>3. NextDueAt(q, row, t) \in Nat /\ (row.rule.kind = "once" => NextDueAt(q, row, t) = row.rule.at)
      BY <2>2, <3>2, NextFound, Zenon
    <3> QED
      BY <2>2, <2>4, <3>1, <3>3
  <2> QED
    BY <1>7, <2>3, <2>4, Zenon
<1>8. \/ q.op \in {"create", "update"} /\ ~SameRunAt(q.body, row)
      \/ q.op = "update" /\ SameRunAt(q.body, row)
      \/ q.op \in {"pause", "resume"}
  BY <1>1, Zenon DEF Operations, SameRunAt, Admits
<1> QED
  BY <1>5, <1>6, <1>7, <1>8, Zenon

\* The row an operation makes of a row is one that ck_scheduler_schedule_next accepts.
LEMMA EffectValid ==
  ASSUME NEW q \in Submitted, NEW row \in ScheduleRow \cup {NoRow}, Admits(q, row),
         NEW t \in Nat, NextDueAt(q, row, t) # R!NoNext, NEW id, q.op = "create" => id \in Ids
  PROVE  Effect(q, row, t, id) \in ScheduleRow \cup {NoRow}
<1>1. CASE q.op = "delete"
  BY <1>1, Zenon DEF Effect
<1>2. CASE q.op # "delete"
  <2> DEFINE own == IF q.op = "create" THEN id ELSE row.id
             version == IF q.op = "create" THEN 1 ELSE row.version + 1
             rule == IF q.op \in {"create", "update"} THEN q.body.rule ELSE row.rule
  <2>1. own \in Ids /\ version \in Nat
    <3>1. q.op # "create" => row \in ScheduleRow
      BY <1>2, SubmittedHasIdentity, Zenon DEF Admits, Operations
    <3> QED
      BY <3>1, RowParts
  <2>2. Effect(q, row, t, id) = [id |-> own, version |-> version, status |-> Status(q, row),
                                 rule |-> rule, nextDueAt |-> NextDueAt(q, row, t)]
    BY <1>2, Zenon DEF Effect
  <2>3. /\ Status(q, row) \in {"active", "paused", "exhausted"} /\ rule \in Rules /\ NextDueAt(q, row, t) \in Int
        /\ IF Status(q, row) = "exhausted" THEN rule.kind = "once" /\ NextDueAt(q, row, t) = NoTime
           ELSE NextDueAt(q, row, t) \in Nat /\ (rule.kind = "once" => NextDueAt(q, row, t) = rule.at)
    BY <1>2, DueFits, Zenon
  <2> HIDE DEF own, version, rule
  <2> QED
    BY <2>1, <2>2, <2>3, RowOf
<1> QED
  BY <1>1, <1>2, Zenon

\* The row that the conditional write finds is the row that apply read, so what the
\* command computed from its read is the effect on the row of this very moment.
LEMMA WrittenIsEffect ==
  ASSUME CommandInv, NEW s \in Sessions, pc[s] = "write", MayWrite(s)
  PROVE  /\ Admits(request[s], schedule[request[s].name])
         /\ Written(s) = Effect(request[s], schedule[request[s].name], now[s], nextId)
<1> DEFINE q == request[s]
           row == schedule[q.name]
<1>1. q.op \in Operations /\ q.name \in Names /\ (Reads(s) <=> current[s] # NoRow)
  BY OwnIdentity, SubmittedHasIdentity, Zenon DEF CommandInv, Stages, Stage
<1>2. CASE q.op = "create"
  <2>1. row = NoRow /\ current[s] = NoRow
    BY <1>1, <1>2, Zenon DEF MayWrite, Reads
  <2> QED
    BY <1>2, <2>1, Zenon DEF Admits, Written, Effect
<1>3. CASE q.op = "delete"
  BY <1>3, Zenon DEF Admits, Written, Effect, MayWrite
<1>4. CASE q.op \in {"update", "pause", "resume"}
  <2>1. row # NoRow /\ row.id = current[s].id /\ row.version = current[s].version
    BY <1>4, Zenon DEF MayWrite
  <2>2. current[s] # NoRow
    BY <1>1, <1>4, Zenon DEF Reads
  <2>3. current[s] = row
    BY <2>1, <2>2, Zenon DEF CommandInv, SameVersionSameRow
  <2>4. Admits(q, row)
    BY <1>4, <2>1, Zenon DEF Admits, MayWrite
  <2>5. q.op = "pause" => NextDueAt(q, row, now[s]) = row.nextDueAt
    BY Zenon DEF NextDueAt
  <2>6. Written(s) = Effect(q, row, now[s], nextId)
    BY <1>4, <2>3, <2>5, Zenon DEF Written, Effect
  <2> QED
    BY <2>4, <2>6, Zenon
<1> QED
  BY <1>1, <1>2, <1>3, <1>4, Zenon DEF Operations

\* A row that a step writes and a read that a step makes are such rows.
LEMMA RowsValidStep ==
  CommandInv /\ CommandInv' /\ RowsValid /\ [Next]_vars => RowsValid'
<1> SUFFICES ASSUME CommandInv, CommandInv', RowsValid, [Next]_vars PROVE RowsValid'
  BY Zenon
<1>1. ASSUME UNCHANGED schedule,
             \A s \in Sessions : /\ current'[s] \in {current[s], NoRow}
                                 /\ pc'[s] = "write" => /\ pc[s] = "write" /\ request'[s] = request[s]
                                                        /\ now'[s] = now[s] /\ current'[s] = current[s]
      PROVE  RowsValid'
  <2>1. \A n \in Names : schedule'[n] \in ScheduleRow \cup {NoRow}
    BY <1>1, Zenon DEF RowsValid
  <2>2. ASSUME NEW s \in Sessions
        PROVE  /\ current'[s] \in ScheduleRow \cup {NoRow}
               /\ pc'[s] = "write" => NextDueAt(request'[s], current'[s], now'[s]) # R!NoNext
    BY <1>1, Zenon DEF RowsValid
  <2> QED
    BY <2>1, <2>2, Zenon DEF RowsValid
<1>2. ASSUME NEW s \in Sessions,
             \/ \E q \in Submitted : Begin(s, q)
             \/ LockCommandIdentity(s) \/ FindCommandReceipt(s)
             \/ Reread(s) \/ InsertCommandReceipt(s) \/ Rollback(s) \/ End(s)
      PROVE  RowsValid'
  <2>1. UNCHANGED schedule
    BY <1>2, Zenon DEF Begin, LockCommandIdentity, FindCommandReceipt, Reread, InsertCommandReceipt, Rollback, End, tables
  <2>2. /\ pc'[s] # "write" /\ current'[s] \in {current[s], NoRow}
        /\ \A x \in Sessions \ {s} : /\ pc'[x] = pc[x] /\ request'[x] = request[x] /\ now'[x] = now[x]
                                     /\ current'[x] = current[x]
    BY <1>2 DEF Begin, LockCommandIdentity, FindCommandReceipt, Reread, InsertCommandReceipt, Rollback, End,
       Stored, Answer, Return, Leave, Goto, CommandInv, Shape
  <2> QED
    BY <1>1, <2>1, <2>2, Zenon
<1>3. ASSUME NEW s \in Sessions, Apply(s) PROVE RowsValid'
  <2>1. UNCHANGED <<schedule, request>> /\ request[s].name \in Names
    BY <1>3, OwnIdentity, SubmittedHasIdentity, Zenon DEF Apply, tables
  <2>2. \A x \in Sessions \ {s} : pc'[x] = pc[x] /\ now'[x] = now[x] /\ current'[x] = current[x]
    BY <1>3, Zenon DEF Apply, Return, Leave, Goto, CommandInv, Shape
  <2>3. /\ current'[s] \in {schedule[request[s].name], NoRow}
        /\ pc'[s] = "write" => NextDueAt(request[s], current'[s], now'[s]) # R!NoNext
    BY <1>3 DEF Apply, Return, Leave, Goto, CommandInv, Shape
  <2> QED
    BY <2>1, <2>2, <2>3, Zenon DEF RowsValid
<1>4. ASSUME NEW s \in Sessions, Write(s) PROVE RowsValid'
  <2>1. /\ pc'[s] # "write" /\ current'[s] \in {current[s], NoRow} /\ UNCHANGED request
        /\ \A x \in Sessions \ {s} : pc'[x] = pc[x] /\ now'[x] = now[x] /\ current'[x] = current[x]
    BY <1>4 DEF Write, Stored, Answer, Return, Leave, Goto, CommandInv, Shape
  <2>2. CASE ~MayWrite(s)
    BY <1>1, <1>4, <2>1, <2>2, Zenon DEF Write
  <2>3. CASE MayWrite(s)
    <3> DEFINE q == request[s]
               row == schedule[q.name]
    <3>1. pc[s] = "write" /\ schedule' = [schedule EXCEPT ![q.name] = Written(s)]
          /\ (q.op = "create" => nextId \in Ids)
      BY <1>4, <2>3, Zenon DEF Write
    <3>2. q \in Submitted /\ q.name \in Names
      BY <3>1, OwnIdentity, SubmittedHasIdentity, Zenon
    <3>3. Admits(q, row) /\ Written(s) = Effect(q, row, now[s], nextId)
      BY <2>3, <3>1, WrittenIsEffect, Zenon
    <3>4. row \in ScheduleRow \cup {NoRow} /\ now[s] \in Nat
      BY <3>1, <3>2, CommandAssumption DEF RowsValid, CommandInv, Stages, Stage
    <3>5. NextDueAt(q, row, now[s]) # R!NoNext
      <4>1. CASE q.op = "delete"
        BY <4>1 DEF NextDueAt, NoTime, R!NoNext
      <4>2. CASE q.op = "create"
        <5>1. current[s] = NoRow /\ row = NoRow
          BY <2>3, <3>1, <4>2, Zenon DEF MayWrite, Reads, CommandInv, Stages, Stage
        <5> QED
          BY <3>1, <5>1, Zenon DEF RowsValid
      <4>3. CASE q.op \in {"update", "pause", "resume"}
        <5>1. row # NoRow /\ row.id = current[s].id /\ row.version = current[s].version
          BY <2>3, <4>3, Zenon DEF MayWrite
        <5>2. current[s] # NoRow
          BY <3>1, <4>3, Zenon DEF Reads, CommandInv, Stages, Stage
        <5>3. current[s] = row
          BY <5>1, <5>2, Zenon DEF CommandInv, SameVersionSameRow
        <5> QED
          BY <3>1, <5>3, Zenon DEF RowsValid
      <4> QED
        BY <3>2, <4>1, <4>2, <4>3, SubmittedHasIdentity, Zenon DEF Operations
    <3>6. Written(s) \in ScheduleRow \cup {NoRow}
      BY <3>1, <3>2, <3>3, <3>4, <3>5, EffectValid
    <3>7. \A n \in Names : schedule'[n] \in ScheduleRow \cup {NoRow}
      BY <3>1, <3>2, <3>6, Zenon DEF RowsValid, CommandInv, Shape
    <3> QED
      BY <2>1, <3>7, Zenon DEF RowsValid
  <2> QED
    BY <2>2, <2>3, Zenon
<1>5. ASSUME NEW n \in Names, AdvanceSchedule(n) PROVE RowsValid'
  <2> DEFINE row == schedule[n]
             once == row.rule.kind = "once"
             next == IF once THEN NoTime ELSE R!NextAfter(row.rule, row.nextDueAt, clock)
             status == IF once THEN "exhausted" ELSE "active"
  <2>1. /\ row # NoRow /\ row.status = "active" /\ row.nextDueAt <= clock /\ next # R!NoNext
        /\ schedule' = [schedule EXCEPT ![n] =
             [id |-> row.id, version |-> row.version + 1, status |-> status, rule |-> row.rule, nextDueAt |-> next]]
        /\ UNCHANGED <<pc, request, now, current>>
    BY <1>5, Zenon DEF AdvanceSchedule, session
  <2>2. row \in ScheduleRow /\ clock \in Nat
    BY <2>1, CommandAssumption DEF RowsValid, CommandInv, Shape
  <2>3. /\ row.id \in Ids /\ row.version + 1 \in Nat /\ row.rule \in Rules /\ row.nextDueAt \in Nat
    BY <2>1, <2>2, RowParts
  <2>4. next \in Int /\ (once => next = NoTime) /\ (~once => next \in Nat)
    BY <2>1, <2>2, <2>3, NextAfterFound DEF NoTime
  <2>5. status \in {"active", "exhausted"} /\ (status = "exhausted" <=> once)
    BY Zenon
  <2> DEFINE new == [id |-> row.id, version |-> row.version + 1, status |-> status, rule |-> row.rule,
                     nextDueAt |-> next]
  <2>6. new \in ScheduleRow
    <3>1. status \in {"active", "paused", "exhausted"} /\ (once <=> row.rule.kind = "once")
      BY <2>5, Zenon
    <3> HIDE DEF row, next, status, once
    <3> QED
      BY <2>3, <2>4, <2>5, <3>1, RowOf, Zenon
  <2>7. schedule' = [schedule EXCEPT ![n] = new]
    BY <2>1, Zenon
  <2> HIDE DEF new
  <2>8. \A m \in Names : schedule'[m] \in ScheduleRow \cup {NoRow}
    BY <2>6, <2>7, Zenon DEF RowsValid, CommandInv, Shape
  <2> QED
    BY <2>1, <2>8, Zenon DEF RowsValid
<1>6. CASE Tick \/ UNCHANGED vars
  BY <1>1, <1>6, Zenon DEF Tick, session, vars
<1>7. CASE Next
  BY <1>2, <1>3, <1>4, <1>5, <1>6, <1>7, Zenon DEF Next
<1> QED
  BY <1>6, <1>7, Zenon

\* The rows are valid in every state.
LEMMA RowsValidHolds == Spec => [](CommandInv /\ RowsValid)
<1>1. Init => RowsValid
  BY DEF Init, RowsValid
<1>2. QED
  BY <1>1, CommandInvInit, CommandInvStep, RowsValidStep, PTL DEF Spec

\* Every variable has its type, and no command, planner commit or race between them
\* leaves a row that ck_scheduler_schedule_next rejects: an exhausted row is a once
\* row without a due instant, every other row has one, that of its run_at if it is once.
THEOREM CommandTypeCorrect == Spec => []TypeOK
<1>1. CommandInv /\ RowsValid => TypeOK
  <2> SUFFICES ASSUME CommandInv, RowsValid PROVE TypeOK
    BY Zenon
  <2>1. clock \in Nat /\ nextId \in Nat
    BY CommandAssumption DEF CommandInv, Shape
  <2>2. schedule \in [Names -> ScheduleRow \cup {NoRow}]
    BY Zenon DEF CommandInv, Shape, RowsValid
  <2>3. current \in [Sessions -> ScheduleRow \cup {NoRow}]
    BY Zenon DEF CommandInv, Shape, RowsValid
  <2>4. now \in [Sessions -> Int]
    BY CommandAssumption DEF CommandInv, Shape, NoTime
  <2>5. request \in [Sessions -> Requests \cup {NoRequest}]
    BY CommandAssumption, Zenon DEF CommandInv, Shape
  <2> QED
    BY <2>1, <2>2, <2>3, <2>4, <2>5, Zenon DEF TypeOK, CommandInv, Shape
<1>2. QED
  BY <1>1, RowsValidHolds, PTL

\* A write finds the row exhausted only if its command read it exhausted, and then an
\* update with the row's own rule keeps the status.
LEMMA WriteKeepsExhausted ==
  ASSUME CommandInv, RowsValid, NEW s \in Sessions, Write(s), NEW n \in Names,
         schedule[n] # NoRow, schedule[n].status = "exhausted", schedule'[n].id = schedule[n].id
  PROVE  schedule'[n].status = "exhausted" \/ schedule'[n].rule # schedule[n].rule
<1> DEFINE q == request[s]
           row == schedule[n]
<1>1. CASE schedule'[n] = row
  BY <1>1, Zenon
<1>2. CASE schedule'[n] # row
  <2>1. pc[s] = "write" /\ MayWrite(s) /\ schedule' = [schedule EXCEPT ![q.name] = Written(s)]
    BY <1>2, Zenon DEF Write
  <2>2. q.name = n /\ schedule'[n] = Written(s)
    BY <1>2, <2>1, Zenon DEF CommandInv, Shape
  <2>3. Admits(q, row) /\ Written(s) = Effect(q, row, now[s], nextId)
    BY <2>1, <2>2, WrittenIsEffect, Zenon
  <2>4. row.id # None /\ row.rule.kind = "once"
    BY CommandAssumption, RowParts DEF RowsValid
  <2>5. q.op = "update"
    <3>1. q.op \in Operations
      BY <2>1, OwnIdentity, SubmittedHasIdentity, Zenon
    <3>2. q.op # "delete"
      BY <2>2, <2>3, <2>4 DEF Effect, NoRow
    <3> QED
      BY <2>3, <3>1, <3>2, Zenon DEF Admits, Operations
  <2>6. /\ schedule'[n].status = (IF SameRunAt(q.body, row) /\ row.status = "exhausted" THEN "exhausted" ELSE q.body.status)
        /\ schedule'[n].rule = q.body.rule
    BY <2>2, <2>3, <2>5 DEF Effect, Status
  <2>7. q.body.rule = row.rule => SameRunAt(q.body, row)
    BY <2>4, Zenon DEF SameRunAt
  <2> QED
    BY <2>6, <2>7, Zenon
<1> QED
  BY <1>1, <1>2, Zenon

\* A once obligation that was materialised is not armed again, whatever the command
\* read and however the planner's commit falls between its read and its write.
THEOREM UsedUpRunAtStays == Spec => ExhaustedStaysExhausted
<1>1. CommandInv /\ RowsValid /\ [Next]_vars =>
        [\A n \in Names :
          schedule[n] # NoRow /\ schedule[n].status = "exhausted" /\ schedule'[n].id = schedule[n].id =>
            schedule'[n].status = "exhausted" \/ schedule'[n].rule # schedule[n].rule]_vars
  <2> SUFFICES ASSUME CommandInv, RowsValid, Next, NEW n \in Names,
                      schedule[n] # NoRow, schedule[n].status = "exhausted", schedule'[n].id = schedule[n].id
               PROVE  schedule'[n].status = "exhausted" \/ schedule'[n].rule # schedule[n].rule
    BY Zenon
  <2>1. ASSUME NEW s \in Sessions, Write(s)
        PROVE  schedule'[n].status = "exhausted" \/ schedule'[n].rule # schedule[n].rule
    BY <2>1, WriteKeepsExhausted, Zenon
  <2>2. ASSUME NEW m \in Names, AdvanceSchedule(m) PROVE schedule'[n] = schedule[n]
    <3>1. m # n /\ \E row : schedule' = [schedule EXCEPT ![m] = row]
      BY <2>2, Zenon DEF AdvanceSchedule
    <3> QED
      BY <3>1, Zenon DEF CommandInv, Shape
  <2>3. ASSUME NEW s \in Sessions,
               \/ \E q \in Submitted : Begin(s, q)
               \/ LockCommandIdentity(s) \/ FindCommandReceipt(s) \/ Apply(s)
               \/ Reread(s) \/ InsertCommandReceipt(s) \/ Rollback(s) \/ End(s)
        PROVE  schedule' = schedule
    BY <2>3, Zenon DEF Begin, LockCommandIdentity, FindCommandReceipt, Apply, Reread, InsertCommandReceipt, Rollback,
       End, tables
  <2>4. Tick => schedule' = schedule
    BY Zenon DEF Tick
  <2>5. (\E s \in Sessions : Write(s)) \/ (\E m \in Names : AdvanceSchedule(m)) \/ schedule' = schedule
    BY <2>3, <2>4, Zenon DEF Next
  <2> QED
    BY <2>1, <2>2, <2>5, Zenon
<1>2. QED
  BY <1>1, RowsValidHolds, PTL DEF Spec, ExhaustedStaysExhausted

\* However many sessions execute, retry and lose requests, a command identity changes
\* a schedule exactly once when its receipt says applied, and never otherwise.
THEOREM EffectsMatchReceipts == Spec => []OneEffectPerReceipt
<1>1. CommandInv => OneEffectPerReceipt
  BY Zenon DEF CommandInv
<1>2. QED
  BY <1>1, CommandInvHolds, PTL

\* The advisory lock of Execute keeps every duplicate behind the transaction that is
\* applying a command: its receipt row is absent until it inserts it.
THEOREM DuplicatesWait == Spec => []NoDuplicateInFlight
<1>1. CommandInv => NoDuplicateInFlight
  BY Zenon DEF CommandInv, Stages, Stage, NoDuplicateInFlight
<1>2. QED
  BY <1>1, CommandInvHolds, PTL

-----------------------------------------------------------------------------
(* CommandService implements Receipts: every step of a session, of the     *)
(* planner or of the clock is a step of the promise or leaves it alone.    *)

\* What a caller sees of a session.
LEMMA CallerOf ==
  ASSUME NEW s \in Sessions
  PROVE  /\ Callers[s].req = request[s]
         /\ Callers[s].answer = IF pc[s] = "done" THEN result[s] ELSE "none"
BY Zenon DEF Callers

\* A session in the middle of a request is a caller that waits.
LEMMA CallerWaits ==
  ASSUME CommandInv, NEW s \in Sessions, pc[s] \notin {"idle", "done"}
  PROVE  /\ Promised!Waits(s) /\ Promised!Query(s) = request[s]
         /\ Promised!Key(request[s]) = Own(s) /\ Promised!Receipt(s) = receipt[Own(s)]
<1>1. request[s] # NoRequest
  BY OwnIdentity, SubmittedHasIdentity, Zenon
<1> QED
  BY <1>1, CallerOf, Zenon DEF Promised!Waits, Promised!Query, Promised!Key, Promised!Receipt, Promised!Nobody,
     Own, Identity, NoRequest

\* Moving between statements is invisible to callers.
LEMMA CallersKept ==
  ASSUME CommandInv, NEW s \in Sessions, NEW label, pc[s] # "done", label # "done", Goto(s, label),
         UNCHANGED request, \A x \in Sessions \ {s} : result'[x] = result[x]
  PROVE  UNCHANGED Callers
BY Zenon DEF Callers, Goto, CommandInv, Shape

\* Returning from the transaction tells the caller.
LEMMA ReturnTells ==
  ASSUME CommandInv, NEW s \in Sessions, NEW code, pc[s] \notin {"idle", "done"}, Return(s, code),
         UNCHANGED request
  PROVE  Promised!Told(s, code)
<1>1. Callers' = [Callers EXCEPT ![s] = [req |-> request[s], answer |-> code]]
  BY Zenon DEF Callers, Return, Leave, Goto, CommandInv, Shape
<1> QED
  BY <1>1, CallerOf, Zenon DEF Promised!Told, Promised!Query

\* Storing the receipt and committing keeps the receipt and tells the caller.
LEMMA StoredKeeps ==
  ASSUME CommandInv, NEW s \in Sessions, NEW code, pc[s] \notin {"idle", "done"}, Stored(s, code),
         UNCHANGED request
  PROVE  Promised!Keep(s, code)
<1>1. Promised!Receipt(s).result = Promised!Unused
  BY CallerWaits DEF Stored, NoReceipt, Promised!Unused
<1>2. receipt' = [receipt EXCEPT ![Promised!Key(Promised!Query(s))] =
                    [body |-> Promised!Query(s).body, result |-> code]]
  BY CallerWaits, Zenon DEF Stored
<1>3. Promised!Told(s, code) \/ Promised!Told(s, "failed")
  BY ReturnTells, Zenon DEF Stored, Answer
<1> QED
  BY <1>1, <1>2, <1>3, Zenon DEF Promised!Keep

-----------------------------------------------------------------------------
(* The steps.                                                              *)

\* A request that begins is asked.
LEMMA BeginAsks ==
  ASSUME CommandInv, NEW s \in Sessions, NEW q \in Submitted, Begin(s, q)
  PROVE  Promised!Ask(s)
<1>1. Callers[s] = Promised!Nobody
  BY Zenon DEF Callers, Promised!Nobody, Begin, CommandInv, Stages, Stage, NoRequest
<1>2. Callers' = [Callers EXCEPT ![s] = [req |-> q, answer |-> "none"]]
  BY Zenon DEF Callers, Begin, Goto, CommandInv, Shape
<1> QED
  BY <1>1, <1>2, Zenon DEF Promised!Ask, Begin, tables

\* A receipt that is found is replayed.
LEMMA FindReplays ==
  ASSUME CommandInv, NEW s \in Sessions, FindCommandReceipt(s)
  PROVE  Promised!Replay(s) \/ UNCHANGED <<schedule, receipt, Callers>>
<1>1. pc[s] = "find" /\ UNCHANGED <<schedule, receipt, request>>
  BY Zenon DEF FindCommandReceipt, tables
<1>2. CASE receipt[Own(s)] = NoReceipt
  BY <1>1, <1>2, CallersKept, Zenon DEF FindCommandReceipt
<1>3. CASE receipt[Own(s)] # NoReceipt
  <2>1. receipt[Own(s)].result # "none"
    BY <1>1, <1>3, OwnIdentity, Zenon DEF CommandInv, ReceiptsWhole
  <2>2. Return(s, IF receipt[Own(s)].body = request[s].body THEN receipt[Own(s)].result
                  ELSE "idempotency_conflict")
    BY <1>3, Zenon DEF FindCommandReceipt
  <2> QED
    BY <1>1, <2>1, <2>2, CallerWaits, ReturnTells, Zenon DEF Promised!Replay, Promised!Unused
<1> QED
  BY <1>2, <1>3, Zenon

\* apply reads without a visible change, or the command fails.
LEMMA ApplyFails ==
  ASSUME CommandInv, NEW s \in Sessions, Apply(s)
  PROVE  Promised!Fail(s) \/ UNCHANGED <<schedule, receipt, Callers>>
<1>1. pc[s] = "apply" /\ UNCHANGED <<schedule, receipt, request>>
  BY Zenon DEF Apply, tables
<1>2. CASE ReadResult(s) # "none"
  <2>1. Goto(s, "receipt") /\ \A x \in Sessions \ {s} : result'[x] = result[x]
    BY <1>2, Zenon DEF Apply, Leave, CommandInv, Shape
  <2> QED
    BY <1>1, <2>1, CallersKept, Zenon
<1>3. CASE Return(s, "failed") \/ Return(s, "invalid_command")
  <2>1. receipt[Own(s)].result = "none"
    BY <1>1 DEF CommandInv, Stages, Stage, NoReceipt
  <2>2. Promised!Told(s, "failed") \/ Promised!Told(s, "invalid_command")
    BY <1>1, <1>3, ReturnTells, Zenon
  <2> QED
    BY <1>1, <2>1, <2>2, CallerWaits, Zenon DEF Promised!Fail, Promised!Unused
<1>4. CASE Goto(s, "write") /\ UNCHANGED result
  BY <1>1, <1>4, CallersKept, Zenon
<1> QED
  BY <1>2, <1>3, <1>4, Zenon DEF Apply

\* A write that meets its row performs the command at that moment.
LEMMA WritePerforms ==
  ASSUME CommandInv, NEW s \in Sessions, Write(s)
  PROVE  Promised!Perform(s) \/ UNCHANGED <<schedule, receipt, Callers>>
<1> DEFINE q == request[s]
           row == schedule[q.name]
<1>1. pc[s] = "write" /\ UNCHANGED request
  BY Zenon DEF Write
<1>2. q.op \in Operations /\ q.name \in Names
  BY <1>1, OwnIdentity, SubmittedHasIdentity, Zenon
<1>3. CASE MayWrite(s)
  <2>1. Admits(q, row) /\ Written(s) = Effect(q, row, now[s], nextId)
    BY <1>1, <1>3, WrittenIsEffect, Zenon
  <2>2. Promised!Keep(s, Code(q.op)) /\ schedule' = [schedule EXCEPT ![q.name] = Written(s)]
    BY <1>1, <1>3, StoredKeeps, Zenon DEF Write
  <2>3. now[s] \in 0..MaxClock
    BY <1>1, Zenon DEF CommandInv, Stages, Stage
  <2>4. \E id \in Ids : Written(s) = Effect(q, row, now[s], id)
    <3>1. CASE q.op = "create"
      BY <1>3, <2>1, <3>1, Zenon DEF Write
    <3>2. CASE q.op # "create"
      <4>1. row # NoRow
        BY <1>2, <1>3, <3>2, Zenon DEF MayWrite, Operations
      <4>2. row.id \in Ids
        BY <1>2, <4>1, Zenon DEF CommandInv, SameVersionSameRow, IsRow
      <4>3. Effect(q, row, now[s], row.id) = Effect(q, row, now[s], nextId)
        BY <3>2, Zenon DEF Effect
      <4> QED
        BY <2>1, <4>2, <4>3, Zenon
    <3> QED
      BY <3>1, <3>2, Zenon
  <2>5. Promised!Done(q.op) = Code(q.op)
    BY Zenon DEF Promised!Done, Code
  <2>6. Promised!Waits(s) /\ Promised!Query(s) = q
    BY <1>1, CallerWaits, Zenon
  <2> QED
    BY <2>1, <2>2, <2>3, <2>4, <2>5, <2>6, Zenon DEF Promised!Perform
<1>4. CASE ~MayWrite(s)
  <2>1. \E label \in {"receipt", "reread"} :
          Goto(s, label) /\ \A x \in Sessions \ {s} : result'[x] = result[x]
    BY <1>2, <1>4, Zenon DEF Write, Leave, CommandInv, Shape
  <2>2. UNCHANGED <<schedule, receipt>>
    BY <1>2, <1>4, Zenon DEF Write
  <2> QED
    BY <1>1, <2>1, <2>2, CallersKept, Zenon
<1> QED
  BY <1>3, <1>4, Zenon

\* The second read is not visible.
LEMMA RereadSilent ==
  ASSUME CommandInv, NEW s \in Sessions, Reread(s)
  PROVE  UNCHANGED <<schedule, receipt, Callers>>
<1>1. /\ pc[s] = "reread" /\ UNCHANGED <<schedule, receipt, request>> /\ Goto(s, "receipt")
      /\ \A x \in Sessions \ {s} : result'[x] = result[x]
  BY Zenon DEF Reread, Leave, tables, CommandInv, Shape
<1> QED
  BY <1>1, CallersKept, Zenon

\* The receipt of a refusal refuses the command at that moment.
LEMMA InsertRefuses ==
  ASSUME CommandInv, NEW s \in Sessions, InsertCommandReceipt(s)
  PROVE  Promised!Refuse(s)
<1>1. pc[s] = "receipt" /\ UNCHANGED <<schedule, request>> /\ Stored(s, result[s])
  BY Zenon DEF InsertCommandReceipt
<1>2. result[s] \in Promised!Refusals
  BY <1>1, Zenon DEF CommandInv, Stages, Stage, Refused, Promised!Refusals
<1> QED
  BY <1>1, <1>2, StoredKeeps, CallerWaits, Zenon DEF Promised!Refuse

\* A rolled back transaction is a failed command.
LEMMA RollbackFails ==
  ASSUME CommandInv, NEW s \in Sessions, Rollback(s)
  PROVE  Promised!Fail(s)
<1>1. pc[s] \notin {"idle", "done"} /\ UNCHANGED <<schedule, receipt, request>> /\ Return(s, "failed")
  BY Zenon DEF Rollback, tables
<1> QED
  BY <1>1, ReturnTells, CallerWaits, Zenon DEF Promised!Fail

\* The caller takes the answer.
LEMMA EndLeaves ==
  ASSUME CommandInv, NEW s \in Sessions, End(s)
  PROVE  Promised!Leave(s)
<1>1. Callers[s].answer # "none"
  BY CallerOf, Zenon DEF End, CommandInv, Stages, Stage
<1>2. Callers' = [Callers EXCEPT ![s] = Promised!Nobody]
  BY Zenon DEF Callers, Promised!Nobody, NoRequest, End, Goto, CommandInv, Shape
<1> QED
  BY <1>1, <1>2, Zenon DEF Promised!Leave, End, tables

\* The planner's advance is the promise's.
LEMMA AdvanceMoves ==
  ASSUME CommandInv, NEW n \in Names, AdvanceSchedule(n)
  PROVE  Promised!Advance(n)
<1>1. schedule[n] # NoRow /\ schedule[n].status = "active" /\ UNCHANGED <<receipt, Callers>>
  BY Zenon DEF AdvanceSchedule, session, Callers
<1>2. PICK next : \E status \in {"active", "exhausted"} :
        schedule' = [schedule EXCEPT ![n] =
          [id |-> schedule[n].id, version |-> schedule[n].version + 1, status |-> status,
           rule |-> schedule[n].rule, nextDueAt |-> next]]
  BY Zenon DEF AdvanceSchedule
<1>3. /\ schedule'[n].id = schedule[n].id /\ schedule'[n].rule = schedule[n].rule
      /\ schedule'[n].version = schedule[n].version + 1 /\ schedule'[n].status \in {"active", "exhausted"}
      /\ schedule' = [schedule EXCEPT ![n] = schedule'[n]]
  BY <1>2 DEF CommandInv, Shape
<1> QED
  BY <1>1, <1>3, Zenon DEF Promised!Advance

-----------------------------------------------------------------------------
(* The refinement.                                                         *)

\* Every statement is a step of the promise or none.
LEMMA RefinesStep == CommandInv /\ [Next]_vars => [Promised!Step]_(Promised!promise)
<1> SUFFICES ASSUME CommandInv, [Next]_vars
             PROVE  Promised!Step \/ UNCHANGED <<schedule, receipt, Callers>>
  BY Zenon DEF Promised!promise
<1>1. ASSUME NEW s \in Sessions, NEW q \in Submitted, Begin(s, q) PROVE Promised!Step
  BY <1>1, BeginAsks, Zenon DEF Promised!Step
<1>2. ASSUME NEW s \in Sessions, LockCommandIdentity(s) PROVE UNCHANGED <<schedule, receipt, Callers>>
  BY <1>2, CallersKept, Zenon DEF LockCommandIdentity, tables
<1>3. ASSUME NEW s \in Sessions, FindCommandReceipt(s)
      PROVE  Promised!Step \/ UNCHANGED <<schedule, receipt, Callers>>
  BY <1>3, FindReplays, Zenon DEF Promised!Step
<1>4. ASSUME NEW s \in Sessions, Apply(s) PROVE Promised!Step \/ UNCHANGED <<schedule, receipt, Callers>>
  BY <1>4, ApplyFails, Zenon DEF Promised!Step
<1>5. ASSUME NEW s \in Sessions, Write(s) PROVE Promised!Step \/ UNCHANGED <<schedule, receipt, Callers>>
  BY <1>5, WritePerforms, Zenon DEF Promised!Step
<1>6. ASSUME NEW s \in Sessions, Reread(s) PROVE UNCHANGED <<schedule, receipt, Callers>>
  BY <1>6, RereadSilent, Zenon
<1>7. ASSUME NEW s \in Sessions, InsertCommandReceipt(s) PROVE Promised!Step
  BY <1>7, InsertRefuses, Zenon DEF Promised!Step
<1>8. ASSUME NEW s \in Sessions, Rollback(s) PROVE Promised!Step
  BY <1>8, RollbackFails, Zenon DEF Promised!Step
<1>9. ASSUME NEW s \in Sessions, End(s) PROVE Promised!Step
  BY <1>9, EndLeaves, Zenon DEF Promised!Step
<1>10. ASSUME NEW n \in Names, AdvanceSchedule(n) PROVE Promised!Step
  BY <1>10, AdvanceMoves, Zenon DEF Promised!Step
<1>11. CASE Tick \/ UNCHANGED vars
  BY <1>11, Zenon DEF Tick, session, vars, Callers
<1> QED
  BY <1>1, <1>2, <1>3, <1>4, <1>5, <1>6, <1>7, <1>8, <1>9, <1>10, <1>11, Zenon DEF Next

\* Empty tables are where the promise starts.
LEMMA RefinesInit == Init => Promised!Start
BY DEF Init, Promised!Start, Promised!Nobody, Promised!Unused, Callers, NoReceipt, NoRequest

\* Execute implements Receipts for every number of sessions, names, keys and instants
\* and every set of definitions: commands act atomically on the current row, once per
\* identity, and callers are answered from the receipt.
THEOREM CommandsRefineReceipts == Spec => CommandsAreAtomic
BY RefinesInit, RefinesStep, CommandInvHolds, PTL DEF Spec, CommandsAreAtomic, Promised!Promise
=============================================================================
