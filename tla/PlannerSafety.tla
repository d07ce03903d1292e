--------------------------- MODULE PlannerSafety ----------------------------
(***************************************************************************)
(* Why a plan made from stale reads is safe: every write to a schedule row *)
(* but a claim moves its version, so a plan that still finds the version   *)
(* it was made for finds the row, and the occurrences of its schedule,     *)
(* as it saw them.  What the planner promises of due instants follows:     *)
(* what is recorded lies behind what is due, up to the lag of a clock      *)
(* reading, and no due instant is passed without a record.                 *)
(***************************************************************************)
EXTENDS PlannerProofs

(* What one step does to one row and to one occurrence.                    *)

Kept(n) == Exists(n) /\ schedule'[n] # NoRow /\ Unclaimed(schedule'[n]) = Unclaimed(schedule[n])

Gone(n) == schedule'[n] = NoRow

Created(n) ==
  /\ ~Exists(n) /\ schedule'[n].id = nextId /\ nextId' = nextId + 1
  /\ schedule'[n].status # "exhausted"
  /\ \A m \in Names \ {n} : schedule'[m] = schedule[m]

Bumped(n) ==
  /\ Exists(n) /\ schedule'[n] # NoRow
  /\ schedule'[n].id = schedule[n].id /\ schedule'[n].version = schedule[n].version + 1
  /\ schedule'[n].status = "exhausted" =>
       /\ schedule'[n].rule.at \in Instants
       /\ occurrence'[schedule[n].id][schedule'[n].rule.at] # "absent"

RowMove(n) == Kept(n) \/ Gone(n) \/ Created(n) \/ Bumped(n)

\* No occurrence disappears, and one opens only in the commit that advances its
\* schedule.
OccurrenceMove(i, t) ==
  /\ occurrence[i][t] # "absent" => occurrence'[i][t] # "absent"
  /\ occurrence'[i][t] = "open" /\ occurrence[i][t] # "open" =>
       \E n \in Names : Exists(n) /\ schedule[n].id = i /\ Bumped(n)

Moves ==
  /\ nextId' \in {nextId, nextId + 1}
  /\ \A n \in Names : RowMove(n)
  /\ \A i \in Ids, t \in Instants : OccurrenceMove(i, t)

\* The rows an action leaves alone.
LEMMA OtherRows ==
  ASSUME TypeOK, TypeOK', NEW n \in Names, schedule'[n] = schedule[n]
  PROVE  RowMove(n)
BY Zenon DEF RowMove, Kept, Gone, Exists

\* An action that leaves the occurrences alone.
LEMMA OtherOccurrences ==
  ASSUME UNCHANGED occurrence
  PROVE  \A i \in Ids, t \in Instants : OccurrenceMove(i, t)
BY Zenon DEF OccurrenceMove

\* A command writes one row.
LEMMA CommandMoves ==
  ASSUME TypeOK, TypeOK', NEW n \in Names, NEW row, Command(n, row),
         nextId' \in {nextId, nextId + 1}, RowMove(n)
  PROVE  Moves
<1>1. \A m \in Names \ {n} : schedule'[m] = schedule[m]
  BY Zenon DEF TypeOK, Command
<1>2. \A m \in Names : RowMove(m)
  BY <1>1, OtherRows, Zenon
<1> QED
  BY <1>2, OtherOccurrences, Zenon DEF Command, Moves

\* A claim changes no column that Unclaimed keeps.
LEMMA ClaimKept ==
  ASSUME NEW row \in ScheduleRow, NEW owner, NEW expiry
  PROVE  SetClaim(row, owner, expiry) # NoRow /\ Unclaimed(SetClaim(row, owner, expiry)) = Unclaimed(row)
<1> DEFINE claimed == SetClaim(row, owner, expiry)
<1> HIDE DEF claimed
<1>1. claimed = WithClaim(row, owner, expiry)
  BY RowColumns, ClaimColumns, Zenon DEF claimed
<1>2. claimed = WithClaim(claimed, claimed.owner, claimed.expiresAt)
  BY <1>1, Zenon DEF WithClaim
<1>3. WithClaim(claimed, None, NoTime) = WithClaim(row, None, NoTime)
  BY <1>1, Zenon DEF WithClaim
<1>4. \A r : Unclaimed(r) = SetClaim(r, None, NoTime)
  BY Zenon DEF Unclaimed, SetClaim
<1>5. Unclaimed(claimed) = Unclaimed(row)
  BY <1>2, <1>3, <1>4, RowColumns, ClaimColumns
<1>6. claimed.id = row.id /\ NoRow.id = None /\ row.id # None
  BY <1>1, RowsExist, PlannerAssumption, Zenon DEF WithClaim, NoRow
<1> QED
  BY <1>5, <1>6, Zenon DEF claimed

\* Claiming rows keeps every row's definition and version.
LEMMA RunKeeps ==
  ASSUME TypeOK, NEW c \in Cycles, Run(c), NEW n \in Names
  PROVE  schedule'[n] = schedule[n] \/ Kept(n)
<1>1. PICK now \in Readings : \E claimed \in SUBSET Due(now) : Claim(c, now, claimed)
  BY Zenon DEF Run
<1>2. PICK claimed \in SUBSET Due(now) : Claim(c, now, claimed)
  BY <1>1, Zenon
<1>3. CASE n \in claimed
  <2>1. schedule[n] \in ScheduleRow /\ Exists(n)
    BY <1>3, Zenon DEF TypeOK, Due, Exists
  <2>2. schedule'[n] = SetClaim(schedule[n], WorkerOf[c], now + ClaimTTL)
    BY <1>2, <1>3, ZenonT(30) DEF Claim, SetClaim
  <2> QED
    BY <2>1, <2>2, ClaimKept, Zenon DEF Kept
<1>4. CASE n \notin claimed
  BY <1>2, <1>4, Zenon DEF Claim
<1> QED
  BY <1>3, <1>4, Zenon

\* So does giving a claim back.
LEMMA ReleaseKeeps ==
  ASSUME TypeOK, NEW c \in Cycles, ReleaseScheduleClaim(c), NEW n \in Names
  PROVE  schedule'[n] = schedule[n] \/ Kept(n)
<1>1. CASE UNCHANGED schedule
  BY <1>1, Zenon
<1>2. ASSUME NEW m \in Names, MayRelease(c, m), schedule' = [schedule EXCEPT ![m] = Unclaimed(@)]
      PROVE  schedule'[n] = schedule[n] \/ Kept(n)
  <2>1. CASE n = m
    <3>1. schedule'[n] = SetClaim(schedule[n], None, NoTime)
      BY <1>2, <2>1, Zenon DEF TypeOK, Unclaimed, SetClaim
    <3>2. schedule[n] \in ScheduleRow /\ Exists(n)
      BY <1>2, <2>1, Zenon DEF TypeOK, MayRelease, Exists
    <3> QED
      BY <3>1, <3>2, ClaimKept, Zenon DEF Kept
  <2>2. CASE n # m
    BY <1>2, <2>2, Zenon DEF TypeOK
  <2> QED
    BY <2>1, <2>2, Zenon
<1> QED
  BY <1>1, <1>2, Zenon DEF ReleaseScheduleClaim

LEMMA ClaimsMove ==
  ASSUME TypeOK, TypeOK', NEW c \in Cycles, Run(c) \/ ReleaseScheduleClaim(c)
  PROVE  Moves
<1>1. UNCHANGED <<occurrence, nextId>>
  BY Zenon DEF Run, Claim, ReleaseScheduleClaim
<1>2. \A n \in Names : RowMove(n)
  BY RunKeeps, ReleaseKeeps, OtherRows, Zenon DEF RowMove
<1> QED
  BY <1>1, <1>2, OtherOccurrences, Zenon DEF Moves

\* The commit of a materialization advances its row, and leaves an exhausted
\* row only with an occurrence at its run_at.
LEMMA CommitMoves ==
  ASSUME TypeOK, TypeOK', PlannerInv, NEW c \in Cycles, NEW n \in Names, Commit(c, n), UNCHANGED nextId
  PROVE  Moves /\ Bumped(n)
<1> DEFINE i == item[c].id
           plan == PlanSchedule(item[c], observed[c])
<1>1. /\ item[c] \in ScheduleRow /\ item[c] = Unclaimed(schedule[n])
      /\ schedule[n] \in ScheduleRow /\ schedule[n].id = i /\ i \in Ids
      /\ PlanFor(plan, item[c], observed[c])
      /\ \A j \in Ids \ {i} : occurrence'[j] = occurrence[j]
      /\ \A t \in Instants :
           /\ occurrence[i][t] # "absent" => occurrence'[i][t] = occurrence[i][t]
           /\ t \in plan.dispatch \cup plan.skip => occurrence'[i][t] # "absent"
  BY CommitInserts, Zenon
<1>2. Exists(n) /\ pc[c] = "insert"
  BY Zenon DEF Commit
<1>3. schedule'[n] = Advanced(schedule[n], plan.next) /\ \A m \in Names \ {n} : schedule'[m] = schedule[m]
  BY Zenon DEF Commit, TypeOK
<1> HIDE DEF plan
<1>4. /\ schedule'[n] # NoRow /\ schedule'[n].id = i /\ schedule'[n].rule = item[c].rule
      /\ schedule'[n].version = schedule[n].version + 1
  <2> DEFINE row == Row(i, schedule[n].version + 1, schedule[n],
                        IF plan.next = NoTime THEN "exhausted" ELSE schedule[n].status, plan.next)
  <2>1. schedule'[n] = row
    BY <1>1, <1>3, AdvancedRow
  <2>2. row # NoRow /\ row.id = i /\ row.rule = schedule[n].rule /\ row.version = schedule[n].version + 1
    BY <1>1, WrittenColumns
  <2> HIDE DEF row
  <2> QED
    BY <1>1, <2>1, <2>2, UnclaimedRow, Zenon
<1>5. ASSUME schedule'[n].status = "exhausted"
      PROVE  schedule'[n].rule.at \in Instants /\ occurrence'[i][schedule'[n].rule.at] # "absent"
  <2>1. schedule'[n] \in ScheduleRow
    BY <1>4, Zenon DEF TypeOK
  <2>2. IsOnce(item[c])
    BY <2>1, <1>4, <1>5, Zenon DEF ScheduleRow, IsOnce
  <2>3. /\ item[c].status = "active" /\ item[c].nextDueAt <= observed[c]
        /\ observed[c] \in Int /\ observed[c] <= MaxClock
    BY <1>2, PlannerAssumption DEF PlannerInv, HeldCurrent, Held, HeldType, TypeOK
  <2>4. item[c].nextDueAt \in Int /\ item[c].nextDueAt >= 0 /\ item[c].nextDueAt = item[c].rule.at
    BY <1>1, <2>2, <2>3, Zenon DEF ScheduleRow
  <2>5. item[c].rule.at \in plan.dispatch \cup plan.skip
    BY <1>1, <2>4, Zenon DEF PlanFor
  <2>6. item[c].rule.at \in Instants
    BY <2>3, <2>4, PlannerAssumption DEF Instants
  <2> QED
    BY <1>1, <1>4, <2>5, <2>6, Zenon
<1>6. Bumped(n)
  BY <1>1, <1>2, <1>4, <1>5, Zenon DEF Bumped
<1>7. \A m \in Names : RowMove(m)
  BY <1>3, <1>6, OtherRows, Zenon DEF RowMove
<1>8. \A j \in Ids, t \in Instants : OccurrenceMove(j, t)
  BY <1>1, <1>2, <1>6, Zenon DEF OccurrenceMove
<1> QED
  BY <1>6, <1>7, <1>8, Zenon DEF Moves

\* A command that rewrites a row moves its version.
LEMMA RewriteMoves ==
  ASSUME TypeOK, TypeOK', NEW n \in Names, Exists(n), NEW row, Command(n, row), UNCHANGED nextId,
         row # NoRow, row.id = schedule[n].id, row.version = schedule[n].version + 1,
         row.status = "exhausted" =>
           row.rule.at \in Instants /\ occurrence[schedule[n].id][row.rule.at] # "absent"
  PROVE  Moves
<1>1. schedule'[n] = row /\ UNCHANGED occurrence
  BY Zenon DEF Command, TypeOK
<1>2. Bumped(n)
  BY <1>1, Zenon DEF Bumped
<1> QED
  BY <1>2, CommandMoves, Zenon DEF RowMove

\* Every command is one of these moves.
LEMMA CommandsMove ==
  ASSUME TypeOK, TypeOK', PlannerInv, NEW n \in Names,
         Delete(n) \/ Pause(n) \/ Resume(n) \/ \E d \in Definitions : Create(n, d) \/ Update(n, d)
  PROVE  Moves
<1>0. Exists(n) => schedule[n] \in ScheduleRow
  BY Zenon DEF TypeOK, Exists
<1>1. CASE Delete(n)
  <2>1. Command(n, NoRow) /\ UNCHANGED nextId
    BY <1>1, Zenon DEF Delete
  <2>2. RowMove(n)
    BY <2>1, Zenon DEF Command, TypeOK, RowMove, Gone
  <2> QED
    BY <2>1, <2>2, CommandMoves, Zenon
<1>2. CASE Pause(n)
  <2> DEFINE row == WithStatus(schedule[n], "paused", schedule[n].nextDueAt)
  <2>1. Exists(n) /\ Command(n, row) /\ UNCHANGED nextId
    BY <1>2, Zenon DEF Pause
  <2>2. /\ row # NoRow /\ row.id = schedule[n].id /\ row.version = schedule[n].version + 1
        /\ row.status = "paused"
    BY <1>0, <2>1, StatusRow, RowsExist, WrittenColumns
  <2> HIDE DEF row
  <2> QED
    BY <2>1, <2>2, RewriteMoves, Zenon
<1>3. CASE Resume(n)
  <2>1. PICK next : Exists(n) /\ Command(n, WithStatus(schedule[n], "active", next)) /\ UNCHANGED nextId
    BY <1>3, Zenon DEF Resume
  <2> DEFINE row == WithStatus(schedule[n], "active", next)
  <2>2. /\ row # NoRow /\ row.id = schedule[n].id /\ row.version = schedule[n].version + 1
        /\ row.status = "active"
    BY <1>0, <2>1, StatusRow, RowsExist, WrittenColumns
  <2>3. Command(n, row)
    BY <2>1, Zenon
  <2> HIDE DEF row
  <2> QED
    BY <2>1, <2>2, <2>3, RewriteMoves, Zenon
<1>4. ASSUME NEW d \in Definitions, Create(n, d) PROVE Moves
  <2>1. PICK next : Command(n, Row(nextId, 1, d, d.status, next)) /\ ~Exists(n) /\ nextId' = nextId + 1
    BY <1>4, Zenon DEF Create
  <2> DEFINE row == Row(nextId, 1, d, d.status, next)
  <2>2. Command(n, row) /\ row.id = nextId /\ row.status # "exhausted"
    BY <2>1, PlannerAssumption, Zenon DEF Row
  <2> HIDE DEF row
  <2>3. schedule'[n] = row /\ \A m \in Names \ {n} : schedule'[m] = schedule[m]
    BY <2>2, Zenon DEF Command, TypeOK
  <2>4. RowMove(n)
    BY <2>1, <2>2, <2>3, Zenon DEF RowMove, Created
  <2> QED
    BY <2>1, <2>2, <2>4, CommandMoves, Zenon
<1>5. ASSUME NEW d \in Definitions, Update(n, d) PROVE Moves
  <2> DEFINE used == IF schedule[n].status = "exhausted" THEN "exhausted" ELSE d.status
             same == Row(schedule[n].id, schedule[n].version + 1, d, used, schedule[n].nextDueAt)
             other(next) == Row(schedule[n].id, schedule[n].version + 1, d, d.status, next)
  <2>1. Exists(n) /\ UNCHANGED nextId /\ d.status # "exhausted" /\ schedule[n] # NoRow
    BY <1>5, PlannerAssumption, Zenon DEF Update, Exists
  <2>2. CASE SameRunAt(d, schedule[n]) /\ Command(n, same)
    <3>1. /\ same.id = schedule[n].id /\ same.version = schedule[n].version + 1
          /\ same.status = used /\ same.rule = d.rule
      BY Zenon DEF Row
    <3>2. same # NoRow
      <4>1. same.id \in Ids
        BY <1>0, <2>1, <3>1, RowsExist, Zenon
      <4> HIDE DEF same
      <4> QED
        BY <4>1, IdentifiedRow, Zenon
    <3>3. used = "exhausted" =>
            d.rule.at \in Instants /\ occurrence[schedule[n].id][d.rule.at] # "absent"
      BY <2>1, <2>2, Zenon DEF SameRunAt, PlannerInv, ExhaustedInPast, ExhaustedWasRecorded
    <3> HIDE DEF same
    <3> QED
      BY <2>1, <2>2, <3>1, <3>2, <3>3, RewriteMoves, Zenon
  <2>3. ASSUME NEW next, Command(n, other(next)) PROVE Moves
    <3> DEFINE row == other(next)
    <3>1. /\ row.id = schedule[n].id /\ row.version = schedule[n].version + 1 /\ row.status = d.status
      BY Zenon DEF Row
    <3>2. row # NoRow
      <4>1. row.id \in Ids
        BY <1>0, <2>1, <3>1, RowsExist, Zenon
      <4> HIDE DEF row
      <4> QED
        BY <4>1, IdentifiedRow, Zenon
    <3>3. Command(n, row)
      BY <2>3, Zenon
    <3> HIDE DEF row
    <3> QED
      BY <2>1, <3>1, <3>2, <3>3, RewriteMoves, Zenon
  <2> QED
    BY <1>5, <2>2, <2>3, Zenon DEF Update
<1> QED
  BY <1>1, <1>2, <1>3, <1>4, <1>5, Zenon

\* An action that leaves both tables alone.
LEMMA QuietMoves ==
  ASSUME TypeOK, TypeOK', UNCHANGED <<schedule, occurrence, nextId>>
  PROVE  Moves
BY OtherRows, OtherOccurrences, Zenon DEF Moves

\* The dispatcher closes an open occurrence and opens none.
LEMMA CloseMoves ==
  ASSUME TypeOK, TypeOK', NEW i \in Ids, NEW t \in Instants, CloseOccurrence(i, t)
  PROVE  Moves
<1>1. UNCHANGED <<schedule, nextId>>
  BY Zenon DEF CloseOccurrence
<1>2. \A j \in Ids, u \in Instants : occurrence'[j][u] \in {occurrence[j][u], "closed"}
  BY Zenon DEF CloseOccurrence, TypeOK
<1>3. \A j \in Ids, u \in Instants : OccurrenceMove(j, u)
  BY <1>2, Zenon DEF OccurrenceMove
<1> QED
  BY <1>1, <1>3, OtherRows, Zenon DEF Moves

\* Every step is made of these moves.
LEMMA NextMoves ==
  ASSUME TypeOK, TypeOK', PlannerInv, [Next]_vars
  PROVE  Moves
<1>1. ASSUME NEW c \in Cycles, Run(c) \/ ReleaseScheduleClaim(c) PROVE Moves
  BY <1>1, ClaimsMove, Zenon
<1>2. ASSUME NEW c \in Cycles, Plan(c) PROVE Moves
  BY <1>2, QuietMoves, Zenon DEF Plan
<1>3. ASSUME NEW c \in Cycles, Materialize(c) PROVE Moves
  <2>1. UNCHANGED nextId
    BY <1>3, Zenon DEF Materialize
  <2> QED
    BY <1>3, <2>1, MaterializeIsCommit, CommitMoves, QuietMoves, Zenon
<1>4. ASSUME NEW w \in Workers, Crash(w) PROVE Moves
  BY <1>4, QuietMoves, Zenon DEF Crash
<1>5. CASE Tick
  BY <1>5, QuietMoves, Zenon DEF Tick
<1>6. CASE UNCHANGED vars
  BY <1>6, QuietMoves, Zenon DEF vars
<1> QED
  BY <1>1, <1>2, <1>3, <1>4, <1>5, <1>6, CommandsMove, CloseMoves, Zenon DEF Next

-----------------------------------------------------------------------------
(* The invariant.                                                          *)

\* What a claimed row says of the table stays true of it.
LEMMA CurrentKept ==
  ASSUME TypeOK, TypeOK', Moves, NEW row \in ScheduleRow, row.id < nextId, Current(row)
  PROVE  Current(row)'
<1> SUFFICES ASSUME NEW n \in Names, schedule'[n] # NoRow, schedule'[n].id = row.id
             PROVE  /\ row.version <= schedule'[n].version
                    /\ row.version = schedule'[n].version => row = Unclaimed(schedule'[n])
  BY Zenon DEF Current, Exists
<1>1. schedule'[n] \in ScheduleRow /\ (Exists(n) => schedule[n] \in ScheduleRow)
  BY Zenon DEF TypeOK, Exists
<1>2. row.id \in Int /\ row.version \in Nat /\ nextId \in Nat
  BY RowsExist, Zenon DEF TypeOK
<1>3. CASE Kept(n)
  <2>1. schedule'[n].id = schedule[n].id /\ schedule'[n].version = schedule[n].version /\ Exists(n)
    BY <1>1, <1>3, UnclaimedRow DEF Kept
  <2> QED
    BY <1>3, <2>1, Zenon DEF Kept, Current
<1>4. CASE Bumped(n)
  <2>1. row.version <= schedule[n].version /\ schedule'[n].version = schedule[n].version + 1
    BY <1>4, Zenon DEF Bumped, Current
  <2>2. schedule[n].version \in Nat
    BY <1>1, <1>4, RowsExist, Zenon DEF Bumped
  <2> QED
    BY <1>2, <2>1, <2>2
<1>5. CASE Created(n)
  BY <1>2, <1>5 DEF Created
<1> QED
  BY <1>3, <1>4, <1>5, Zenon DEF Moves, RowMove, Gone

\* Row identities stay unique.
LEMMA IdsUniqueStep ==
  ASSUME TypeOK, TypeOK', Moves, IdsUnique
  PROVE  IdsUnique'
<1>1. nextId \in Nat /\ nextId' \in Nat /\ nextId <= nextId'
  BY DEF TypeOK, Moves
<1>2. ASSUME NEW n \in Names, schedule'[n] # NoRow
      PROVE  \/ Exists(n) /\ schedule'[n].id = schedule[n].id /\ schedule[n].id \in Int /\ schedule[n].id < nextId
             \/ Created(n)
  <2>1. schedule'[n] \in ScheduleRow /\ (Exists(n) => schedule[n] \in ScheduleRow)
    BY <1>2, Zenon DEF TypeOK, Exists
  <2>2. CASE Kept(n)
    BY <2>1, <2>2, UnclaimedRow, RowsExist DEF Kept, IdsUnique
  <2>3. CASE Bumped(n)
    BY <2>1, <2>3, RowsExist, Zenon DEF Bumped, IdsUnique
  <2> QED
    BY <1>2, <2>2, <2>3, Zenon DEF Moves, RowMove, Gone
<1>3. ASSUME NEW n \in Names, schedule'[n] # NoRow PROVE schedule'[n].id < nextId'
  <2>1. CASE Created(n)
    BY <1>1, <2>1 DEF Created
  <2>2. CASE ~Created(n)
    BY <1>1, <1>2, <1>3, <2>2
  <2> QED
    BY <2>1, <2>2, Zenon
<1>4. ASSUME NEW m \in Names, NEW n \in Names, schedule'[m] # NoRow, schedule'[n] # NoRow,
             schedule'[m].id = schedule'[n].id
      PROVE  m = n
  <2>1. CASE Created(m) /\ Created(n)
    BY <1>4, <2>1, Zenon DEF Created, Exists
  <2>2. CASE Created(m) /\ ~Created(n)
    <3>1. schedule'[m].id = nextId
      BY <2>2, Zenon DEF Created
    <3>2. schedule'[n].id \in Int /\ schedule'[n].id < nextId
      BY <1>2, <1>4, <2>2, Zenon
    <3> QED
      BY <1>1, <1>4, <3>1, <3>2
  <2>3. CASE ~Created(m) /\ Created(n)
    <3>1. schedule'[n].id = nextId
      BY <2>3, Zenon DEF Created
    <3> QED
      BY <1>1, <1>2, <1>4, <2>3, <3>1
  <2>4. CASE ~Created(m) /\ ~Created(n)
    BY <1>2, <1>4, <2>4, Zenon DEF IdsUnique
  <2> QED
    BY <2>1, <2>2, <2>3, <2>4, Zenon
<1> QED
  BY <1>3, <1>4, Zenon DEF IdsUnique, Exists

\* A cycle that goes on with its next row holds no other row than before.
LEMMA NextItemHeld ==
  ASSUME TypeOK, HeldType, NEW c \in Cycles, NextItem(c), UNCHANGED <<clock, batch>>
  PROVE  /\ HeldType'
         /\ \A k \in Cycles : \A row \in Held(k)' : row \in Held(k) /\ observed'[k] = observed[k]
         /\ pc'[c] # "insert"
         /\ \A k \in Cycles \ {c} : /\ pc'[k] = pc[k] /\ item'[k] = item[k]
                                     /\ open'[k] = open[k] /\ observed'[k] = observed[k]
<1>1. /\ pc'[c] \notin {"insert", "release"}
      /\ observed'[c] = (IF batch[c] = {} THEN NoTime ELSE observed[c])
      /\ item'[c] = NoRow
      /\ \A k \in Cycles \ {c} : /\ pc'[k] = pc[k] /\ item'[k] = item[k]
                                  /\ open'[k] = open[k] /\ observed'[k] = observed[k]
  BY Zenon DEF NextItem, TypeOK, HeldType
<1>2. item' \in [Cycles -> ScheduleRow \cup {NoRow}]
  BY Zenon DEF NextItem, HeldType
<1>3. \A k \in Cycles : observed'[k] <= clock'
  BY <1>1 DEF HeldType, NoTime, TypeOK
<1>4. HeldType'
  BY <1>1, <1>2, <1>3, Zenon DEF HeldType
<1>5. ASSUME NEW k \in Cycles, NEW row, row \in Held(k)' PROVE row \in Held(k) /\ observed'[k] = observed[k]
  <2>1. CASE k = c
    BY <1>1, <1>5, <2>1, Zenon DEF Held
  <2>2. CASE k # c
    BY <1>1, <1>5, <2>2, Zenon DEF Held
  <2> QED
    BY <2>1, <2>2, Zenon
<1> QED
  BY <1>1, <1>4, <1>5, Zenon

\* The rows held after a step were held before it, or have just been claimed.
HeldMove ==
  \A c \in Cycles : \A row \in Held(c)' :
    \/ row \in Held(c) /\ observed'[c] = observed[c]
    \/ \E n \in Due(observed'[c]) : row = Unclaimed(schedule[n])

\* A claim reads due rows at a reading that is not in the future.
LEMMA RunHeld ==
  ASSUME TypeOK, HeldType, NEW c \in Cycles, Run(c)
  PROVE  HeldType' /\ HeldMove
<1>1. PICK now \in Readings : \E claimed \in SUBSET Due(now) : Claim(c, now, claimed)
  BY Zenon DEF Run
<1>2. PICK claimed \in SUBSET Due(now) : Claim(c, now, claimed)
  BY <1>1, Zenon
<1>3. UNCHANGED <<clock, item>> /\ pc[c] = "idle"
  BY <1>2, Zenon DEF Claim, Run
<1>4. CASE UNCHANGED <<batch, observed, pc>>
  BY <1>3, <1>4, Zenon DEF HeldType, HeldMove, Held
<1>5. CASE /\ batch' = [batch EXCEPT ![c] = {Unclaimed(schedule[n]) : n \in claimed}]
           /\ observed' = [observed EXCEPT ![c] = now]
           /\ pc' = [pc EXCEPT ![c] = "plan"]
  <2>1. \A n \in claimed : Unclaimed(schedule[n]) \in ScheduleRow
    BY UnclaimedRow DEF Due, TypeOK, Exists
  <2>2. now \in Int /\ now <= clock
    BY DEF Readings, TypeOK
  <2>3. /\ batch'[c] = {Unclaimed(schedule[n]) : n \in claimed} /\ observed'[c] = now /\ pc'[c] = "plan"
        /\ \A k \in Cycles \ {c} : batch'[k] = batch[k] /\ observed'[k] = observed[k] /\ pc'[k] = pc[k]
    BY <1>5, Zenon DEF HeldType, TypeOK
  <2>4. batch' \in [Cycles -> SUBSET ScheduleRow]
    BY <1>5, <2>1, Zenon DEF HeldType
  <2>5. HeldType'
    BY <1>3, <2>2, <2>3, <2>4, Zenon DEF HeldType
  <2>6. ASSUME NEW k \in Cycles, NEW row, row \in Held(k)'
        PROVE  \/ row \in Held(k) /\ observed'[k] = observed[k]
               \/ \E n \in Due(observed'[k]) : row = Unclaimed(schedule[n])
    <3>1. CASE k = c
      BY <2>3, <2>6, <3>1, Zenon DEF Held
    <3>2. CASE k # c
      BY <1>3, <2>3, <2>6, <3>2, Zenon DEF Held
    <3> QED
      BY <3>1, <3>2, Zenon
  <2> QED
    BY <2>5, <2>6, Zenon DEF HeldMove
<1> QED
  BY <1>2, <1>4, <1>5, Zenon DEF Claim

\* Planning a row takes it out of the batch and into the cycle's hand.
LEMMA PlanHeld ==
  ASSUME TypeOK, HeldType, NEW c \in Cycles, Plan(c)
  PROVE  HeldType' /\ HeldMove
<1>1. PICK row \in batch[c] :
        /\ batch' = [batch EXCEPT ![c] = @ \ {row}]
        /\ item' = [item EXCEPT ![c] = row]
        /\ \E here \in {"release", "insert"} : pc' = [pc EXCEPT ![c] = here]
  BY Zenon DEF Plan
<1>2. UNCHANGED <<clock, observed, schedule>>
  BY Zenon DEF Plan
<1>3. row \in ScheduleRow
  BY Zenon DEF HeldType
<1>4. /\ batch'[c] = batch[c] \ {row} /\ item'[c] = row
      /\ \A k \in Cycles \ {c} : batch'[k] = batch[k] /\ item'[k] = item[k] /\ pc'[k] = pc[k]
  BY <1>1, Zenon DEF HeldType, TypeOK
<1>5. batch' \in [Cycles -> SUBSET ScheduleRow] /\ item' \in [Cycles -> ScheduleRow \cup {NoRow}]
  BY <1>1, <1>3, Zenon DEF HeldType
<1>6. HeldType'
  BY <1>2, <1>3, <1>4, <1>5, Zenon DEF HeldType
<1>7. ASSUME NEW k \in Cycles, NEW r, r \in Held(k)' PROVE r \in Held(k)
  <2>1. CASE k = c
    BY <1>4, <1>7, <2>1, Zenon DEF Held
  <2>2. CASE k # c
    BY <1>4, <1>7, <2>2, Zenon DEF Held
  <2> QED
    BY <2>1, <2>2, Zenon
<1> QED
  BY <1>2, <1>6, <1>7, Zenon DEF HeldMove

\* A crash drops what the cycles of a process hold.
LEMMA CrashHeld ==
  ASSUME TypeOK, HeldType, NEW w \in Workers, Crash(w)
  PROVE  HeldType' /\ HeldMove
<1>1. /\ UNCHANGED clock
      /\ batch' \in [Cycles -> SUBSET ScheduleRow] /\ item' \in [Cycles -> ScheduleRow \cup {NoRow}]
  BY Zenon DEF Crash, HeldType
<1>2. \A c \in Cycles :
        \/ pc'[c] = "idle" /\ observed'[c] = NoTime /\ batch'[c] = {}
        \/ pc'[c] = pc[c] /\ observed'[c] = observed[c] /\ batch'[c] = batch[c] /\ item'[c] = item[c]
  BY Zenon DEF Crash
<1>3. \A c \in Cycles : observed'[c] <= clock'
  BY <1>1, <1>2 DEF HeldType, TypeOK, NoTime
<1>4. HeldType'
  BY <1>1, <1>2, <1>3, Zenon DEF HeldType
<1>5. ASSUME NEW c \in Cycles, NEW row, row \in Held(c)' PROVE row \in Held(c) /\ observed'[c] = observed[c]
  BY <1>2, <1>5, Zenon DEF Held
<1> QED
  BY <1>4, <1>5, Zenon DEF HeldMove

\* No step adds to the rows held but a claim.
LEMMA HeldStep ==
  ASSUME TypeOK, TypeOK', HeldType, [Next]_vars
  PROVE  HeldType' /\ HeldMove
<1>1. CASE UNCHANGED local /\ UNCHANGED clock
  BY <1>1, Zenon DEF local, HeldType, HeldMove, Held
<1>2. CASE Tick
  <2>1. UNCHANGED local /\ clock' = clock + 1 /\ clock < MaxClock
    BY <1>2, Zenon DEF Tick
  <2>2. HeldType'
    <3>1. ASSUME NEW c \in Cycles PROVE observed'[c] <= clock'
      <4>1. observed[c] <= clock /\ observed'[c] = observed[c]
        BY <2>1, Zenon DEF local, HeldType
      <4>2. observed[c] \in Int /\ clock \in Int
        BY DEF TypeOK, NoTime
      <4> QED
        BY <2>1, <4>1, <4>2
    <3>2. clock' <= MaxClock
      <4>1. clock \in Int /\ MaxClock \in Int
        BY PlannerAssumption DEF TypeOK
      <4> QED
        BY <2>1, <4>1
    <3> QED
      BY <2>1, <3>1, <3>2, Zenon DEF local, HeldType
  <2> QED
    BY <2>1, <2>2, Zenon DEF local, HeldMove, Held
<1>3. ASSUME NEW c \in Cycles, Materialize(c) \/ ReleaseScheduleClaim(c) PROVE HeldType' /\ HeldMove
  <2>1. NextItem(c) /\ UNCHANGED <<clock, batch>>
    BY <1>3, Zenon DEF Materialize, ReleaseScheduleClaim
  <2> QED
    BY <2>1, NextItemHeld, Zenon DEF HeldMove
<1>4. ASSUME NEW n \in Names,
             Delete(n) \/ Pause(n) \/ Resume(n) \/ \E d \in Definitions : Create(n, d) \/ Update(n, d)
      PROVE  UNCHANGED local /\ UNCHANGED clock
  BY <1>4, Zenon DEF Delete, Pause, Resume, Create, Update, Command
<1>5. ASSUME NEW i \in Ids, NEW t \in Instants, CloseOccurrence(i, t) PROVE UNCHANGED local /\ UNCHANGED clock
  BY <1>5, Zenon DEF CloseOccurrence
<1>6. UNCHANGED vars => UNCHANGED local /\ UNCHANGED clock
  BY Zenon DEF vars, local
<1> QED
  BY <1>1, <1>2, <1>3, <1>4, <1>5, <1>6, RunHeld, PlanHeld, CrashHeld, Zenon DEF Next

\* Held rows stay current, and a row is current when it is claimed.
LEMMA HeldCurrentStep ==
  ASSUME TypeOK, TypeOK', PlannerInv, Moves, HeldType', HeldMove
  PROVE  HeldCurrent'
<1> SUFFICES ASSUME NEW c \in Cycles, NEW row, row \in Held(c)'
             PROVE  /\ row.id < nextId' /\ row.status = "active"
                    /\ row.nextDueAt <= observed'[c] /\ Current(row)'
  BY Zenon DEF HeldCurrent
<1>1. nextId \in Nat /\ nextId' \in Nat /\ nextId <= nextId'
  BY DEF TypeOK, Moves
<1>2. SUFFICES /\ row \in ScheduleRow /\ row.id < nextId /\ row.status = "active"
               /\ row.nextDueAt <= observed'[c] /\ Current(row)
  BY <1>1, CurrentKept, RowsExist
<1>3. CASE row \in Held(c) /\ observed'[c] = observed[c]
  <2>1. row \in ScheduleRow
    BY <1>3, Zenon DEF PlannerInv, HeldType, Held
  <2> QED
    BY <1>3, <2>1, Zenon DEF PlannerInv, HeldCurrent
<1>4. ASSUME NEW n \in Due(observed'[c]), row = Unclaimed(schedule[n])
      PROVE  /\ row \in ScheduleRow /\ row.id < nextId /\ row.status = "active"
             /\ row.nextDueAt <= observed'[c] /\ Current(row)
  <2>1. /\ n \in Names /\ Exists(n) /\ schedule[n] \in ScheduleRow /\ schedule[n].status = "active"
        /\ schedule[n].nextDueAt <= observed'[c]
    BY Zenon DEF Due, TypeOK, Exists
  <2>2. /\ row \in ScheduleRow /\ row.id = schedule[n].id /\ row.version = schedule[n].version
        /\ row.status = schedule[n].status /\ row.nextDueAt = schedule[n].nextDueAt
    BY <1>4, <2>1, UnclaimedRow, Zenon
  <2>3. \A m \in Names : Exists(m) /\ schedule[m].id = row.id => m = n
    BY <2>1, <2>2, Zenon DEF PlannerInv, IdsUnique
  <2>4. row.version \in Nat
    BY <2>2, RowsExist, Zenon
  <2>5. Current(row)
    BY <1>4, <2>2, <2>3, <2>4 DEF Current
  <2>6. row.id < nextId
    BY <2>1, <2>2, Zenon DEF PlannerInv, IdsUnique
  <2> QED
    BY <2>1, <2>2, <2>5, <2>6, Zenon
<1> QED
  BY <1>3, <1>4, Zenon DEF HeldMove

\* A cycle about to insert was about to with the same plan, or has just planned
\* and read HasOpenOccurrence.
StillInserting(c) ==
  pc[c] = "insert" /\ item'[c] = item[c] /\ open'[c] = open[c] /\ observed'[c] = observed[c]

JustPlanned(c) ==
  /\ UNCHANGED occurrence
  /\ item'[c].overlap = "forbid" /\ ~open'[c] => ~HasOpenOccurrence(item'[c].id)
  /\ PlanSchedule(item'[c], observed'[c]).next # R!NoNext

LEMMA InsertingStep ==
  ASSUME TypeOK, HeldType, [Next]_vars, NEW c \in Cycles, pc'[c] = "insert"
  PROVE  StillInserting(c) \/ JustPlanned(c)
<1>1. CASE UNCHANGED local
  BY <1>1, Zenon DEF local, StillInserting
<1>2. ASSUME NEW k \in Cycles, Run(k) PROVE StillInserting(c)
  BY <1>2, Zenon DEF Run, Claim, TypeOK, StillInserting
<1>3. ASSUME NEW k \in Cycles, Plan(k)
      PROVE  StillInserting(c) \/ JustPlanned(c)
  <2> DEFINE fails(row) == PlanSchedule(row, observed[k]).next = R!NoNext
  <2>0. PICK row :
          /\ item' = [item EXCEPT ![k] = row]
          /\ pc' = [pc EXCEPT ![k] = IF fails(row) THEN "release" ELSE "insert"]
          /\ open' = [open EXCEPT ![k] =
               ~fails(row) /\ row.overlap = "forbid" /\ HasOpenOccurrence(row.id)]
          /\ UNCHANGED <<occurrence, observed>>
    BY <1>3, Zenon DEF Plan
  <2> DEFINE failed == fails(row)
  <2>1. /\ item' = [item EXCEPT ![k] = row]
        /\ pc' = [pc EXCEPT ![k] = IF failed THEN "release" ELSE "insert"]
        /\ open' = [open EXCEPT ![k] =
             ~failed /\ row.overlap = "forbid" /\ HasOpenOccurrence(row.id)]
        /\ UNCHANGED <<occurrence, observed>>
        /\ ~failed => PlanSchedule(row, observed[k]).next # R!NoNext
    BY <2>0, Zenon
  <2> HIDE DEF fails, failed
  <2>2. CASE k = c
    <3>1. item'[c] = row /\ ~failed
      BY <2>1, <2>2, Zenon DEF TypeOK, HeldType
    <3>2. open'[c] = (row.overlap = "forbid" /\ HasOpenOccurrence(row.id))
      BY <2>1, <2>2, <3>1, Zenon DEF TypeOK
    <3>3. PlanSchedule(item'[c], observed'[c]).next # R!NoNext
      BY <2>1, <2>2, <3>1, Zenon
    <3> QED
      BY <2>1, <3>1, <3>2, <3>3, Zenon DEF JustPlanned
  <2>3. CASE k # c
    BY <2>1, <2>3, Zenon DEF TypeOK, HeldType, StillInserting
  <2> QED
    BY <2>2, <2>3, Zenon
<1>4. ASSUME NEW k \in Cycles, Materialize(k) \/ ReleaseScheduleClaim(k)
      PROVE  StillInserting(c)
  <2>1. NextItem(k) /\ UNCHANGED <<clock, batch>>
    BY <1>4, Zenon DEF Materialize, ReleaseScheduleClaim
  <2> QED
    BY <2>1, NextItemHeld, Zenon DEF StillInserting
<1>5. ASSUME NEW w \in Workers, Crash(w) PROVE StillInserting(c)
  BY <1>5, Zenon DEF Crash, StillInserting
<1>6. ASSUME NEW n \in Names,
             Delete(n) \/ Pause(n) \/ Resume(n) \/ \E d \in Definitions : Create(n, d) \/ Update(n, d)
      PROVE  UNCHANGED local
  BY <1>6, Zenon DEF Delete, Pause, Resume, Create, Update, Command
<1>7. ASSUME NEW i \in Ids, NEW t \in Instants, CloseOccurrence(i, t) PROVE UNCHANGED local
  BY <1>7, Zenon DEF CloseOccurrence
<1>8. Tick => UNCHANGED local
  BY Zenon DEF Tick
<1>9. UNCHANGED vars => UNCHANGED local
  BY Zenon DEF vars, local
<1> QED
  BY <1>1, <1>2, <1>3, <1>4, <1>5, <1>6, <1>7, <1>8, <1>9, Zenon DEF Next

\* An answer of HasOpenOccurrence outlives every step that leaves the version.
LEMMA NothingOpenedStep ==
  ASSUME TypeOK, TypeOK', PlannerInv, [Next]_vars, Moves, IdsUnique', HeldType'
  PROVE  NothingOpened'
<1> SUFFICES ASSUME NEW c \in Cycles, pc'[c] = "insert", item'[c].overlap = "forbid", ~open'[c],
                    NEW n \in Names, schedule'[n] # NoRow, schedule'[n].id = item'[c].id,
                    schedule'[n].version = item'[c].version, NEW t \in Instants
             PROVE  occurrence'[item'[c].id][t] # "open"
  BY Zenon DEF NothingOpened, Unmoved, Exists
<1> DEFINE i == item'[c].id
<1>1. item'[c] \in ScheduleRow /\ i \in Ids /\ i \in Int /\ item'[c].version \in Nat
  BY RowsExist, Zenon DEF HeldType
<1>2. CASE JustPlanned(c)
  BY <1>2, Zenon DEF JustPlanned, HasOpenOccurrence
<1>3. CASE StillInserting(c)
  <2>0. pc[c] = "insert" /\ item'[c] = item[c] /\ open'[c] = open[c]
    BY <1>3, Zenon DEF StillInserting
  <2>1. Current(item[c]) /\ i < nextId
    BY <2>0, Zenon DEF PlannerInv, HeldCurrent, Held
  <2>2. ~Created(n)
    <3>1. schedule'[n].id = i
      BY Zenon
    <3>2. nextId \in Int
      BY DEF TypeOK
    <3> QED
      BY <1>1, <2>1, <3>1, <3>2 DEF Created
  <2>3. ASSUME NEW m \in Names, Exists(m), schedule[m].id = i, Bumped(m) PROVE FALSE
    <3>1. schedule'[m].id = i /\ schedule'[m] # NoRow /\ schedule'[m].version = schedule[m].version + 1
      BY <2>3, Zenon DEF Bumped
    <3>2. m = n
      BY <3>1, Zenon DEF IdsUnique, Exists
    <3>3. schedule[m].version \in Nat
      BY <2>3, RowsExist, Zenon DEF TypeOK, Exists
    <3>4. item[c].version <= schedule[m].version
      BY <2>0, <2>1, <2>3, Zenon DEF Current
    <3>5. item[c].version = schedule[m].version + 1
      BY <2>0, <3>1, <3>2, Zenon
    <3> QED
      BY <3>3, <3>4, <3>5
  <2>4. Kept(n)
    BY <2>2, <2>3, ZenonT(30) DEF Moves, RowMove, Gone, Bumped
  <2>5. /\ Exists(n) /\ schedule[n] \in ScheduleRow /\ schedule'[n] \in ScheduleRow
    BY <2>4, Zenon DEF Kept, TypeOK, Exists
  <2>6. schedule[n].id = item[c].id /\ schedule[n].version = item[c].version
    <3>1. Unclaimed(schedule'[n]) = Unclaimed(schedule[n])
      BY <2>4, Zenon DEF Kept
    <3>2. schedule[n].id = schedule'[n].id /\ schedule[n].version = schedule'[n].version
      BY <2>5, <3>1, UnclaimedRow
    <3> QED
      BY <2>0, <3>2, Zenon
  <2>7. occurrence[i][t] # "open"
    BY <2>0, <2>5, <2>6, Zenon DEF PlannerInv, NothingOpened, Unmoved
  <2> QED
    BY <1>1, <2>3, <2>7, Zenon DEF Moves, OccurrenceMove
<1> QED
  BY <1>2, <1>3, InsertingStep, Zenon DEF PlannerInv

\* An exhausted row keeps the occurrence of its run_at.
LEMMA ExhaustedStep ==
  ASSUME TypeOK, TypeOK', PlannerInv, Moves
  PROVE  ExhaustedInPast' /\ ExhaustedWasRecorded'
<1> SUFFICES ASSUME NEW n \in Names, schedule'[n] # NoRow, schedule'[n].status = "exhausted"
             PROVE  /\ schedule'[n].rule.at \in Instants
                    /\ occurrence'[schedule'[n].id][schedule'[n].rule.at] # "absent"
  BY Zenon DEF ExhaustedInPast, ExhaustedWasRecorded, Exists
<1>1. schedule'[n] \in ScheduleRow /\ (Exists(n) => schedule[n] \in ScheduleRow)
  BY Zenon DEF TypeOK, Exists
<1>2. CASE Bumped(n)
  BY <1>2, Zenon DEF Bumped
<1>3. CASE Kept(n)
  <2>1. /\ Exists(n) /\ schedule[n].status = "exhausted" /\ schedule[n].id \in Ids
        /\ schedule'[n].id = schedule[n].id /\ schedule'[n].rule = schedule[n].rule
    BY <1>1, <1>3, UnclaimedRow, RowsExist DEF Kept
  <2>2. /\ schedule[n].rule.at \in Instants
        /\ occurrence[schedule[n].id][schedule[n].rule.at] # "absent"
    BY <2>1, Zenon DEF PlannerInv, ExhaustedInPast, ExhaustedWasRecorded
  <2> QED
    BY <2>1, <2>2, Zenon DEF Moves, OccurrenceMove
<1> QED
  BY <1>2, <1>3, Zenon DEF Moves, RowMove, Gone, Created

\* A plan that is carried out stays the plan that was made.
LEMMA PlanSucceededStep ==
  ASSUME TypeOK, PlannerInv, [Next]_vars
  PROVE  PlanSucceeded'
<1> SUFFICES ASSUME NEW c \in Cycles, pc'[c] = "insert"
             PROVE  PlanSchedule(item'[c], observed'[c]).next # R!NoNext
  BY Zenon DEF PlanSucceeded
<1>1. CASE JustPlanned(c)
  BY <1>1, Zenon DEF JustPlanned
<1>2. CASE StillInserting(c)
  BY <1>2, Zenon DEF StillInserting, PlannerInv, PlanSucceeded
<1> QED
  BY <1>1, <1>2, InsertingStep, Zenon DEF PlannerInv

\* The invariant holds at the start and is kept by every step.
LEMMA PlannerInvariant == Spec => [](TypeOK /\ PlannerInv)
<1>1. Init => TypeOK /\ PlannerInv
  <2> SUFFICES ASSUME Init PROVE TypeOK /\ PlannerInv
    BY Zenon
  <2>1. \A n \in Names : ~Exists(n)
    BY Zenon DEF Init, Exists
  <2>2. \A c \in Cycles : Held(c) = {} /\ InHand(c) = {} /\ pc[c] = "idle"
    BY Zenon DEF Init, Held, InHand
  <2>3. HeldType
    BY PlannerAssumption DEF Init, HeldType, NoTime
  <2>4. PlannerInv
    BY <2>1, <2>2, <2>3, Zenon DEF PlannerInv, IdsUnique, HeldCurrent, NothingOpened, PlanSucceeded,
       ExhaustedInPast, ExhaustedWasRecorded
  <2>5. TablesOK
    BY Zenon DEF Init, TablesOK, OccurrenceStatus
  <2>6. LocalsOK
    BY <2>2 DEF Init, LocalsOK, NoTime
  <2> QED
    BY <2>4, <2>5, <2>6, TypeParts, Zenon
<1>2. TypeOK /\ PlannerInv /\ [Next]_vars => TypeOK' /\ PlannerInv'
  <2> SUFFICES ASSUME TypeOK, PlannerInv, [Next]_vars PROVE TypeOK' /\ PlannerInv'
    BY Zenon
  <2>1. TypeOK'
    BY TypeStep, Zenon
  <2>2. Moves
    BY <2>1, NextMoves, Zenon
  <2>3. HeldType' /\ HeldMove
    BY <2>1, HeldStep, Zenon DEF PlannerInv
  <2>4. IdsUnique'
    BY <2>1, <2>2, IdsUniqueStep, Zenon DEF PlannerInv
  <2>5. HeldCurrent' /\ NothingOpened' /\ PlanSucceeded' /\ ExhaustedInPast' /\ ExhaustedWasRecorded'
    BY <2>1, <2>2, <2>3, <2>4, HeldCurrentStep, NothingOpenedStep, PlanSucceededStep, ExhaustedStep, Zenon
  <2> QED
    BY <2>1, <2>3, <2>4, <2>5, Zenon DEF PlannerInv
<1> QED
  BY <1>1, <1>2, PTL DEF Spec

-----------------------------------------------------------------------------
(* The theorems.                                                           *)

\* Occurrences change only in a commit and when one is closed.
LEMMA WhoChangesOccurrences ==
  ASSUME [Next]_vars
  PROVE  \/ UNCHANGED occurrence
         \/ \E c \in Cycles, n \in Names : Commit(c, n)
         \/ \E i \in Ids, t \in Instants : CloseOccurrence(i, t)
<1>1. ASSUME NEW c \in Cycles, Run(c) \/ Plan(c) \/ ReleaseScheduleClaim(c) PROVE UNCHANGED occurrence
  BY <1>1, ZenonT(30) DEF Run, Claim, Plan, ReleaseScheduleClaim
<1>2. ASSUME NEW n \in Names,
             Delete(n) \/ Pause(n) \/ Resume(n) \/ \E d \in Definitions : Create(n, d) \/ Update(n, d)
      PROVE  UNCHANGED occurrence
  BY <1>2, Zenon DEF Delete, Pause, Resume, Create, Update, Command
<1>3. ASSUME (\E w \in Workers : Crash(w)) \/ Tick \/ UNCHANGED vars PROVE UNCHANGED occurrence
  BY <1>3, Zenon DEF Crash, Tick, vars
<1> QED
  BY <1>1, <1>2, <1>3, MaterializeIsCommit, Zenon DEF Next

\* An occurrence appears only in a commit for its schedule.
LEMMA NewIsCommitted ==
  ASSUME TypeOK, PlannerInv, [Next]_vars, NEW i \in Ids, NEW t \in Instants, New(i, t)
  PROVE  \E c \in Cycles, n \in Names : Commit(c, n) /\ item[c].id = i
<1>1. ASSUME NEW j \in Ids, NEW v \in Instants, CloseOccurrence(j, v) PROVE FALSE
  BY <1>1, Zenon DEF CloseOccurrence, TypeOK, New
<1>2. PICK c \in Cycles, n \in Names : Commit(c, n)
  BY <1>1, WhoChangesOccurrences, Zenon DEF New
<1>3. \A j \in Ids \ {item[c].id} : occurrence'[j] = occurrence[j]
  BY <1>2, CommitInserts, ZenonT(30)
<1>4. item[c].id = i
  BY <1>3, ZenonT(30) DEF New
<1> QED
  BY <1>2, <1>4, Zenon

\* What a commit leaves of the row that it found as it was claimed.
LEMMA CommitAdvances ==
  ASSUME TypeOK, PlannerInv, NEW c \in Cycles, NEW n \in Names, Commit(c, n)
  PROVE  /\ Exists(n) /\ schedule[n] \in ScheduleRow
         /\ schedule[n].id = item[c].id /\ schedule[n].status = "active"
         /\ schedule[n].rule = item[c].rule /\ schedule[n].nextDueAt = item[c].nextDueAt
         /\ schedule'[n] # NoRow /\ schedule'[n].id = item[c].id
         /\ schedule'[n].nextDueAt = PlanSchedule(item[c], observed[c]).next
         /\ schedule'[n].nextDueAt = NoTime => schedule'[n].status = "exhausted"
         /\ \A m \in Names \ {n} : schedule'[m] = schedule[m]
<1> DEFINE next == PlanSchedule(item[c], observed[c]).next
           status == IF next = NoTime THEN "exhausted" ELSE schedule[n].status
<1>1. /\ item[c] = Unclaimed(schedule[n]) /\ schedule[n] \in ScheduleRow
      /\ schedule[n].id = item[c].id /\ item[c].status = "active"
  BY CommitInserts, Zenon
<1>2. /\ schedule'[n] = Advanced(schedule[n], next) /\ Exists(n)
      /\ \A m \in Names \ {n} : schedule'[m] = schedule[m]
  BY Zenon DEF Commit, TypeOK
<1> HIDE DEF next, status
<1>3. /\ schedule[n].status = "active" /\ schedule[n].rule = item[c].rule
      /\ schedule[n].nextDueAt = item[c].nextDueAt
  BY <1>1, UnclaimedRow, Zenon
<1>4. schedule'[n] = Row(schedule[n].id, schedule[n].version + 1, schedule[n], status, next)
  BY <1>1, <1>2, AdvancedRow, ZenonT(30) DEF status
<1>5. /\ schedule'[n].nextDueAt = next /\ schedule'[n].id = schedule[n].id
      /\ schedule'[n] # NoRow /\ schedule'[n].status = status
  BY <1>1, <1>4, RowsExist, WrittenColumns
<1>6. next = NoTime => status = "exhausted"
  BY Zenon DEF status
<1> QED
  BY <1>1, <1>2, <1>3, <1>5, <1>6, ZenonT(30) DEF next

\* What a commit inserts is due, and no longer due after it.
LEMMA FiresWhenDue ==
  ASSUME TypeOK, PlannerInv, [Next]_vars, NEW i \in Ids, NEW t \in Instants, New(i, t)
  PROVE  \E n \in Names :
           /\ Exists(n) /\ schedule[n].id = i /\ schedule[n].status = "active"
           /\ t \in schedule[n].nextDueAt..clock
           /\ schedule'[n] # NoRow /\ schedule'[n].id = i
           /\ schedule'[n].nextDueAt = NoTime => schedule'[n].status = "exhausted"
           /\ (schedule'[n].nextDueAt = NoTime \/ schedule'[n].nextDueAt > t)
<1>1. PICK c \in Cycles, n \in Names : Commit(c, n) /\ item[c].id = i
  BY NewIsCommitted, Zenon
<1> DEFINE plan == PlanSchedule(item[c], observed[c])
<1>2. /\ PlanFor(plan, item[c], observed[c]) /\ plan.next # R!NoNext
      /\ t \in plan.dispatch \cup plan.skip /\ observed[c] \in Int
  BY <1>1, CommitInserts, ZenonT(30) DEF New
<1>3. /\ Exists(n) /\ schedule[n].id = i /\ schedule[n].status = "active"
      /\ schedule[n] \in ScheduleRow /\ schedule[n].nextDueAt = item[c].nextDueAt
      /\ schedule'[n] # NoRow /\ schedule'[n].id = i
      /\ schedule'[n].nextDueAt = NoTime => schedule'[n].status = "exhausted"
      /\ schedule'[n].nextDueAt = plan.next
  BY <1>1, CommitAdvances, Zenon
<1> HIDE DEF plan
<1>4. observed[c] <= clock /\ clock \in Int
  BY DEF PlannerInv, HeldType, TypeOK
<1>5. /\ t \in item[c].nextDueAt..observed[c]
      /\ plan.next = NoTime \/ plan.next > observed[c]
      /\ plan.next \in Int
  BY <1>2 DEF PlanFor, NoTime
<1>6. t \in Int /\ schedule[n].nextDueAt \in Int
  BY <1>3, PlannerAssumption DEF Instants, ScheduleRow
<1>7. t \in schedule[n].nextDueAt..clock /\ (plan.next = NoTime \/ plan.next > t)
  BY <1>2, <1>3, <1>4, <1>5, <1>6
<1> QED
  BY <1>3, <1>7, Zenon

\* No command and no cycle, however stale what it has read, leaves a schedule row
\* that a CHECK constraint of the table would reject.
THEOREM TypeCorrect == Spec => []TypeOK
BY PlannerInvariant, PTL

\* Under overlap_policy forbid, no commit of materialize opens an occurrence next
\* to another open one, whatever ran since HasOpenOccurrence was read.
THEOREM ForbidIsKept == Spec => ForbidNeverOverlaps
<1>1. ASSUME TypeOK, PlannerInv, [Next]_vars
      PROVE  \A n \in Names : Exists(n) /\ schedule[n].overlap = "forbid" =>
               LET i == schedule[n].id IN
               \A t, u \in Instants : New(i, t) /\ occurrence'[i][t] = "open" /\ u # t
                                      => occurrence'[i][u] # "open"
  <2> SUFFICES ASSUME NEW n \in Names, Exists(n), schedule[n].overlap = "forbid",
                      NEW t \in Instants, NEW u \in Instants,
                      New(schedule[n].id, t), occurrence'[schedule[n].id][t] = "open",
                      occurrence'[schedule[n].id][u] = "open"
               PROVE  u = t
    BY <1>1, ZenonT(30)
  <2> DEFINE i == schedule[n].id
  <2>1. schedule[n] \in ScheduleRow /\ i \in Ids
    BY <1>1, RowsExist, Zenon DEF TypeOK, Exists
  <2>2. PICK c \in Cycles, m \in Names : Commit(c, m) /\ item[c].id = i
    BY <1>1, <2>1, NewIsCommitted, Zenon
  <2> DEFINE plan == PlanSchedule(item[c], observed[c])
             new == {v \in plan.dispatch : occurrence[item[c].id][v] = "absent"}
  <2>3. /\ item[c] = Unclaimed(schedule[m]) /\ schedule[m] \in ScheduleRow
        /\ schedule[m].id = item[c].id
        /\ \A j \in Ids \ {item[c].id} : occurrence'[j] = occurrence[j]
        /\ \A v \in Instants :
             /\ occurrence[item[c].id][v] # "absent" =>
                  occurrence'[item[c].id][v] = occurrence[item[c].id][v]
             /\ occurrence[item[c].id][v] = "absent" /\ occurrence'[item[c].id][v] = "open" =>
                  v \in Dispatched(c, plan)
    BY <1>1, <2>2, CommitInserts, ZenonT(30)
  <2> HIDE DEF plan
  <2>4. item[c].id = i
    BY <2>2, Zenon
  <2>5. m = n /\ Exists(m) /\ pc[c] = "insert" /\ schedule[m].version = item[c].version
    BY <1>1, <2>2, <2>3, <2>4, ZenonT(30) DEF Commit, MayAdvance, PlannerInv, IdsUnique
  <2>6. item[c].overlap = "forbid"
    <3>1. Unclaimed(schedule[m]).overlap = schedule[m].overlap
      BY <2>3, UnclaimedRow, ZenonT(30)
    <3> QED
      BY <2>3, <2>5, <3>1, Zenon
  <2>7. t \in Dispatched(c, plan)
    BY <2>3, <2>4, ZenonT(30) DEF New
  <2>8. ~open[c]
    BY <2>6, <2>7, Zenon DEF Dispatched
  <2>9. occurrence[i][u] # "open"
    BY <1>1, <2>3, <2>4, <2>5, <2>6, <2>8, ZenonT(30) DEF PlannerInv, NothingOpened, Unmoved
  <2>10. u \in Dispatched(c, plan)
    BY <2>3, <2>4, <2>9, ZenonT(30)
  <2>11. t <= u /\ u <= t
    BY <2>6, <2>7, <2>10, Zenon DEF Dispatched
  <2>12. t \in Int /\ u \in Int
    BY PlannerAssumption DEF Instants
  <2> QED
    BY <2>11, <2>12
<1> QED
  BY <1>1, PlannerInvariant, PTL DEF Spec, ForbidNeverOverlaps

\* A once schedule is exhausted only together with the occurrence of its run_at,
\* and keeps it through updates, pauses, crashes and stale cycles.
THEOREM ExhaustedIsRecorded == Spec => []ExhaustedWasRecorded
<1>1. PlannerInv => ExhaustedWasRecorded
  BY Zenon DEF PlannerInv
<1> QED
  BY <1>1, PlannerInvariant, PTL


\* An occurrence appears only in the commit that moves an active schedule past
\* its instant, at an instant that is due: what a pause, a delete or an update has
\* overtaken fires nothing.
THEOREM OnlyActiveSchedulesFire == Spec => OnlyActiveFires
<1>1. ASSUME TypeOK, PlannerInv, [Next]_vars
      PROVE  \A i \in Ids, t \in Instants : New(i, t) =>
               \E n \in Names : /\ Exists(n) /\ schedule[n].id = i /\ schedule[n].status = "active"
                                /\ t \in schedule[n].nextDueAt..clock
                                /\ (schedule'[n].nextDueAt = NoTime \/ schedule'[n].nextDueAt > t)
  BY <1>1, FiresWhenDue, Zenon
<1> QED
  BY <1>1, PlannerInvariant, PTL DEF Spec, OnlyActiveFires

-----------------------------------------------------------------------------
(* What is recorded lies behind what is due.                               *)

\* The instants recorded for a row identity.
Recorded(i) == {t \in Instants : occurrence[i][t] # "absent"}

\* A schedule waits for no instant that lies further behind a recorded one than
\* a clock reading lies behind the clock.
RecordedBehind ==
  /\ \A i \in Ids : \A t \in Recorded(i) : t <= clock /\ i < nextId
  /\ \A n \in Names : Exists(n) /\ schedule[n].status # "exhausted" =>
       \A t \in Recorded(schedule[n].id) : t < schedule[n].nextDueAt + MaxLag

\* The due instant that a command leaves: that of a new row, the one the row had,
\* or one computed from a reading of the clock.
Rescheduled(n) ==
  \/ schedule'[n] = NoRow
  \/ ~Exists(n) /\ schedule'[n].id = nextId
  \/ /\ Exists(n) /\ schedule'[n].id = schedule[n].id
     /\ \/ schedule'[n].status = "exhausted"
        \/ schedule[n].status # "exhausted" /\ schedule'[n].nextDueAt = schedule[n].nextDueAt
        \/ clock < schedule'[n].nextDueAt + MaxLag

LEMMA CommandsReschedule ==
  ASSUME TypeOK, NEW n \in Names,
         Delete(n) \/ Pause(n) \/ Resume(n) \/ \E d \in Definitions : Create(n, d) \/ Update(n, d)
  PROVE  /\ UNCHANGED <<clock, occurrence>> /\ commands' = commands + 1
         /\ \A m \in Names \ {n} : schedule'[m] = schedule[m]
         /\ Rescheduled(n)
<1>0. /\ schedule \in [Names -> ScheduleRow \cup {NoRow}] /\ clock \in Nat /\ MaxLag \in Nat
      /\ Exists(n) => schedule[n] \in ScheduleRow
  BY PlannerAssumption, Zenon DEF TypeOK, Exists
<1>1. \A row : Command(n, row) => /\ UNCHANGED <<clock, occurrence>> /\ commands' = commands + 1
                                  /\ \A m \in Names \ {n} : schedule'[m] = schedule[m]
                                  /\ schedule'[n] = row
  BY <1>0, Zenon DEF Command
<1>2. \A i, version, d, status, next :
        LET row == Row(i, version, d, status, next)
        IN row.id = i /\ row.status = status /\ row.nextDueAt = next
  BY WrittenColumns
<1>3. ASSUME NEW rule \in Rules, NEW now \in Readings, FirstDue(rule, now) # R!NoNext
      PROVE  clock < FirstDue(rule, now) + MaxLag
  <2>1. now \in Nat /\ clock <= now + MaxLag
    BY ReadingType, Zenon
  <2>2. FirstDue(rule, now) \in Nat /\ FirstDue(rule, now) > now
    BY <1>3, <2>1, FirstDueType, Zenon
  <2> QED
    BY <1>0, <2>1, <2>2
<1>4. CASE Delete(n)
  BY <1>1, <1>4, Zenon DEF Delete, Rescheduled
<1>5. CASE Pause(n)
  <2> DEFINE row == WithStatus(schedule[n], "paused", schedule[n].nextDueAt)
  <2>1. Exists(n) /\ schedule[n].status # "exhausted" /\ Command(n, row)
    BY <1>5, ZenonT(30) DEF Pause
  <2>2. row.id = schedule[n].id /\ row.nextDueAt = schedule[n].nextDueAt
    BY <1>0, <1>2, <2>1, StatusRow
  <2> HIDE DEF row
  <2> QED
    BY <1>1, <2>1, <2>2, ZenonT(30) DEF Rescheduled
<1>6. CASE Resume(n)
  <2> DEFINE rule == schedule[n].rule
             due(now) == IF rule.kind = "once" THEN rule.at ELSE R!Next(rule, now)
  <2>1. PICK now \in Readings : /\ Exists(n) /\ schedule[n].status # "exhausted" /\ due(now) # R!NoNext
                                /\ Command(n, WithStatus(schedule[n], "active", due(now)))
    BY <1>6, ZenonT(30) DEF Resume
  <2> DEFINE next == due(now)
             row == WithStatus(schedule[n], "active", next)
  <2>2. row.id = schedule[n].id /\ row.nextDueAt = next
    BY <1>0, <1>2, <2>1, StatusRow
  <2>3. rule \in Rules /\ (rule.kind = "once" => schedule[n].nextDueAt = rule.at)
    BY <1>0, <2>1, RowDefines, Zenon DEF Defines, IsOnce
  <2>4. rule.kind # "once" => next = FirstDue(rule, now)
    BY Zenon DEF FirstDue
  <2>5. Command(n, row) /\ next # R!NoNext
    BY <2>1, Zenon
  <2>6. rule.kind = "once" => next = rule.at
    BY Zenon
  <2> HIDE DEF row, next
  <2>7. next = schedule[n].nextDueAt \/ clock < next + MaxLag
    BY <1>3, <2>3, <2>4, <2>5, <2>6, Zenon
  <2> QED
    BY <1>1, <2>1, <2>2, <2>5, <2>7, Zenon DEF Rescheduled
<1>7. ASSUME NEW d \in Definitions, Create(n, d)
      PROVE  /\ UNCHANGED <<clock, occurrence>> /\ commands' = commands + 1
             /\ \A m \in Names \ {n} : schedule'[m] = schedule[m]
             /\ Rescheduled(n)
  <2>1. PICK next : Command(n, Row(nextId, 1, d, d.status, next)) /\ ~Exists(n)
    BY <1>7, Zenon DEF Create
  <2> QED
    BY <1>1, <1>2, <2>1 DEF Rescheduled
<1>8. ASSUME NEW d \in Definitions, Update(n, d)
      PROVE  /\ UNCHANGED <<clock, occurrence>> /\ commands' = commands + 1
             /\ \A m \in Names \ {n} : schedule'[m] = schedule[m]
             /\ Rescheduled(n)
  <2> DEFINE old == schedule[n]
             used == IF old.status = "exhausted" THEN "exhausted" ELSE d.status
             same == Row(old.id, old.version + 1, d, used, old.nextDueAt)
             other(now) == Row(old.id, old.version + 1, d, d.status, FirstDue(d.rule, now))
  <2>1. Exists(n) /\ d.rule \in Rules
    BY <1>8, ZenonT(30) DEF Update, Rules
  <2>2. CASE Command(n, same)
    <3>1. same.id = old.id /\ same.nextDueAt = old.nextDueAt /\ same.status = used
      BY <1>2
    <3>2. used = "exhausted" \/ old.status # "exhausted"
      BY Zenon
    <3> HIDE DEF same, used
    <3> QED
      BY <1>1, <2>1, <2>2, <3>1, <3>2, ZenonT(30) DEF Rescheduled
  <2>3. ASSUME NEW now \in Readings, FirstDue(d.rule, now) # R!NoNext, Command(n, other(now))
        PROVE  /\ UNCHANGED <<clock, occurrence>> /\ commands' = commands + 1
               /\ \A m \in Names \ {n} : schedule'[m] = schedule[m]
               /\ Rescheduled(n)
    <3> DEFINE row == other(now)
    <3>1. row.id = old.id /\ row.nextDueAt = FirstDue(d.rule, now)
      BY <1>2
    <3>2. clock < FirstDue(d.rule, now) + MaxLag
      BY <1>3, <2>1, <2>3, Zenon
    <3>3. Command(n, row)
      BY <2>3, ZenonT(30)
    <3> HIDE DEF row
    <3> QED
      BY <1>1, <2>1, <3>1, <3>2, <3>3, ZenonT(30) DEF Rescheduled
  <2> QED
    BY <1>8, <2>2, <2>3, Zenon DEF Update
<1> QED
  BY <1>4, <1>5, <1>6, <1>7, <1>8, ZenonT(30)

\* A row changes in a command, in the commit of a plan for it, or in its claim.
LEMMA WhoMovesRows ==
  ASSUME TypeOK, [Next]_vars, NEW n \in Names
  PROVE  \/ schedule'[n] = schedule[n] \/ Kept(n)
         \/ \E c \in Cycles : Commit(c, n)
         \/ Delete(n) \/ Pause(n) \/ Resume(n) \/ \E d \in Definitions : Create(n, d) \/ Update(n, d)
<1>1. ASSUME NEW c \in Cycles, Run(c) \/ ReleaseScheduleClaim(c)
      PROVE  schedule'[n] = schedule[n] \/ Kept(n)
  BY <1>1, RunKeeps, ReleaseKeeps, Zenon
<1>2. ASSUME NEW c \in Cycles, Materialize(c)
      PROVE  schedule'[n] = schedule[n] \/ \E k \in Cycles : Commit(k, n)
  <2>1. ASSUME NEW m \in Names, Commit(c, m), m # n PROVE schedule'[n] = schedule[n]
    BY <2>1, Zenon DEF Commit, TypeOK
  <2> QED
    BY <1>2, <2>1, MaterializeIsCommit, Zenon
<1>3. ASSUME NEW m \in Names, m # n,
             Delete(m) \/ Pause(m) \/ Resume(m) \/ \E d \in Definitions : Create(m, d) \/ Update(m, d)
      PROVE  schedule'[n] = schedule[n]
  BY <1>3, CommandsReschedule, Zenon
<1>4. ASSUME \/ \E c \in Cycles : Plan(c)
             \/ \E i \in Ids, t \in Instants : CloseOccurrence(i, t)
             \/ \E w \in Workers : Crash(w)
             \/ Tick \/ UNCHANGED vars
      PROVE  schedule'[n] = schedule[n]
  BY <1>4, Zenon DEF Plan, CloseOccurrence, Crash, Tick, vars
<1> QED
  BY <1>1, <1>2, <1>3, <1>4, Zenon DEF Next

\* The clock does not go back.
LEMMA ClockStep ==
  ASSUME TypeOK, [Next]_vars
  PROVE  clock \in Nat /\ clock' \in Nat /\ clock <= clock'
<1>1. \A c \in Cycles : Run(c) \/ Plan(c) \/ Materialize(c) \/ ReleaseScheduleClaim(c) => UNCHANGED clock
  BY ZenonT(30) DEF Run, Claim, Plan, Materialize, ReleaseScheduleClaim
<1>2. \A n \in Names :
        Delete(n) \/ Pause(n) \/ Resume(n) \/ (\E d \in Definitions : Create(n, d) \/ Update(n, d))
          => UNCHANGED clock
  BY CommandsReschedule, Zenon
<1>3. (\E i \in Ids, t \in Instants : CloseOccurrence(i, t)) \/ (\E w \in Workers : Crash(w)) \/ UNCHANGED vars
        => UNCHANGED clock
  BY ZenonT(30) DEF CloseOccurrence, Crash, vars
<1>4. clock \in Nat
  BY Zenon DEF TypeOK
<1>5. Tick => clock' = clock + 1
  BY Zenon DEF Tick
<1>6. UNCHANGED clock \/ clock' = clock + 1
  BY <1>1, <1>2, <1>3, <1>5, Zenon DEF Next
<1> QED
  BY <1>4, <1>6

LEMMA RecordedBehindStep ==
  ASSUME TypeOK, TypeOK', PlannerInv, PlannerInv', [Next]_vars, Moves, RecordedBehind
  PROVE  RecordedBehind'
<1>0. /\ clock \in Nat /\ clock' \in Nat /\ clock <= clock' /\ MaxLag \in Nat
      /\ nextId \in Nat /\ nextId' \in Nat /\ nextId <= nextId'
      /\ Ids \subseteq Int /\ Instants \subseteq Int
  BY ClockStep, PlannerAssumption DEF TypeOK, Moves, Instants
<1>1. ASSUME NEW i \in Ids, NEW t \in Instants, New(i, t)
      PROVE  \E n \in Names :
               /\ Exists(n) /\ schedule[n].id = i /\ t \in Int /\ t <= clock
               /\ schedule'[n] # NoRow /\ schedule'[n].id = i
               /\ schedule'[n].status = "exhausted" \/ schedule'[n].nextDueAt > t
  BY <1>0, <1>1, FiresWhenDue
<1>2. ASSUME NEW i \in Ids, NEW t \in Instants, occurrence'[i][t] # "absent"
      PROVE  t <= clock' /\ i < nextId'
  <2>1. CASE New(i, t)
    <3>1. \E n \in Names : Exists(n) /\ schedule[n].id = i /\ t \in Int /\ t <= clock
      BY <1>1, <2>1, Zenon
    <3>2. i < nextId
      BY <3>1, Zenon DEF PlannerInv, IdsUnique
    <3> QED
      BY <1>0, <3>1, <3>2
  <2>2. CASE ~New(i, t)
    <3>1. t \in Recorded(i) /\ t \in Int
      BY <1>0, <1>2, <2>2, Zenon DEF Recorded, New
    <3>2. t <= clock /\ i < nextId
      BY <3>1, Zenon DEF RecordedBehind
    <3> QED
      BY <1>0, <3>1, <3>2
  <2> QED
    BY <2>1, <2>2, Zenon
<1>3. ASSUME NEW n \in Names, schedule'[n] # NoRow, schedule'[n].status # "exhausted",
             NEW t \in Instants, occurrence'[schedule'[n].id][t] # "absent"
      PROVE  t < schedule'[n].nextDueAt + MaxLag
  <2> DEFINE i == schedule'[n].id
  <2>1. /\ schedule'[n] \in ScheduleRow /\ i \in Ids /\ schedule'[n].nextDueAt \in Int
        /\ t \in Int
    BY <1>0, <1>3, RowsExist, ZenonT(30) DEF TypeOK, ScheduleRow
  <2>2. CASE New(i, t)
    <3>1. PICK m \in Names : /\ schedule'[m] # NoRow /\ schedule'[m].id = i
                             /\ schedule'[m].status = "exhausted" \/ schedule'[m].nextDueAt > t
      BY <1>1, <2>1, <2>2, Zenon
    <3>2. m = n
      BY <1>3, <3>1, Zenon DEF PlannerInv, IdsUnique, Exists
    <3> QED
      BY <1>0, <1>3, <2>1, <3>1, <3>2
  <2>3. CASE ~New(i, t)
    <3>1. t \in Recorded(i) /\ t <= clock /\ i < nextId
      BY <1>3, <2>1, <2>3, Zenon DEF Recorded, New, RecordedBehind
    <3>2. Exists(n) => schedule[n] \in ScheduleRow /\ schedule[n].nextDueAt \in Int
      BY ZenonT(30) DEF TypeOK, Exists, ScheduleRow
    <3>3. ASSUME Exists(n), schedule[n].id = i, schedule[n].status # "exhausted"
          PROVE  t < schedule[n].nextDueAt + MaxLag
      BY <3>1, <3>3, Zenon DEF RecordedBehind
    <3>4. CASE schedule'[n] = schedule[n]
      BY <1>3, <3>3, <3>4, Zenon DEF Exists
    <3>5. CASE Kept(n)
      <4>1. /\ Exists(n) /\ schedule[n].id = i /\ schedule[n].status = schedule'[n].status
            /\ schedule[n].nextDueAt = schedule'[n].nextDueAt
        BY <2>1, <3>2, <3>5, UnclaimedRow DEF Kept
      <4> QED
        BY <1>3, <3>3, <4>1, Zenon
    <3>6. ASSUME NEW c \in Cycles, Commit(c, n) PROVE t < schedule'[n].nextDueAt + MaxLag
      <4> DEFINE plan == PlanSchedule(item[c], observed[c])
      <4>1. /\ Exists(n) /\ schedule[n].id = i /\ schedule[n].status = "active"
            /\ schedule[n].nextDueAt = item[c].nextDueAt
            /\ schedule'[n].nextDueAt = plan.next /\ plan.next # NoTime
        BY <1>3, <3>6, CommitAdvances, ZenonT(30)
      <4>2. /\ PlanFor(plan, item[c], observed[c]) /\ plan.next # R!NoNext
            /\ item[c].nextDueAt <= observed[c] /\ observed[c] \in Int
        BY <3>6, CommitInserts, Zenon
      <4> HIDE DEF plan
      <4>3. plan.next \in Nat /\ plan.next > observed[c]
        BY <4>1, <4>2, Zenon DEF PlanFor
      <4> QED
        BY <1>0, <2>1, <3>2, <3>3, <4>1, <4>2, <4>3
    <3>7. CASE Rescheduled(n)
      <4>1. CASE ~Exists(n) /\ i = nextId
        BY <1>0, <2>1, <3>1, <4>1
      <4>2. CASE Exists(n) /\ i = schedule[n].id
        <5>1. CASE schedule[n].status # "exhausted" /\ schedule'[n].nextDueAt = schedule[n].nextDueAt
          BY <3>3, <4>2, <5>1, Zenon
        <5>2. CASE clock < schedule'[n].nextDueAt + MaxLag
          BY <1>0, <2>1, <3>1, <5>2
        <5> QED
          BY <1>3, <3>7, <4>2, <5>1, <5>2, Zenon DEF Rescheduled
      <4> QED
        BY <1>3, <3>7, <4>1, <4>2, Zenon DEF Rescheduled
    <3> QED
      BY <3>4, <3>5, <3>6, <3>7, WhoMovesRows, CommandsReschedule, Zenon
  <2> QED
    BY <2>2, <2>3, Zenon
<1> QED
  BY <1>2, <1>3, Zenon DEF RecordedBehind, Recorded, Exists

LEMMA RecordedInvariant == Spec => [](TypeOK /\ PlannerInv /\ RecordedBehind)
<1>1. Init => RecordedBehind
  BY DEF Init, RecordedBehind, Recorded, Exists
<1>2. ASSUME TypeOK, TypeOK', PlannerInv, PlannerInv', [Next]_vars, RecordedBehind
      PROVE  RecordedBehind'
  BY <1>2, NextMoves, RecordedBehindStep, Zenon
<1> QED
  BY <1>1, <1>2, PlannerInvariant, PTL DEF Spec

\* No command and no late plan takes the due instant of a schedule back behind
\* what InsertOccurrence recorded for it by more than the staleness of a clock
\* reading, whatever updates, resumes and overlapping cycles came before.
THEOREM DueFollowsRecorded == Spec => []RecordedBehindDue
<1>1. RecordedBehind => RecordedBehindDue
  BY Zenon DEF RecordedBehind, RecordedBehindDue, Recorded
<1> QED
  BY <1>1, RecordedInvariant, PTL

-----------------------------------------------------------------------------
(* No unrecorded skip.                                                     *)

\* The catch-up bound of every definition covers the lag of a clock reading.
LagWithinBound == \A d \in Definitions : d.misfire = "catch_up_bounded" => MaxLag <= d.limit

WithinBound(row) == row.misfire = "catch_up_bounded" => MaxLag <= row.limit

LagBounded == \A n \in Names : Exists(n) => WithinBound(schedule[n])

\* Writing a row takes the policy of a definition or keeps that of the row.
LEMMA PolicyWritten ==
  ASSUME NEW i, NEW version, NEW d, NEW status, NEW next
  PROVE  WithinBound(Row(i, version, d, status, next)) <=> WithinBound(d)
BY Zenon DEF Row, WithinBound

LEMMA UnclaimedPolicy ==
  ASSUME NEW row \in ScheduleRow
  PROVE  /\ Unclaimed(row).misfire = row.misfire /\ Unclaimed(row).limit = row.limit
         /\ WithinBound(Unclaimed(row)) <=> WithinBound(row)
<1>1. Unclaimed(row) = Row(row.id, row.version, row, row.status, row.nextDueAt)
  BY UnclaimedColumns, Zenon
<1>2. Unclaimed(row).misfire = row.misfire /\ Unclaimed(row).limit = row.limit
  BY <1>1 DEF Row
<1> QED
  BY <1>2, Zenon DEF WithinBound

LEMMA LagBoundedStep ==
  ASSUME LagWithinBound, TypeOK, TypeOK', PlannerInv, [Next]_vars, LagBounded
  PROVE  LagBounded'
<1> SUFFICES ASSUME NEW n \in Names, schedule'[n] # NoRow PROVE WithinBound(schedule'[n])
  BY Zenon DEF LagBounded, WithinBound, Exists
<1>1. /\ schedule'[n] \in ScheduleRow
      /\ Exists(n) => schedule[n] \in ScheduleRow /\ WithinBound(schedule[n])
  BY Zenon DEF TypeOK, Exists, LagBounded
<1>2. \A d \in Definitions : WithinBound(d)
  BY Zenon DEF LagWithinBound, WithinBound
<1>3. CASE schedule'[n] = schedule[n]
  BY <1>1, <1>3, Zenon DEF Exists
<1>4. CASE Kept(n)
  BY <1>1, <1>4, UnclaimedPolicy, Zenon DEF Kept
<1>5. ASSUME NEW c \in Cycles, Commit(c, n) PROVE WithinBound(schedule'[n])
  <2> DEFINE next == PlanSchedule(item[c], observed[c]).next
  <2>1. schedule'[n] = Advanced(schedule[n], next) /\ Exists(n)
    BY <1>5, Zenon DEF Commit, TypeOK
  <2> HIDE DEF next
  <2> QED
    BY <1>1, <2>1, AdvancedRow, PolicyWritten
<1>6. ASSUME Delete(n) \/ Pause(n) \/ Resume(n) \/ \E d \in Definitions : Create(n, d) \/ Update(n, d)
      PROVE  WithinBound(schedule'[n])
  <2>1. \A row : Command(n, row) => schedule'[n] = row
    BY Zenon DEF Command, TypeOK
  <2>2. ASSUME NEW status, NEW next, Exists(n), Command(n, WithStatus(schedule[n], status, next))
        PROVE  WithinBound(schedule'[n])
    BY <1>1, <2>1, <2>2, StatusRow, PolicyWritten
  <2>3. ASSUME NEW i, NEW version, NEW d \in Definitions, NEW status, NEW next,
               Command(n, Row(i, version, d, status, next))
        PROVE  WithinBound(schedule'[n])
    BY <1>2, <2>1, <2>3, PolicyWritten, Zenon
  <2>4. Command(n, NoRow) => FALSE
    BY <2>1, Zenon
  <2> QED
    BY <1>6, <2>2, <2>3, <2>4, ZenonT(30) DEF Delete, Pause, Resume, Create, Update
<1> QED
  BY <1>3, <1>4, <1>5, <1>6, WhoMovesRows, ZenonT(30)

LEMMA LagInvariant ==
  ASSUME LagWithinBound
  PROVE  Spec => []LagBounded
<1>1. Init => LagBounded
  BY Zenon DEF Init, LagBounded, Exists
<1>2. ASSUME TypeOK, TypeOK', PlannerInv, [Next]_vars, LagBounded PROVE LagBounded'
  BY <1>2, LagBoundedStep, Zenon
<1> QED
  BY <1>1, <1>2, PlannerInvariant, PTL DEF Spec

\* Only the planner's commit moves a due instant without a command.
LEMMA MovedByCommit ==
  ASSUME TypeOK, TypeOK', [Next]_vars, NEW n \in Names, Moved(n)
  PROVE  \E c \in Cycles : Commit(c, n)
<1>1. Exists(n) /\ schedule[n] \in ScheduleRow /\ commands' = commands /\ commands \in Nat
  BY Zenon DEF Moved, TypeOK, Exists
<1>2. schedule'[n] # schedule[n]
  BY Zenon DEF Moved
<1>3. ASSUME Kept(n) PROVE FALSE
  <2>1. schedule'[n] \in ScheduleRow
    BY <1>3, Zenon DEF Kept, TypeOK
  <2> QED
    BY <1>1, <1>3, <2>1, UnclaimedRow DEF Kept, Moved
<1>4. commands' # commands + 1
  BY <1>1
<1> QED
  BY <1>2, <1>3, <1>4, WhoMovesRows, CommandsReschedule, ZenonT(30)

\* AdvanceSchedule moves a schedule past a due instant only together with an
\* occurrence for it and, under catch_up_bounded, for every later instant that it
\* passes or for the first one beyond the bound, as long as clock readings do not
\* lag further than the bound.
THEOREM NoUnrecordedSkip ==
  ASSUME LagWithinBound
  PROVE  Spec => DueAccounted
<1>1. ASSUME TypeOK, TypeOK', PlannerInv, RecordedBehind, LagBounded, [Next]_vars
      PROVE  \A n \in Names : Moved(n) =>
               LET row == schedule[n]
                   recorded == occurrence'[row.id]
               IN /\ recorded[row.nextDueAt] # "absent"
                  /\ ~IsOnce(row) => schedule'[n].nextDueAt > row.nextDueAt
                  /\ ~IsOnce(row) /\ row.misfire = "catch_up_bounded" =>
                       \A t \in Between(row.rule, row.nextDueAt, schedule'[n].nextDueAt) :
                         \E u \in row.nextDueAt..t :
                           recorded[u] # "absent" /\ (u = t \/ recorded[u] = "bound_exceeded")
  <2> SUFFICES ASSUME NEW n \in Names, Moved(n)
               PROVE  LET row == schedule[n]
                          recorded == occurrence'[row.id]
                      IN /\ recorded[row.nextDueAt] # "absent"
                         /\ ~IsOnce(row) => schedule'[n].nextDueAt > row.nextDueAt
                         /\ ~IsOnce(row) /\ row.misfire = "catch_up_bounded" =>
                              \A t \in Between(row.rule, row.nextDueAt, schedule'[n].nextDueAt) :
                                \E u \in row.nextDueAt..t :
                                  recorded[u] # "absent" /\ (u = t \/ recorded[u] = "bound_exceeded")
    BY Zenon
  <2>1. PICK c \in Cycles : Commit(c, n)
    BY <1>1, MovedByCommit, Zenon
  <2> DEFINE row == schedule[n]
             recorded == occurrence'[row.id]
             due == row.nextDueAt
             now == observed[c]
             plan == PlanSchedule(item[c], now)
  <2>2. /\ item[c] \in ScheduleRow /\ item[c] = Unclaimed(row) /\ row \in ScheduleRow
        /\ item[c].id = row.id /\ row.id \in Ids
        /\ PlanFor(plan, item[c], now) /\ plan.next # R!NoNext
        /\ item[c].status = "active" /\ item[c].nextDueAt <= now /\ now \in Int
        /\ \A t \in Instants :
             /\ t \in plan.dispatch \cup plan.skip => recorded[t] # "absent"
             /\ occurrence[row.id][t] = "absent" /\ t \in plan.skip \ plan.dispatch =>
                  recorded[t] = plan.code
    <3> DEFINE i == item[c].id
    <3>1. /\ item[c] \in ScheduleRow /\ item[c] = Unclaimed(row) /\ row \in ScheduleRow
          /\ row.id = i /\ i \in Ids
          /\ PlanFor(plan, item[c], now) /\ plan.next # R!NoNext
          /\ item[c].status = "active" /\ item[c].nextDueAt <= now /\ now \in Int
      BY <1>1, <2>1, CommitInserts, Zenon
    <3>2. \A t \in Instants :
            /\ t \in plan.dispatch \cup plan.skip => occurrence'[i][t] # "absent"
            /\ occurrence[i][t] = "absent" /\ t \in plan.skip \ plan.dispatch =>
                 occurrence'[i][t] = plan.code
      BY <1>1, <2>1, CommitInserts, Zenon
    <3> HIDE DEF plan, now
    <3>3. recorded = occurrence'[i] /\ occurrence[row.id] = occurrence[i]
      BY <3>1, Zenon
    <3> HIDE DEF row, recorded
    <3> QED
      BY <3>1, <3>2, <3>3, Zenon
  <2>3. /\ Exists(n) /\ row.status = "active" /\ row.rule = item[c].rule /\ due = item[c].nextDueAt
        /\ schedule'[n].nextDueAt = plan.next
    BY <1>1, <2>1, CommitAdvances, Zenon
  <2>4. row.misfire = item[c].misfire /\ row.limit = item[c].limit /\ (IsOnce(row) <=> IsOnce(item[c]))
    BY <2>2, <2>3, UnclaimedPolicy, ZenonT(30) DEF IsOnce
  <2> HIDE DEF plan, recorded, now
  <2>5. due \in Nat /\ due..now \subseteq Instants
    <3>1. now <= MaxClock
      BY <1>1, <2>2, PlannerAssumption DEF now, PlannerInv, HeldType, TypeOK
    <3>2. due \in Nat
      BY <2>2, <2>3, RowDefines, ZenonT(30)
    <3> QED
      BY <2>2, <3>1, <3>2, PlannerAssumption DEF Instants
  <2>6. /\ due \in plan.dispatch \cup plan.skip /\ plan.dispatch \cup plan.skip \subseteq due..now
        /\ ~IsOnce(row) => plan.next \in Nat /\ plan.next > now
    BY <2>2, <2>3, <2>4, ZenonT(30) DEF PlanFor
  <2>7. recorded[due] # "absent"
    BY <2>2, <2>5, <2>6, ZenonT(30)
  <2>8. ~IsOnce(row) => plan.next > due
    <3>1. due <= now /\ now \in Int
      BY <2>2, <2>3, Zenon
    <3> HIDE DEF due
    <3>2. ASSUME ~IsOnce(row) PROVE plan.next \in Nat /\ plan.next > now
      BY <2>6, <3>2, Zenon
    <3> QED
      BY <2>5, <3>1, <3>2
  <2>9. ASSUME ~IsOnce(row), row.misfire = "catch_up_bounded", NEW t \in Between(row.rule, due, plan.next)
        PROVE  \E u \in due..t :
                 recorded[u] # "absent" /\ (u = t \/ recorded[u] = "bound_exceeded")
    <3>1. /\ t \in Nat
          /\ \/ t \in plan.dispatch
             \/ /\ plan.code = "bound_exceeded"
                /\ \E u \in plan.skip \ plan.dispatch : u <= t /\ due + row.limit <= u
      <4>1. Behind(item[c], now)
        BY <2>2, <2>4, <2>9, ZenonT(30) DEF Behind
      <4>2. item[c].misfire = "catch_up_bounded" /\ PlanSchedule(item[c], now).next # R!NoNext
        BY <2>2, <2>4, <2>9, ZenonT(30) DEF plan
      <4>3. \A v \in Between(item[c].rule, item[c].nextDueAt, plan.next) :
              /\ v \in Nat
              /\ \/ v \in plan.dispatch
                 \/ /\ plan.code = "bound_exceeded"
                    /\ \E u \in plan.skip \ plan.dispatch :
                         u <= v /\ item[c].nextDueAt + item[c].limit <= u
        BY <4>1, <4>2, CatchUpCovers, ZenonT(30) DEF plan
      <4> QED
        BY <2>3, <2>4, <4>3, ZenonT(30)
    <3>2. CASE t \in plan.dispatch
      <4>1. t \in due..now /\ t \in due..t
        BY <2>5, <2>6, <3>1, <3>2
      <4> QED
        BY <2>2, <2>5, <3>2, <4>1, Zenon
    <3>3. ASSUME plan.code = "bound_exceeded", NEW u \in plan.skip \ plan.dispatch,
                 u <= t, due + row.limit <= u
          PROVE  u \in due..t /\ recorded[u] = "bound_exceeded"
      <4>1. u \in due..now /\ u \in Instants /\ u \in Int
        BY <2>5, <2>6, <3>3
      <4>2. MaxLag <= row.limit /\ MaxLag \in Nat /\ row.limit \in Nat
        BY <1>1, <2>2, <2>3, <2>9, PlannerAssumption, ZenonT(30) DEF LagBounded, WithinBound, ScheduleRow
      <4>3. \A v \in Recorded(row.id) : v < due + MaxLag
        BY <1>1, <2>3, ZenonT(30) DEF RecordedBehind
      <4>4. u \notin Recorded(row.id)
        BY <2>5, <3>3, <4>1, <4>2, <4>3
      <4>5. occurrence[row.id][u] = "absent"
        BY <4>1, <4>4, Zenon DEF Recorded
      <4> QED
        BY <2>2, <3>1, <3>3, <4>1, <4>5
    <3> QED
      BY <3>1, <3>2, <3>3, Zenon
  <2> QED
    BY <2>3, <2>7, <2>8, <2>9, ZenonT(30) DEF recorded
<1> QED
  BY <1>1, RecordedInvariant, LagInvariant, PTL DEF Spec, DueAccounted
=============================================================================
