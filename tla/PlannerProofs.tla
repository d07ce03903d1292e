--------------------------- MODULE PlannerProofs ----------------------------
(***************************************************************************)
(* The rows of the schedule table: what a bounded catch-up goes through,   *)
(* what every write leaves in a row, and that no step, of whatever command *)
(* or cycle, leaves one that a CHECK constraint would reject.  Proved for  *)
(* any names, definitions, workers and cycles.  A type step needs the      *)
(* invariant below, which PlannerSafety proves together with it.           *)
(***************************************************************************)
EXTENDS Planner, NumberLemmas, TLAPS

\* The rows a cycle has claimed and not yet dealt with.
Held(c) == batch[c] \cup (IF pc[c] \in {"insert", "release"} THEN {item[c]} ELSE {})

\* A claimed row is the row in the table, except for its claim, as long as the
\* versions are equal; the table's is never the older one.
Current(row) ==
  \A n \in Names : Exists(n) /\ schedule[n].id = row.id =>
    /\ row.version <= schedule[n].version
    /\ row.version = schedule[n].version => row = Unclaimed(schedule[n])

\* A row in the table has the version that the cycle claimed it with.
Unmoved(c) ==
  \E n \in Names : Exists(n) /\ schedule[n].id = item[c].id /\ schedule[n].version = item[c].version

HeldType ==
  /\ batch \in [Cycles -> SUBSET ScheduleRow]
  /\ item \in [Cycles -> ScheduleRow \cup {NoRow}]
  /\ \A c \in Cycles : pc[c] \in {"insert", "release"} => item[c] \in ScheduleRow
  /\ \A c \in Cycles : observed[c] <= clock
  /\ clock <= MaxClock

\* Row identities are handed out once.
IdsUnique ==
  /\ \A n \in Names : Exists(n) => schedule[n].id < nextId
  /\ \A m, n \in Names : Exists(m) /\ Exists(n) /\ schedule[m].id = schedule[n].id => m = n

HeldCurrent ==
  \A c \in Cycles : \A row \in Held(c) :
    row.id < nextId /\ row.status = "active" /\ row.nextDueAt <= observed[c] /\ Current(row)

\* What HasOpenOccurrence answered stays true until the version moves.
NothingOpened ==
  \A c \in Cycles : pc[c] = "insert" /\ item[c].overlap = "forbid" /\ ~open[c] /\ Unmoved(c) =>
    \A t \in Instants : occurrence[item[c].id][t] # "open"

\* A plan that is carried out has found the next due instant.
PlanSucceeded ==
  \A c \in Cycles : pc[c] = "insert" => PlanSchedule(item[c], observed[c]).next # R!NoNext

\* A used up run_at lies in the past.
ExhaustedInPast ==
  \A n \in Names : Exists(n) /\ schedule[n].status = "exhausted" => schedule[n].rule.at \in Instants

PlannerInv ==
  /\ HeldType /\ IdsUnique /\ HeldCurrent /\ NothingOpened /\ PlanSucceeded
  /\ ExhaustedInPast /\ ExhaustedWasRecorded

-----------------------------------------------------------------------------
(* Recurrences, and the instants a bounded catch-up goes through.          *)

Rules == {d.rule : d \in Definitions}

\* What validation leaves in a rule.
LEMMA RuleParts ==
  ASSUME NEW rule \in Rules
  PROVE  /\ rule.kind \in {"every", "cron", "once"}
         /\ rule.kind = "every" => rule.interval \in Nat \ {0}
         /\ rule.kind = "cron" => rule.minutes \in SUBSET Nat
         /\ rule.kind = "once" => rule.at \in Nat
BY PlannerAssumption, Zenon DEF Rules

\* The next match of a cron rule is its first later minute.
LEMMA NextMatchLater ==
  ASSUME NEW minutes \in SUBSET Nat, NEW after \in Int
  PROVE  LET next == R!NextMatch(minutes, after)
         IN \/ next = R!NoNext
            \/ /\ next \in minutes /\ next \in Nat /\ next > after
               /\ \A t \in minutes : t > after => next <= t
<1>1. R!NextMatch(minutes, after) = Rec!NextMatch(minutes, after) /\ R!NoNext = Rec!NoNext
  BY Zenon DEF R!NextMatch, Rec!NextMatch, R!NoNext, Rec!NoNext
<1> QED
  BY <1>1, MatchIsLater

\* Calculator.Next moves on, or fails.
LEMMA NextLater ==
  ASSUME NEW rule \in Rules, rule.kind # "once", NEW after \in Nat
  PROVE  LET next == R!Next(rule, after)
         IN next = R!NoNext \/ (next \in Nat /\ next > after)
<1>1. R!Next(rule, after) = Rec!Next(rule, after) /\ R!NoNext = Rec!NoNext
  BY Zenon DEF R!Next, Rec!Next, R!NextMatch, Rec!NextMatch, R!NoNext, Rec!NoNext
<1>2. Recurs(rule)
  BY RuleParts, Zenon DEF Recurs
<1> QED
  BY <1>1, <1>2, NextIsLater, Zenon

\* Calculator.NextAfter moves past its threshold, or fails.
LEMMA NextAfterLater ==
  ASSUME NEW rule \in Rules, rule.kind # "once", NEW anchor \in Nat, NEW threshold \in Nat,
         anchor <= threshold
  PROVE  LET next == R!NextAfter(rule, anchor, threshold)
         IN next = R!NoNext \/ (next \in Nat /\ next > threshold)
<1>1. R!NextAfter(rule, anchor, threshold) = Rec!NextAfter(rule, anchor, threshold) /\ R!NoNext = Rec!NoNext
  BY Zenon DEF R!NextAfter, Rec!NextAfter, R!NextMatch, Rec!NextMatch, R!NoNext, Rec!NoNext
<1>2. Recurs(rule)
  BY RuleParts, Zenon DEF Recurs
<1> QED
  BY <1>1, <1>2, NextAfterIsLater, Zenon

\* A row that boundedCatchUp is called for.
Behind(row, now) ==
  /\ row \in ScheduleRow /\ row.status = "active" /\ ~IsOnce(row)
  /\ now \in Int /\ row.nextDueAt <= now

LEMMA BehindParts ==
  ASSUME NEW row, NEW now, Behind(row, now)
  PROVE  /\ row.nextDueAt \in Nat /\ row.limit \in Nat \ {0} /\ now \in Nat /\ row.nextDueAt <= now
         /\ row.rule \in Rules /\ row.rule.kind # "once"
         /\ row.misfire \in Misfire
BY DEF Behind, ScheduleRow, IsOnce, Rules

\* The equation that the recursive function in Candidates solves.
Climbs(f, row, now) ==
  f = [k \in 0..row.limit |->
        IF k = 0 THEN row.nextDueAt
        ELSE IF f[k - 1] \in row.nextDueAt..now THEN R!Next(row.rule, f[k - 1])
        ELSE f[k - 1]]

\* It has a solution.
LEMMA CandidatesClimb ==
  ASSUME NEW row, NEW now, Behind(row, now)
  PROVE  Climbs(Candidates(row, now), row, now)
<1> DEFINE step == [x \in Int |->
                     IF x \in row.nextDueAt..now THEN R!Next(row.rule, x) ELSE x]
           due == row.nextDueAt
           k == row.limit
<1>1. step \in [Int -> Int] /\ due \in Int /\ k \in Nat
  <2>1. \A x \in row.nextDueAt..now : R!Next(row.rule, x) \in Int
    BY BehindParts, NextLater DEF R!NoNext
  <2> QED
    BY <2>1, BehindParts
<1>2. PICK f \in [0..k -> Int] : Iterating(f, k, due, step)
  <2> HIDE DEF step, due, k
  <2> QED
    BY <1>1, Iterates, Zenon
<1>3. \A i \in 0..k : i # 0 => f[i - 1] \in Int
  BY <1>1
<1>4. Climbs(f, row, now)
  BY <1>2, <1>3, Zenon DEF Iterating, Climbs
<1>5. Candidates(row, now) = CHOOSE g : Climbs(g, row, now)
  BY Zenon DEF Candidates, Climbs
<1> QED
  BY <1>4, <1>5, Zenon

\* Each candidate is a later one than the last, until one is no longer due.
Reached(x, k, row, now) ==
  \/ x = R!NoNext
  \/ /\ x \in Nat /\ row.nextDueAt <= x
     /\ x > now \/ row.nextDueAt + k <= x

LEMMA CandidatesReach ==
  ASSUME NEW row, NEW now, Behind(row, now)
  PROVE  \A k \in 0..row.limit : Reached(Candidates(row, now)[k], k, row, now)
<1> DEFINE f == Candidates(row, now)
           Bad == {k \in 0..row.limit : ~Reached(f[k], k, row, now)}
<1>1. Climbs(f, row, now)
  BY CandidatesClimb, Zenon
<1> HIDE DEF f
<1> SUFFICES ASSUME Bad # {} PROVE FALSE
  BY Zenon DEF f
<1>2. PICK k \in Bad : \A j \in Bad : k <= j
  <2>1. Bad \subseteq Nat
    BY BehindParts
  <2> HIDE DEF Bad
  <2> QED
    BY <2>1, LeastNat, Zenon
<1>3. /\ k \in 0..row.limit /\ k \in Nat /\ ~Reached(f[k], k, row, now)
      /\ row.limit \in Nat /\ row.nextDueAt \in Nat /\ now \in Nat
  BY BehindParts
<1>4. f[k] = IF k = 0 THEN row.nextDueAt
             ELSE IF f[k - 1] \in row.nextDueAt..now THEN R!Next(row.rule, f[k - 1])
             ELSE f[k - 1]
  BY <1>1, <1>3, Zenon DEF Climbs
<1>5. CASE k = 0
  BY <1>3, <1>4, <1>5 DEF Reached
<1>6. CASE k # 0
  <2>1. Reached(f[k - 1], k - 1, row, now)
    <3>1. k - 1 \in 0..row.limit
      BY <1>3, <1>6
    <3>2. k - 1 \notin Bad
      <4> HIDE DEF Bad
      <4> QED
        BY <1>2, <1>3
    <3> QED
      BY <3>1, <3>2, Zenon
  <2> HIDE DEF Bad
  <2> DEFINE x == f[k - 1]
  <2>2. CASE x \in row.nextDueAt..now
    <3>1. x \in Nat /\ row.nextDueAt + (k - 1) <= x
      BY <1>3, <2>1, <2>2 DEF Reached, R!NoNext
    <3>2. f[k] = R!NoNext \/ (f[k] \in Nat /\ f[k] > x)
      BY <1>4, <1>6, <2>2, <3>1, NextLater, BehindParts, Zenon
    <3> HIDE DEF x
    <3> QED
      BY <1>3, <3>1, <3>2, <2>2 DEF Reached
  <2>3. CASE x \notin row.nextDueAt..now
    <3>1. f[k] = x
      BY <1>4, <1>6, <2>3, Zenon
    <3> HIDE DEF x
    <3>2. Reached(x, k - 1, row, now)
      BY <2>1, Zenon DEF x
    <3> QED
      BY <1>3, <3>1, <3>2, <2>3 DEF Reached
  <2> QED
    BY <2>2, <2>3, Zenon
<1> QED
  BY <1>5, <1>6, Zenon

\* The candidates that were due before a candidate are the instants of the rule
\* before it, and those of an interval rule keep its phase.
Covered(f, k, row, now) ==
  f[k] # R!NoNext =>
    /\ row.rule.kind = "every" => \E m \in Nat : f[k] = row.nextDueAt + m * row.rule.interval
    /\ \A j \in 0..(k - 1) : f[j] \in row.nextDueAt..now => f[j] < f[k]
    /\ \A t \in Between(row.rule, row.nextDueAt, f[k]) : t < f[k] =>
         \E j \in 0..(k - 1) : t = f[j] /\ f[j] \in row.nextDueAt..now

\* Calculator.Next leaves out no instant of the rule.
LEMMA NextIsNext ==
  ASSUME NEW rule \in Rules, rule.kind # "once", NEW due \in Nat, NEW x \in Nat, due <= x,
         rule.kind = "every" => \E m \in Nat : x = due + m * rule.interval,
         R!Next(rule, x) # R!NoNext
  PROVE  /\ rule.kind = "every" => \E m \in Nat : R!Next(rule, x) = due + m * rule.interval
         /\ \A t \in Between(rule, due, R!Next(rule, x)) : t < R!Next(rule, x) =>
              t \in Int /\ (t <= x => t \in Between(rule, due, x) \/ t = x) /\ ~(x < t)
<1> DEFINE y == R!Next(rule, x)
<1>1. CASE rule.kind = "every"
  <2> DEFINE step == rule.interval
  <2>1. step \in Nat \ {0}
    BY <1>1, RuleParts, Zenon
  <2>2. PICK m \in Nat : x = due + m * step
    BY <1>1, Zenon
  <2>3. y = x + step
    BY <1>1, Zenon DEF R!Next
  <2>4. \A e \in Int : Between(rule, due, e) = {t \in due..(e - 1) : (t - due) % step = 0}
    BY <1>1, Zenon DEF Between
  <2> HIDE DEF step, y
  <2>5. m + 1 \in Nat /\ y = due + (m + 1) * step
    BY <2>1, <2>2, <2>3
  <2>6. ASSUME NEW t \in Between(rule, due, y), x < t PROVE FALSE
    <3>1. t \in due..(y - 1) /\ (t - due) % step = 0
      BY <2>1, <2>3, <2>4, <2>6
    <3> DEFINE q == (t - due) \div step
    <3>2. q \in Int /\ t - due = q * step
      BY <2>1, <3>1
    <3> HIDE DEF q
    <3>3. m * step < q * step /\ q * step < m * step + step
      BY <2>1, <2>2, <2>3, <2>6, <3>1, <3>2
    <3> QED
      BY <2>1, <3>2, <3>3, NoMultipleBetween
  <2>7. ASSUME NEW t \in Between(rule, due, y), t <= x PROVE t \in Int /\ (t \in Between(rule, due, x) \/ t = x)
    <3>1. t \in due..(y - 1) /\ (t - due) % step = 0
      BY <2>1, <2>3, <2>4, <2>7
    <3>2. t \in Int /\ (t = x \/ t \in due..(x - 1))
      BY <2>7, <3>1
    <3>3. x \in Int
      OBVIOUS
    <3> QED
      BY <2>4, <3>1, <3>2, <3>3, Zenon
  <2> QED
    BY <1>1, <2>1, <2>3, <2>4, <2>5, <2>6, <2>7 DEF step, y
<1>2. CASE rule.kind = "cron"
  <2>1. rule.minutes \in SUBSET Nat /\ y = R!NextMatch(rule.minutes, x)
    BY <1>2, RuleParts, Zenon DEF R!Next
  <2>2. y \in Nat /\ y > x /\ \A t \in rule.minutes : t > x => y <= t
    BY <2>1, NextMatchLater
  <2>3. \A e \in Int : Between(rule, due, e) = {due} \cup {t \in rule.minutes : t \in due..(e - 1)}
    BY <1>2, Zenon DEF Between
  <2> HIDE DEF y
  <2>4. ASSUME NEW t \in Between(rule, due, y), t < y
        PROVE  t \in Int /\ (t <= x => t \in Between(rule, due, x) \/ t = x) /\ ~(x < t)
    BY <2>1, <2>2, <2>3, <2>4
  <2> QED
    BY <1>2, <2>4, Zenon DEF y
<1> QED
  BY <1>1, <1>2, RuleParts, Zenon

\* So the candidates of a catch-up leave out none.
LEMMA CandidatesCover ==
  ASSUME NEW row, NEW now, Behind(row, now)
  PROVE  \A k \in 0..row.limit : Covered(Candidates(row, now), k, row, now)
<1> DEFINE f == Candidates(row, now)
           due == row.nextDueAt
           Bad == {k \in 0..row.limit : ~Covered(f, k, row, now)}
<1>1. Climbs(f, row, now) /\ \A k \in 0..row.limit : Reached(f[k], k, row, now)
  BY CandidatesClimb, CandidatesReach, Zenon
<1>2. /\ due \in Nat /\ row.limit \in Nat \ {0} /\ now \in Nat
      /\ row.rule \in Rules /\ row.rule.kind # "once"
  BY BehindParts, Zenon
<1> HIDE DEF f
<1> SUFFICES ASSUME Bad # {} PROVE FALSE
  BY Zenon DEF f
<1>3. PICK k \in Bad : \A j \in Bad : k <= j
  <2>1. Bad \subseteq Nat
    BY <1>2
  <2> HIDE DEF Bad
  <2> QED
    BY <2>1, LeastNat, Zenon
<1>4. k \in 0..row.limit /\ k \in Nat /\ ~Covered(f, k, row, now)
  BY <1>2
<1>5. f[k] = IF k = 0 THEN due
             ELSE IF f[k - 1] \in due..now THEN R!Next(row.rule, f[k - 1])
             ELSE f[k - 1]
  BY <1>1, <1>4, Zenon DEF Climbs
<1>6. CASE k = 0
  <2>1. f[k] = due
    BY <1>5, <1>6, Zenon
  <2>2. row.rule.kind = "every" => row.rule.interval \in Nat
    BY <1>2, RuleParts, Zenon
  <2>3. row.rule.kind = "every" => f[k] = due + 0 * row.rule.interval
    BY <1>2, <2>1, <2>2
  <2>4. \A t \in Between(row.rule, due, due) : ~(t < due)
    BY <1>2 DEF Between
  <2>5. \A j \in 0..(k - 1) : FALSE
    BY <1>6
  <2> QED
    BY <1>4, <2>1, <2>3, <2>4, <2>5, Zenon DEF Covered
<1>7. CASE k # 0
  <2> DEFINE x == f[k - 1]
  <2>1. k - 1 \in 0..row.limit
    BY <1>2, <1>4, <1>7
  <2>2. Covered(f, k - 1, row, now) /\ Reached(x, k - 1, row, now)
    <3>1. k - 1 \notin Bad
      <4> HIDE DEF Bad
      <4> QED
        BY <1>3, <1>4
    <3> QED
      BY <1>1, <2>1, <3>1, Zenon
  <2> HIDE DEF Bad
  <2>3. \A j \in 0..(k - 1 - 1) : j \in 0..(k - 1)
    BY <1>4
  <2>4. CASE x \notin due..now
    <3>1. f[k] = f[k - 1]
      BY <1>5, <1>7, <2>4, Zenon
    <3>2. \A j \in 0..(k - 1) : j \in 0..(k - 1 - 1) \/ f[j] = x
      BY <1>4
    <3> QED
      BY <1>4, <2>2, <2>3, <2>4, <3>1, <3>2, Zenon DEF Covered
  <2>5. CASE x \in due..now
    <3> DEFINE y == R!Next(row.rule, x)
    <3>1. f[k] = y /\ x \in Nat /\ due <= x /\ x # R!NoNext
      BY <1>2, <1>5, <1>7, <2>5 DEF R!NoNext
    <3>2. row.rule.kind = "every" => \E m \in Nat : x = due + m * row.rule.interval
      BY <2>2, <3>1, Zenon DEF Covered
    <3>3. y # R!NoNext =>
            /\ row.rule.kind = "every" => \E m \in Nat : y = due + m * row.rule.interval
            /\ \A t \in Between(row.rule, due, y) : t < y =>
                 t \in Int /\ (t <= x => t \in Between(row.rule, due, x) \/ t = x) /\ ~(x < t)
      BY <1>2, <3>1, <3>2, NextIsNext, Zenon
    <3>4. ASSUME y # R!NoNext, NEW t \in Between(row.rule, due, y), t < y
          PROVE  \E j \in 0..(k - 1) : t = f[j] /\ f[j] \in due..now
      <4> HIDE DEF y
      <4>1. t \in Int /\ (t \in Between(row.rule, due, x) \/ t = x)
        BY <3>1, <3>3, <3>4
      <4>2. CASE t = x
        <5>1. k - 1 \in 0..(k - 1)
          BY <1>4, <1>7
        <5> QED
          BY <2>5, <4>2, <5>1, Zenon
      <4>3. CASE t # x
        <5>1. t \in Between(row.rule, due, x) /\ t < x
          BY <3>1, <3>3, <3>4, <4>1, <4>3
        <5>2. \E j \in 0..(k - 1 - 1) : t = f[j] /\ f[j] \in due..now
          BY <2>2, <3>1, <5>1, Zenon DEF Covered
        <5> QED
          BY <2>3, <5>2, Zenon
      <4> QED
        BY <4>2, <4>3, Zenon
    <3>5. y # R!NoNext => y \in Nat /\ x < y
      BY <1>2, <3>1, NextLater, Zenon
    <3> HIDE DEF y
    <3>6. ASSUME y # R!NoNext, NEW j \in 0..(k - 1), f[j] \in due..now PROVE f[j] < y
      <4>1. j \in 0..(k - 1 - 1) \/ f[j] = x
        BY <1>4
      <4>2. j \in 0..(k - 1 - 1) => f[j] < x
        BY <2>2, <3>1, <3>6, Zenon DEF Covered
      <4>3. f[j] \in Int
        BY <3>6
      <4> QED
        BY <3>1, <3>5, <3>6, <4>1, <4>2, <4>3
    <3>7. Covered(f, k, row, now)
      BY <3>1, <3>3, <3>4, <3>6, Zenon DEF Covered
    <3> QED
      BY <1>4, <3>7, Zenon
  <2> QED
    BY <2>4, <2>5, Zenon
<1> QED
  BY <1>6, <1>7, Zenon

-----------------------------------------------------------------------------
(* Plans and rows.                                                         *)

\* What every plan has in common: it deals with the due instant and with no
\* instant outside the time from then to now, records a skip under a code that
\* is not that of an open occurrence, and goes on after now, if at all.
PlanFor(plan, row, now) ==
  /\ \/ plan.code = "none" /\ plan.skip = {}
     \/ plan.code \in {"misfire_skipped", "bound_exceeded"}
  /\ row.nextDueAt \in plan.dispatch \cup plan.skip
  /\ plan.dispatch \cup plan.skip \subseteq row.nextDueAt..now
  /\ IF IsOnce(row) THEN plan.next = NoTime
     ELSE plan.next = R!NoNext \/ (plan.next \in Nat /\ plan.next > now)

LEMMA CatchUpShape ==
  ASSUME NEW row, NEW now, Behind(row, now)
  PROVE  PlanFor(BoundedCatchUp(row, now), row, now)
<1> DEFINE f == Candidates(row, now)
           due == {f[k] : k \in 0..(row.limit - 1)} \cap (row.nextDueAt..now)
           last == f[row.limit]
           plan == BoundedCatchUp(row, now)
<1> SUFFICES PlanFor(plan, row, now)
  BY Zenon
<1>0. /\ row.nextDueAt \in Nat /\ row.limit \in Nat \ {0} /\ now \in Nat /\ row.nextDueAt <= now
      /\ row.rule \in Rules /\ row.rule.kind # "once" /\ ~IsOnce(row)
  BY BehindParts, Zenon DEF Behind
<1>1. Climbs(f, row, now) /\ Reached(last, row.limit, row, now)
  <2>1. row.limit \in 0..row.limit
    BY <1>0
  <2> QED
    BY <2>1, CandidatesClimb, CandidatesReach, Zenon
<1>2. plan = IF last = R!NoNext \/ last > now THEN Fire(due, last)
             ELSE [dispatch |-> due, skip |-> {last}, code |-> "bound_exceeded",
                   next |-> R!NextAfter(row.rule, last, now)]
  BY Zenon DEF BoundedCatchUp
<1> HIDE DEF f, plan
<1>3. row.nextDueAt \in due
  <2>1. 0 \in 0..(row.limit - 1) /\ 0 \in 0..row.limit
    BY <1>0
  <2>2. f[0] = row.nextDueAt
    BY <1>1, <2>1, Zenon DEF Climbs
  <2> QED
    BY <1>0, <2>1, <2>2
<1>4. due \subseteq row.nextDueAt..now
  BY Zenon
<1> HIDE DEF due, last
<1>5. CASE last = R!NoNext \/ last > now
  <2>1. /\ plan.dispatch = due /\ plan.skip = {} /\ plan.code = "none" /\ plan.next = last
    BY <1>2, <1>5, Zenon DEF Fire
  <2> QED
    BY <1>0, <1>1, <1>3, <1>4, <1>5, <2>1, Zenon DEF PlanFor, Reached
<1>6. CASE ~(last = R!NoNext \/ last > now)
  <2>1. /\ plan.dispatch = due /\ plan.skip = {last} /\ plan.code = "bound_exceeded"
        /\ plan.next = R!NextAfter(row.rule, last, now)
    BY <1>2, <1>6, Zenon
  <2>2. last \in Nat /\ row.nextDueAt <= last /\ last <= now
    BY <1>0, <1>1, <1>6 DEF Reached
  <2>3. plan.next = R!NoNext \/ (plan.next \in Nat /\ plan.next > now)
    BY <1>0, <2>1, <2>2, NextAfterLater, Zenon
  <2> QED
    BY <1>0, <1>3, <1>4, <2>1, <2>2, <2>3 DEF PlanFor
<1> QED
  BY <1>5, <1>6, Zenon

\* What planSchedule makes of a due row.
LEMMA PlanShape ==
  ASSUME NEW row \in ScheduleRow, NEW now \in Int, row.status = "active", row.nextDueAt <= now
  PROVE  PlanFor(PlanSchedule(row, now), row, now)
<1> DEFINE due == row.nextDueAt
           plan == PlanSchedule(row, now)
<1>1. due \in Nat /\ now \in Nat /\ row.misfire \in Misfire /\ due \in due..now
  BY DEF ScheduleRow
<1>2. CASE IsOnce(row)
  <2>1. plan = IF due < now /\ row.misfire = "skip" THEN Skip(due, "misfire_skipped", NoTime)
               ELSE Fire({due}, NoTime)
    BY <1>1, <1>2, Zenon DEF PlanSchedule
  <2> HIDE DEF plan
  <2> QED
    BY <1>1, <1>2, <2>1 DEF PlanFor, Fire, Skip, plan
<1>3. CASE ~IsOnce(row) /\ due = now
  <2>1. plan = Fire({due}, R!Next(row.rule, due))
    BY <1>1, <1>3 DEF PlanSchedule
  <2>2. R!Next(row.rule, due) = R!NoNext \/ (R!Next(row.rule, due) \in Nat /\ R!Next(row.rule, due) > now)
    BY <1>1, <1>3, BehindParts, NextLater, Zenon DEF Behind
  <2> HIDE DEF plan
  <2> QED
    BY <1>1, <1>3, <2>1, <2>2 DEF PlanFor, Fire, plan
<1>4. CASE ~IsOnce(row) /\ due < now /\ row.misfire \in {"skip", "fire_once"}
  <2> DEFINE next == R!NextAfter(row.rule, due, now)
  <2>1. plan = IF row.misfire = "skip" THEN Skip(due, "misfire_skipped", next) ELSE Fire({due}, next)
    BY <1>1, <1>4 DEF PlanSchedule
  <2>2. next = R!NoNext \/ (next \in Nat /\ next > now)
    BY <1>1, <1>4, BehindParts, NextAfterLater, Zenon DEF Behind
  <2> HIDE DEF plan, next
  <2> QED
    BY <1>1, <1>4, <2>1, <2>2 DEF PlanFor, Fire, Skip, plan
<1>5. CASE ~IsOnce(row) /\ due < now /\ row.misfire = "catch_up_bounded"
  <2>1. plan = BoundedCatchUp(row, now)
    BY <1>1, <1>5 DEF PlanSchedule
  <2> QED
    BY <1>5, <2>1, CatchUpShape, Zenon DEF Behind
<1> QED
  BY <1>1, <1>2, <1>3, <1>4, <1>5 DEF Misfire

\* Instants of a rule before an end are those before any other end that they precede.
LEMMA BetweenEnds ==
  ASSUME NEW rule \in Rules, rule.kind # "once", NEW due \in Nat, NEW end \in Nat, due < end,
         NEW t \in Between(rule, due, end)
  PROVE  /\ t \in Nat /\ due <= t /\ t < end
         /\ \A e \in Nat : t < e => t \in Between(rule, due, e)
<1>1. CASE rule.kind = "every"
  BY <1>1 DEF Between
<1>2. CASE rule.kind = "cron"
  <2>1. rule.minutes \in SUBSET Nat
    BY <1>2, RuleParts, Zenon
  <2> QED
    BY <1>2, <2>1 DEF Between
<1> QED
  BY <1>1, <1>2, RuleParts, Zenon

\* A catch-up dispatches every instant that it passes, up to the one it records as
\* exceeding the bound, which has as many instants before it as the bound allows.
LEMMA CatchUpCovers ==
  ASSUME NEW row, NEW now, Behind(row, now), row.misfire = "catch_up_bounded",
         PlanSchedule(row, now).next # R!NoNext
  PROVE  LET plan == PlanSchedule(row, now) IN
         \A t \in Between(row.rule, row.nextDueAt, plan.next) :
           /\ t \in Nat
           /\ \/ t \in plan.dispatch
              \/ /\ plan.code = "bound_exceeded"
                 /\ \E u \in plan.skip \ plan.dispatch : u <= t /\ row.nextDueAt + row.limit <= u
<1> DEFINE due == row.nextDueAt
           f == Candidates(row, now)
           fired == {f[k] : k \in 0..(row.limit - 1)} \cap (due..now)
           last == f[row.limit]
           plan == PlanSchedule(row, now)
<1>1. /\ due \in Nat /\ row.limit \in Nat \ {0} /\ now \in Nat /\ due <= now
      /\ row.rule \in Rules /\ row.rule.kind # "once" /\ ~IsOnce(row)
  BY BehindParts, Zenon DEF Behind
<1>2. PlanFor(plan, row, now)
  BY PlanShape, Zenon DEF Behind
<1>3. plan.next \in Nat /\ due < plan.next
  <2> HIDE DEF plan
  <2> QED
    BY <1>1, <1>2 DEF PlanFor, plan
<1> SUFFICES ASSUME NEW t \in Between(row.rule, due, plan.next)
             PROVE  /\ t \in Nat
                    /\ \/ t \in plan.dispatch
                       \/ /\ plan.code = "bound_exceeded"
                          /\ \E u \in plan.skip \ plan.dispatch : u <= t /\ due + row.limit <= u
  BY Zenon
<1>4. /\ t \in Nat /\ due <= t /\ t < plan.next
      /\ \A e \in Nat : t < e => t \in Between(row.rule, due, e)
  <2> HIDE DEF plan
  <2> QED
    BY <1>1, <1>3, BetweenEnds, Zenon
<1>5. CASE due = now
  <2> DEFINE next == R!Next(row.rule, due)
  <2>1. plan = Fire({due}, next)
    BY <1>1, <1>5 DEF PlanSchedule
  <2>2. plan.dispatch = {due} /\ plan.next = next
    BY <2>1 DEF Fire
  <2> HIDE DEF plan
  <2>3. row.rule.kind = "every" => \E m \in Nat : due = due + m * row.rule.interval
    <3>1. row.rule.kind = "every" => due = due + 0 * row.rule.interval
      BY <1>1, RuleParts
    <3> QED
      BY <3>1, Zenon
  <2>4. next # R!NoNext
    BY <2>2, Zenon DEF plan
  <2>5. ~(due < t)
    BY <1>1, <1>4, <2>2, <2>3, <2>4, NextIsNext
  <2>6. t = due
    BY <1>1, <1>4, <2>5
  <2> QED
    BY <1>4, <2>2, <2>6, Zenon
<1>6. CASE due < now
  <2>1. plan = IF last = R!NoNext \/ last > now THEN Fire(fired, last)
               ELSE [dispatch |-> fired, skip |-> {last}, code |-> "bound_exceeded",
                     next |-> R!NextAfter(row.rule, last, now)]
    BY <1>1, <1>6 DEF PlanSchedule, BoundedCatchUp
  <2>2. row.limit \in 0..row.limit
    BY <1>1
  <2>3. Covered(f, row.limit, row, now) /\ Reached(last, row.limit, row, now)
    BY <2>2, CandidatesCover, CandidatesReach, Zenon
  <2> HIDE DEF f, plan
  <2>4. ASSUME last # R!NoNext, t < last PROVE t \in fired
    <3>1. last \in Nat
      BY <2>3, <2>4, Zenon DEF Reached
    <3>2. t \in Between(row.rule, due, last)
      BY <1>4, <2>4, <3>1, Zenon
    <3>3. \E j \in 0..(row.limit - 1) : t = f[j] /\ f[j] \in due..now
      BY <2>3, <2>4, <3>2, Zenon DEF Covered
    <3> QED
      BY <3>3, Zenon
  <2>0. ASSUME last # R!NoNext PROVE last \notin fired
    <3>1. \A j \in 0..(row.limit - 1) : f[j] \in due..now => f[j] < last
      BY <2>0, <2>3, Zenon DEF Covered
    <3>2. \A j \in 0..(row.limit - 1) : f[j] \in due..now => f[j] # last
      BY <1>1, <3>1
    <3> QED
      BY <3>2, Zenon
  <2> HIDE DEF fired, last
  <2>5. CASE last = R!NoNext \/ last > now
    <3>1. plan.dispatch = fired /\ plan.next = last
      BY <2>1, <2>5, Zenon DEF Fire
    <3>2. last # R!NoNext
      BY <3>1, Zenon DEF plan
    <3> QED
      BY <1>4, <2>4, <3>1, <3>2, Zenon
  <2>6. CASE ~(last = R!NoNext \/ last > now)
    <3>1. plan.dispatch = fired /\ plan.skip = {last} /\ plan.code = "bound_exceeded"
      BY <2>1, <2>6, Zenon
    <3>2. last \in Nat /\ due + row.limit <= last
      BY <1>1, <2>3, <2>6, Zenon DEF Reached
    <3> QED
      BY <1>4, <2>0, <2>4, <2>6, <3>1, <3>2
  <2> QED
    BY <2>5, <2>6, Zenon
<1> QED
  BY <1>1, <1>5, <1>6

\* A row with another claim, column by column.
WithClaim(row, owner, expiry) ==
  [id |-> row.id, version |-> row.version, status |-> row.status, rule |-> row.rule,
   misfire |-> row.misfire, limit |-> row.limit, overlap |-> row.overlap,
   nextDueAt |-> row.nextDueAt, owner |-> owner, expiresAt |-> expiry]

SetClaim(row, owner, expiry) == [row EXCEPT !.owner = owner, !.expiresAt = expiry]

\* Setting the columns of the claim changes these columns only.
LEMMA ClaimColumns ==
  ASSUME NEW row, row = WithClaim(row, row.owner, row.expiresAt), NEW owner, NEW expiry
  PROVE  SetClaim(row, owner, expiry) = WithClaim(row, owner, expiry)
<1> DEFINE half == [row EXCEPT !.owner = owner]
<1>1. half = WithClaim(row, owner, row.expiresAt)
  BY DEF WithClaim
<1>2. SetClaim(row, owner, expiry) = [half EXCEPT !.expiresAt = expiry]
  BY Zenon DEF SetClaim
<1> HIDE DEF half
<1>3. [half EXCEPT !.expiresAt = expiry] = WithClaim(row, owner, expiry)
  BY <1>1 DEF WithClaim
<1> QED
  BY <1>2, <1>3, Zenon

\* The columns of a row are these.
LEMMA RowColumns ==
  ASSUME NEW row \in ScheduleRow
  PROVE  row = WithClaim(row, row.owner, row.expiresAt)
BY Zenon DEF ScheduleRow, WithClaim

\* Taking the claim off a row leaves a row with the same definition.
LEMMA UnclaimedRow ==
  ASSUME NEW row \in ScheduleRow
  PROVE  /\ Unclaimed(row) \in ScheduleRow
         /\ Unclaimed(row).id = row.id /\ Unclaimed(row).version = row.version
         /\ Unclaimed(row).status = row.status /\ Unclaimed(row).rule = row.rule
         /\ Unclaimed(row).overlap = row.overlap /\ Unclaimed(row).nextDueAt = row.nextDueAt
<1> DEFINE bare == Unclaimed(row)
<1>0. bare = SetClaim(row, None, NoTime)
  BY Zenon DEF Unclaimed, SetClaim
<1> HIDE DEF bare
<1>1. bare = WithClaim(row, None, NoTime)
  BY <1>0, RowColumns, ClaimColumns
<1>2. bare \in [id : Ids, version : Nat, status : {"active", "paused", "exhausted"},
                rule : {d.rule : d \in Definitions}, misfire : Misfire, limit : Nat,
                overlap : {"allow", "forbid"}, nextDueAt : Int,
                owner : Workers \cup {None}, expiresAt : Int]
  BY <1>1 DEF ScheduleRow, WithClaim, NoTime
<1>3. /\ row.limit > 0 /\ (row.misfire # "catch_up_bounded" => row.limit = 1)
      /\ IF row.status = "exhausted"
         THEN IsOnce(row) /\ row.nextDueAt = NoTime /\ row.owner = None
         ELSE row.nextDueAt >= 0 /\ (IsOnce(row) => row.nextDueAt = row.rule.at)
  BY Zenon DEF ScheduleRow
<1>4. IsOnce(bare) <=> IsOnce(row)
  BY <1>1, Zenon DEF IsOnce, WithClaim
<1>5. bare \in ScheduleRow
  BY <1>1, <1>2, <1>3, <1>4, Zenon DEF ScheduleRow, WithClaim
<1> QED
  BY <1>1, <1>5 DEF bare, WithClaim

\* What has an identity is not the missing row.
LEMMA IdentifiedRow ==
  ASSUME NEW row, row.id \in Ids
  PROVE  row # NoRow
BY PlannerAssumption DEF NoRow

\* No row of the table is the missing row.
LEMMA RowsExist ==
  ASSUME NEW row \in ScheduleRow
  PROVE  row # NoRow /\ row.id \in Ids /\ row.id \in Int /\ row.version \in Nat
<1>1. row.id \in Ids /\ row.version \in Nat
  BY Zenon DEF ScheduleRow
<1>2. Ids \subseteq Int /\ None \notin Ids
  BY PlannerAssumption
<1>3. NoRow.id = None
  BY Zenon DEF NoRow
<1> QED
  BY <1>1, <1>2, <1>3, Zenon

\* The columns of a row that an advance, a change of status or an update leaves.
LEMMA WrittenColumns ==
  ASSUME NEW i, NEW version, NEW d, NEW status, NEW next
  PROVE  LET row == Row(i, version, d, status, next)
         IN /\ row.id = i /\ row.version = version /\ row.status = status /\ row.rule = d.rule
            /\ row.nextDueAt = next
            /\ i \in Ids => row # NoRow
<1> DEFINE row == Row(i, version, d, status, next)
<1>1. /\ row.id = i /\ row.version = version /\ row.status = status /\ row.rule = d.rule
      /\ row.nextDueAt = next
  BY Zenon DEF Row
<1> HIDE DEF row
<1>2. i \in Ids => row # NoRow
  BY <1>1, IdentifiedRow, Zenon
<1> QED
  BY <1>1, <1>2, Zenon DEF row

\* A definition, or the definition that a row holds.
Defines(d) ==
  /\ d.rule \in Rules /\ d.misfire \in Misfire /\ d.limit \in Nat \ {0}
  /\ d.misfire # "catch_up_bounded" => d.limit = 1
  /\ d.overlap \in {"allow", "forbid"}

LEMMA DefinitionDefines ==
  ASSUME NEW d \in Definitions
  PROVE  Defines(d) /\ d.status \in {"active", "paused"}
BY PlannerAssumption, Zenon DEF Defines, Rules

LEMMA RowDefines ==
  ASSUME NEW row \in ScheduleRow
  PROVE  /\ Defines(row) /\ row.id \in Ids /\ row.version \in Nat
         /\ row.status \in {"active", "paused", "exhausted"}
         /\ IF row.status = "exhausted" THEN IsOnce(row) /\ row.nextDueAt = NoTime
            ELSE row.nextDueAt \in Nat /\ (IsOnce(row) => row.nextDueAt = row.rule.at)
BY DEF ScheduleRow, Defines, Rules

\* A due instant that fits a status and a rule.
DueFits(rule, status, next) ==
  \/ status \in {"active", "paused"} /\ next \in Nat /\ (rule.kind = "once" => next = rule.at)
  \/ status = "exhausted" /\ next = NoTime /\ rule.kind = "once"

\* A row written without a claim is one that the CHECK constraints accept.
LEMMA WrittenRow ==
  ASSUME NEW i \in Ids, NEW version \in Nat, NEW d, Defines(d), NEW status, NEW next,
         DueFits(d.rule, status, next)
  PROVE  Row(i, version, d, status, next) \in ScheduleRow
<1> DEFINE row == Row(i, version, d, status, next)
<1>1. row \in [id : Ids, version : Nat, status : {"active", "paused", "exhausted"},
               rule : {e.rule : e \in Definitions}, misfire : Misfire, limit : Nat,
               overlap : {"allow", "forbid"}, nextDueAt : Int,
               owner : Workers \cup {None}, expiresAt : Int]
  BY DEF Row, Defines, DueFits, Rules, NoTime
<1>2. /\ row.status = status /\ row.rule = d.rule /\ row.misfire = d.misfire /\ row.limit = d.limit
      /\ row.nextDueAt = next /\ row.owner = None /\ row.expiresAt = NoTime
  BY Zenon DEF Row
<1> HIDE DEF row
<1>3. /\ row.limit > 0 /\ (row.misfire # "catch_up_bounded" => row.limit = 1)
  BY <1>2 DEF Defines
<1>4. IF row.status = "exhausted"
      THEN IsOnce(row) /\ row.nextDueAt = NoTime /\ row.owner = None
      ELSE row.nextDueAt >= 0 /\ (IsOnce(row) => row.nextDueAt = row.rule.at)
  BY <1>2 DEF DueFits, IsOnce
<1>5. row \in ScheduleRow
  BY <1>1, <1>2, <1>3, <1>4, Zenon DEF ScheduleRow
<1> QED
  BY <1>5, Zenon DEF row

\* The columns of a row without its claim.
LEMMA UnclaimedColumns ==
  ASSUME NEW row \in ScheduleRow
  PROVE  Unclaimed(row) = Row(row.id, row.version, row, row.status, row.nextDueAt)
<1>1. Unclaimed(row) = SetClaim(row, None, NoTime)
  BY Zenon DEF Unclaimed, SetClaim
<1>2. Unclaimed(row) = WithClaim(row, None, NoTime)
  BY <1>1, RowColumns, ClaimColumns
<1> QED
  BY <1>2, Zenon DEF WithClaim, Row

\* Advancing a row keeps its definition, moves its version and drops its claim.
LEMMA AdvancedRow ==
  ASSUME NEW row \in ScheduleRow, NEW next
  PROVE  Advanced(row, next) = Row(row.id, row.version + 1, row,
                                   IF next = NoTime THEN "exhausted" ELSE row.status, next)
<1> DEFINE bare == Unclaimed(row)
           one == [bare EXCEPT !.nextDueAt = next]
           two == [one EXCEPT !.version = one.version + 1]
           status == IF next = NoTime THEN "exhausted" ELSE two.status
<1>1. Advanced(row, next) = [two EXCEPT !.status = status]
  BY Zenon DEF Advanced
<1>2. bare = Row(row.id, row.version, row, row.status, row.nextDueAt)
  BY UnclaimedColumns, Zenon
<1> HIDE DEF bare
<1>3. one = Row(row.id, row.version, row, row.status, next)
  BY <1>2 DEF Row
<1> HIDE DEF one
<1>4. two = Row(row.id, row.version + 1, row, row.status, next)
  BY <1>3 DEF Row
<1> HIDE DEF two
<1>5. status = IF next = NoTime THEN "exhausted" ELSE row.status
  BY <1>4, WrittenColumns
<1> HIDE DEF status
<1>6. Advanced(row, next) = Row(row.id, row.version + 1, row, status, next)
  BY <1>1, <1>4, Zenon DEF Row
<1> QED
  BY <1>5, <1>6, Zenon

\* So does a change of status.
LEMMA StatusRow ==
  ASSUME NEW row \in ScheduleRow, NEW status, NEW next
  PROVE  WithStatus(row, status, next) = Row(row.id, row.version + 1, row, status, next)
<1> DEFINE bare == Unclaimed(row)
           one == [bare EXCEPT !.status = status]
           two == [one EXCEPT !.nextDueAt = next]
<1>1. WithStatus(row, status, next) = [two EXCEPT !.version = two.version + 1]
  BY Zenon DEF WithStatus
<1>2. bare = Row(row.id, row.version, row, row.status, row.nextDueAt)
  BY UnclaimedColumns, Zenon
<1> HIDE DEF bare
<1>3. one = Row(row.id, row.version, row, status, row.nextDueAt)
  BY <1>2 DEF Row
<1> HIDE DEF one
<1>4. two = Row(row.id, row.version, row, status, next)
  BY <1>3 DEF Row
<1> HIDE DEF two
<1> QED
  BY <1>1, <1>4, Zenon DEF Row

\* The commit of Materialize, its plan written out.
Commit(c, n) ==
  LET plan == PlanSchedule(item[c], observed[c])
      Inserted(t) == CASE t \in Dispatched(c, plan) -> "open"
                       [] t \in plan.dispatch \ Dispatched(c, plan) -> "overlap_blocked"
                       [] t \in plan.skip -> plan.code
  IN /\ pc[c] = "insert" /\ Exists(n) /\ MayAdvance(c, n)
     /\ occurrence' = [occurrence EXCEPT ![item[c].id] = [t \in Instants |->
          IF t \in plan.dispatch \cup plan.skip /\ @[t] = "absent" THEN Inserted(t) ELSE @[t]]]
     /\ schedule' = [schedule EXCEPT ![n] = Advanced(@, plan.next)]

\* A commit finds the row as it was claimed, and inserts every instant of its
\* plan that is new, open only if it is to be dispatched.
LEMMA CommitInserts ==
  ASSUME TypeOK, PlannerInv, NEW c \in Cycles, NEW n \in Names, Commit(c, n)
  PROVE  LET i == item[c].id
             plan == PlanSchedule(item[c], observed[c])
         IN /\ item[c] \in ScheduleRow /\ item[c] = Unclaimed(schedule[n])
            /\ schedule[n] \in ScheduleRow /\ schedule[n].id = i /\ i \in Ids
            /\ PlanFor(plan, item[c], observed[c]) /\ plan.next # R!NoNext
            /\ item[c].status = "active" /\ item[c].nextDueAt <= observed[c] /\ observed[c] \in Int
            /\ occurrence' \in [Ids -> [Instants -> OccurrenceStatus]]
            /\ \A j \in Ids \ {i} : occurrence'[j] = occurrence[j]
            /\ \A t \in Instants :
                 /\ occurrence[i][t] # "absent" => occurrence'[i][t] = occurrence[i][t]
                 /\ t \notin plan.dispatch \cup plan.skip => occurrence'[i][t] = occurrence[i][t]
                 /\ t \in plan.dispatch \cup plan.skip => occurrence'[i][t] # "absent"
                 /\ occurrence[i][t] = "absent" /\ t \in plan.skip \ plan.dispatch =>
                      occurrence'[i][t] = plan.code
                 /\ occurrence[i][t] = "absent" /\ occurrence'[i][t] = "open" =>
                      t \in Dispatched(c, plan)
<1> DEFINE i == item[c].id
           plan == PlanSchedule(item[c], observed[c])
           fired == Dispatched(c, plan)
<1>1. /\ item[c] \in ScheduleRow /\ item[c] \in Held(c)
      /\ schedule[n] \in ScheduleRow /\ schedule[n].id = i /\ schedule[n].version = item[c].version
  BY Zenon DEF TypeOK, PlannerInv, HeldType, Held, Commit, MayAdvance, Exists
<1>2. item[c] = Unclaimed(schedule[n]) /\ item[c].status = "active" /\ item[c].nextDueAt <= observed[c]
  BY <1>1, Zenon DEF PlannerInv, HeldCurrent, Current, Commit
<1>3. i \in Ids
  BY <1>1, RowsExist, Zenon
<1>4. observed[c] \in Int
  BY Zenon DEF TypeOK
<1>5. PlanFor(plan, item[c], observed[c])
  BY <1>1, <1>2, <1>4, PlanShape, Zenon
<1>6. /\ occurrence \in [Ids -> [Instants -> OccurrenceStatus]]
      /\ \A j \in Ids \ {i} : occurrence'[j] = occurrence[j]
  BY <1>3, Zenon DEF TypeOK, Commit
<1>7. plan.next # R!NoNext
  BY Zenon DEF Commit, PlannerInv, PlanSucceeded
<1> HIDE DEF plan, fired
<1> DEFINE Inserted(t) ==
             IF t \in plan.dispatch \cup plan.skip /\ occurrence[i][t] = "absent"
             THEN CASE t \in fired -> "open"
                    [] t \in plan.dispatch \ fired -> "overlap_blocked"
                    [] t \in plan.skip -> plan.code
             ELSE occurrence[i][t]
<1>8. occurrence' = [occurrence EXCEPT ![i] = [t \in Instants |-> Inserted(t)]]
  BY Zenon DEF Commit, plan, fired
<1>9. fired \subseteq plan.dispatch
  BY Zenon DEF fired, Dispatched
<1>10. plan.skip = {} \/ plan.code \in {"misfire_skipped", "bound_exceeded"}
  BY <1>5, Zenon DEF PlanFor
<1>11. ASSUME NEW t \in Instants
       PROVE  /\ Inserted(t) \in OccurrenceStatus
              /\ occurrence[i][t] # "absent" => Inserted(t) = occurrence[i][t]
              /\ t \notin plan.dispatch \cup plan.skip => Inserted(t) = occurrence[i][t]
              /\ t \in plan.dispatch \cup plan.skip => Inserted(t) # "absent"
              /\ occurrence[i][t] = "absent" /\ t \in plan.skip \ plan.dispatch => Inserted(t) = plan.code
              /\ occurrence[i][t] = "absent" /\ Inserted(t) = "open" => t \in fired
  BY <1>3, <1>6, <1>9, <1>10, Zenon DEF OccurrenceStatus, Skipped
<1> HIDE DEF Inserted
<1>12. occurrence'[i] = [t \in Instants |-> Inserted(t)]
  BY <1>3, <1>6, <1>8, Zenon
<1>13. occurrence' \in [Ids -> [Instants -> OccurrenceStatus]]
  BY <1>6, <1>8, <1>11, Zenon
<1>14. \A t \in Instants : occurrence'[i][t] = Inserted(t)
  BY <1>12, Zenon
<1> QED
  BY <1>1, <1>2, <1>3, <1>4, <1>5, <1>6, <1>7, <1>11, <1>13, <1>14, Zenon DEF plan, fired

\* Every step of Materialize is a commit or leaves both tables alone.
LEMMA MaterializeIsCommit ==
  ASSUME NEW c \in Cycles, Materialize(c)
  PROVE  (\E n \in Names : Commit(c, n)) \/ UNCHANGED <<schedule, occurrence>>
BY Zenon DEF Materialize, Commit

-----------------------------------------------------------------------------
(* The type invariant.                                                     *)

TablesOK ==
  /\ clock \in Nat /\ nextId \in Nat /\ commands \in Nat
  /\ schedule \in [Names -> ScheduleRow \cup {NoRow}]
  /\ occurrence \in [Ids -> [Instants -> OccurrenceStatus]]

InHand(c) == batch[c] \cup ({item[c]} \ {NoRow})

LocalsOK ==
  /\ pc \in [Cycles -> {"idle", "plan", "insert", "release"}]
  /\ observed \in [Cycles -> Int]
  /\ \A c \in Cycles : \A row \in InHand(c) : row.id \in Ids /\ row.status = "active"
  /\ open \in [Cycles -> BOOLEAN]

LEMMA TypeParts == (TypeOK <=> TablesOK /\ LocalsOK) /\ (TypeOK' <=> TablesOK' /\ LocalsOK')
BY Zenon DEF TypeOK, TablesOK, LocalsOK, InHand

\* The due instant that a create, an update or a resume computes.
LEMMA FirstDueType ==
  ASSUME NEW rule \in Rules, NEW now \in Nat, FirstDue(rule, now) # R!NoNext
  PROVE  /\ FirstDue(rule, now) \in Nat /\ FirstDue(rule, now) > now
         /\ rule.kind = "once" => FirstDue(rule, now) = rule.at
<1>1. CASE rule.kind = "once"
  BY <1>1, RuleParts, Zenon DEF FirstDue
<1>2. CASE rule.kind # "once"
  BY <1>2, NextLater, Zenon DEF FirstDue
<1> QED
  BY <1>1, <1>2, Zenon

LEMMA ReadingType ==
  ASSUME TypeOK, NEW now \in Readings
  PROVE  now \in Nat /\ now <= clock /\ clock <= now + MaxLag
BY PlannerAssumption DEF Readings, TypeOK

\* A claim leaves a row that the CHECK constraints accept.
LEMMA ClaimedRow ==
  ASSUME NEW row \in ScheduleRow, row.status = "active", NEW owner \in Workers, NEW expiry \in Nat
  PROVE  SetClaim(row, owner, expiry) \in ScheduleRow
<1> DEFINE claimed == SetClaim(row, owner, expiry)
<1>1. claimed = WithClaim(row, owner, expiry)
  BY RowColumns, ClaimColumns, Zenon
<1> HIDE DEF claimed
<1>2. claimed \in [id : Ids, version : Nat, status : {"active", "paused", "exhausted"},
                   rule : {d.rule : d \in Definitions}, misfire : Misfire, limit : Nat,
                   overlap : {"allow", "forbid"}, nextDueAt : Int,
                   owner : Workers \cup {None}, expiresAt : Int]
  BY <1>1 DEF ScheduleRow, WithClaim
<1>3. /\ claimed.status = "active" /\ claimed.owner = owner /\ claimed.expiresAt = expiry
      /\ claimed.limit = row.limit /\ claimed.misfire = row.misfire
      /\ claimed.nextDueAt = row.nextDueAt /\ claimed.rule = row.rule
  BY <1>1, Zenon DEF WithClaim
<1>4. /\ row.limit > 0 /\ (row.misfire # "catch_up_bounded" => row.limit = 1)
      /\ row.nextDueAt >= 0 /\ (IsOnce(row) => row.nextDueAt = row.rule.at)
  BY Zenon DEF ScheduleRow
<1>5. owner # None /\ expiry # NoTime
  BY PlannerAssumption DEF NoTime
<1>6. IsOnce(claimed) <=> IsOnce(row)
  BY <1>3, Zenon DEF IsOnce
<1>7. claimed \in ScheduleRow
  BY <1>2, <1>3, <1>4, <1>5, <1>6, Zenon DEF ScheduleRow
<1> QED
  BY <1>7, Zenon DEF claimed

\* Writing one row of the table.
LEMMA WriteOneRow ==
  ASSUME TablesOK, NEW n \in Names, NEW row \in ScheduleRow \cup {NoRow},
         schedule' = [schedule EXCEPT ![n] = row]
  PROVE  schedule' \in [Names -> ScheduleRow \cup {NoRow}]
BY Zenon DEF TablesOK

\* Every command writes a row that the CHECK constraints accept.
LEMMA CommandsType ==
  ASSUME TypeOK, NEW n \in Names,
         Delete(n) \/ Pause(n) \/ Resume(n) \/ \E d \in Definitions : Create(n, d) \/ Update(n, d)
  PROVE  TypeOK'
<1>0. TablesOK /\ LocalsOK
  BY TypeParts, Zenon
<1>1. SUFFICES \E row \in ScheduleRow \cup {NoRow} : Command(n, row) /\ nextId' \in Nat
  <2>1. PICK row \in ScheduleRow \cup {NoRow} : Command(n, row) /\ nextId' \in Nat
    BY <1>1, Zenon
  <2>2. schedule' \in [Names -> ScheduleRow \cup {NoRow}]
    BY <1>0, <2>1, WriteOneRow, Zenon DEF Command
  <2>3. commands' \in Nat /\ UNCHANGED <<clock, occurrence, local>>
    BY <1>0, <2>1 DEF Command, TablesOK
  <2>4. TablesOK'
    BY <1>0, <2>1, <2>2, <2>3, Zenon DEF TablesOK
  <2>5. LocalsOK'
    BY <1>0, <2>3, Zenon DEF LocalsOK, InHand, local
  <2> QED
    BY <2>4, <2>5, TypeParts, Zenon
<1>2. nextId \in Nat /\ (Exists(n) => schedule[n] \in ScheduleRow)
  BY Zenon DEF TypeOK, Exists
<1>3. CASE Delete(n)
  BY <1>2, <1>3, Zenon DEF Delete
<1>4. CASE Pause(n)
  <2> DEFINE row == schedule[n]
             new == Row(row.id, row.version + 1, row, "paused", row.nextDueAt)
  <2>1. row \in ScheduleRow /\ row.status # "exhausted" /\ UNCHANGED nextId
    BY <1>2, <1>4, Zenon DEF Pause
  <2>2. Command(n, new)
    BY <1>4, <2>1, StatusRow, Zenon DEF Pause
  <2> HIDE DEF row
  <2>3. /\ Defines(row) /\ row.id \in Ids /\ row.version + 1 \in Nat
        /\ DueFits(row.rule, "paused", row.nextDueAt)
    BY <2>1, RowDefines DEF DueFits, IsOnce
  <2>4. new \in ScheduleRow
    BY <2>3, WrittenRow, Zenon
  <2> QED
    BY <1>2, <2>1, <2>2, <2>4, Zenon
<1>5. CASE Resume(n)
  <2> DEFINE row == schedule[n]
             due(now) == IF row.rule.kind = "once" THEN row.rule.at ELSE R!Next(row.rule, now)
             new(next) == Row(row.id, row.version + 1, row, "active", next)
  <2>1. row \in ScheduleRow /\ row.status # "exhausted" /\ UNCHANGED nextId
    BY <1>2, <1>5, Zenon DEF Resume
  <2>2. PICK now \in Readings : due(now) # R!NoNext /\ Command(n, new(due(now)))
    BY <1>5, <2>1, StatusRow, Zenon DEF Resume
  <2>3. now \in Nat
    BY ReadingType, Zenon
  <2> HIDE DEF row
  <2>4. Defines(row) /\ row.id \in Ids /\ row.version + 1 \in Nat /\ row.rule \in Rules
    BY <2>1, RowDefines DEF Defines
  <2>5. DueFits(row.rule, "active", due(now))
    <3>1. CASE row.rule.kind = "once"
      BY <2>4, <3>1, RuleParts, Zenon DEF DueFits
    <3>2. CASE row.rule.kind # "once"
      BY <2>2, <2>3, <2>4, <3>2, NextLater, Zenon DEF DueFits
    <3> QED
      BY <3>1, <3>2, Zenon
  <2> HIDE DEF due
  <2>6. new(due(now)) \in ScheduleRow
    BY <2>4, <2>5, WrittenRow, Zenon
  <2> HIDE DEF new
  <2> QED
    BY <1>2, <2>1, <2>2, <2>6, Zenon
<1>6. ASSUME NEW d \in Definitions, NEW i \in Ids, NEW version \in Nat, NEW now \in Readings,
             FirstDue(d.rule, now) # R!NoNext
      PROVE  Row(i, version, d, d.status, FirstDue(d.rule, now)) \in ScheduleRow
  <2>1. Defines(d) /\ d.status \in {"active", "paused"} /\ d.rule \in Rules /\ now \in Nat
    BY DefinitionDefines, ReadingType, Zenon DEF Rules
  <2>2. DueFits(d.rule, d.status, FirstDue(d.rule, now))
    BY <1>6, <2>1, FirstDueType, Zenon DEF DueFits
  <2> QED
    BY <2>1, <2>2, WrittenRow, Zenon
<1>7. ASSUME NEW d \in Definitions, Create(n, d)
      PROVE  \E row \in ScheduleRow \cup {NoRow} : Command(n, row) /\ nextId' \in Nat
  <2>1. PICK now \in Readings : /\ FirstDue(d.rule, now) # R!NoNext
                                /\ Command(n, Row(nextId, 1, d, d.status, FirstDue(d.rule, now)))
    BY <1>7, Zenon DEF Create
  <2>2. nextId \in Ids /\ nextId' = nextId + 1 /\ 1 \in Nat
    BY <1>7, Zenon DEF Create
  <2>3. Row(nextId, 1, d, d.status, FirstDue(d.rule, now)) \in ScheduleRow
    BY <1>6, <2>1, <2>2, Zenon
  <2> QED
    BY <1>2, <2>1, <2>2, <2>3
<1>8. ASSUME NEW d \in Definitions, Update(n, d)
      PROVE  \E row \in ScheduleRow \cup {NoRow} : Command(n, row) /\ nextId' \in Nat
  <2> DEFINE old == schedule[n]
             used == IF old.status = "exhausted" THEN "exhausted" ELSE d.status
             same == Row(old.id, old.version + 1, d, used, old.nextDueAt)
             new(now) == Row(old.id, old.version + 1, d, d.status, FirstDue(d.rule, now))
  <2>1. old \in ScheduleRow /\ nextId' \in Nat
    BY <1>2, <1>8, Zenon DEF Update
  <2>2. \/ SameRunAt(d, old) /\ Command(n, same)
        \/ \E now \in Readings : FirstDue(d.rule, now) # R!NoNext /\ Command(n, new(now))
    BY <1>8, ZenonT(30) DEF Update
  <2> HIDE DEF old
  <2>3. old.id \in Ids /\ old.version + 1 \in Nat
    BY <2>1, RowDefines
  <2>4. CASE SameRunAt(d, old) /\ Command(n, same)
    <3>1. DueFits(d.rule, used, old.nextDueAt)
      <4>1. d.status \in {"active", "paused"}
        BY DefinitionDefines, Zenon
      <4>2. IF old.status = "exhausted" THEN old.nextDueAt = NoTime
            ELSE old.nextDueAt \in Nat /\ old.nextDueAt = d.rule.at
        BY <2>1, <2>4, RowDefines, ZenonT(30) DEF SameRunAt
      <4>3. d.rule.kind = "once"
        BY <2>4, Zenon DEF SameRunAt
      <4> QED
        BY <4>1, <4>2, <4>3, Zenon DEF DueFits
    <3> HIDE DEF used
    <3>2. same \in ScheduleRow
      BY <2>3, <3>1, DefinitionDefines, WrittenRow, Zenon
    <3> HIDE DEF same
    <3> QED
      BY <2>1, <2>4, <3>2, Zenon
  <2>5. ASSUME NEW now \in Readings, FirstDue(d.rule, now) # R!NoNext, Command(n, new(now))
        PROVE  \E row \in ScheduleRow \cup {NoRow} : Command(n, row) /\ nextId' \in Nat
    <3>1. new(now) \in ScheduleRow
      BY <1>6, <2>3, <2>5, Zenon
    <3> HIDE DEF new
    <3> QED
      BY <2>1, <2>5, <3>1, Zenon
  <2> QED
    BY <2>2, <2>4, <2>5, Zenon
<1> QED
  BY <1>3, <1>4, <1>5, <1>7, <1>8, Zenon

\* A claim takes rows into the batch as they are.
LEMMA RunType ==
  ASSUME TypeOK, HeldType, NEW c \in Cycles, Run(c)
  PROVE  TypeOK'
<1>0. TablesOK /\ LocalsOK
  BY TypeParts, Zenon
<1>1. PICK now \in Readings : \E claimed \in SUBSET Due(now) : Claim(c, now, claimed)
  BY Zenon DEF Run
<1>2. PICK claimed \in SUBSET Due(now) : Claim(c, now, claimed)
  BY <1>1, Zenon
<1>3. now + ClaimTTL \in Nat /\ now \in Int /\ WorkerOf[c] \in Workers
  BY ReadingType, PlannerAssumption
<1>4. ASSUME NEW n \in claimed
      PROVE  n \in Names /\ schedule[n] \in ScheduleRow /\ schedule[n].status = "active"
  BY Zenon DEF Due, TypeOK, Exists
<1>5. ASSUME NEW n \in Names PROVE schedule'[n] \in ScheduleRow \cup {NoRow}
  <2>1. CASE n \in claimed
    <3>1. schedule'[n] = SetClaim(schedule[n], WorkerOf[c], now + ClaimTTL)
      BY <1>2, <2>1, ZenonT(30) DEF Claim, SetClaim
    <3> QED
      BY <1>3, <1>4, <2>1, <3>1, ClaimedRow, Zenon
  <2>2. CASE n \notin claimed
    BY <1>0, <1>2, <2>2, Zenon DEF Claim, TablesOK
  <2> QED
    BY <2>1, <2>2, Zenon
<1>6. schedule' \in [Names -> ScheduleRow \cup {NoRow}]
  <2>1. schedule' = [n \in Names |-> schedule'[n]]
    BY <1>2, ZenonT(30) DEF Claim
  <2> QED
    BY <1>5, <2>1, Zenon
<1>7. TablesOK'
  BY <1>0, <1>2, <1>6, ZenonT(30) DEF Claim, TablesOK
<1>8. UNCHANGED <<item, open>>
  BY <1>2, Zenon DEF Claim
<1>9. CASE UNCHANGED <<batch, observed, pc>>
  <2>1. LocalsOK'
    BY <1>0, <1>8, <1>9, Zenon DEF LocalsOK, InHand
  <2> QED
    BY <1>7, <2>1, TypeParts, Zenon
<1>10. CASE /\ batch' = [batch EXCEPT ![c] = {Unclaimed(schedule[n]) : n \in claimed}]
           /\ observed' = [observed EXCEPT ![c] = now]
           /\ pc' = [pc EXCEPT ![c] = "plan"]
  <2>1. \A row \in {Unclaimed(schedule[n]) : n \in claimed} : row.id \in Ids /\ row.status = "active"
    BY <1>4, UnclaimedRow, RowsExist
  <2>2. \A k \in Cycles : \A row \in InHand(k)' : row.id \in Ids /\ row.status = "active"
    BY <1>0, <1>8, <1>10, <2>1, Zenon DEF LocalsOK, InHand, HeldType
  <2>3. LocalsOK'
    BY <1>0, <1>3, <1>8, <1>10, <2>2, Zenon DEF LocalsOK
  <2> QED
    BY <1>7, <2>3, TypeParts, Zenon
<1> QED
  BY <1>2, <1>9, <1>10, Zenon DEF Claim

\* A plan changes only what its cycle holds.
LEMMA PlanType ==
  ASSUME TypeOK, HeldType, NEW c \in Cycles, Plan(c)
  PROVE  TypeOK'
<1>0. TablesOK /\ LocalsOK
  BY TypeParts, Zenon
<1> DEFINE fails(row) == PlanSchedule(row, observed[c]).next = R!NoNext
<1>1. PICK row \in batch[c] :
        /\ batch' = [batch EXCEPT ![c] = @ \ {row}]
        /\ item' = [item EXCEPT ![c] = row]
        /\ pc' = [pc EXCEPT ![c] = IF fails(row) THEN "release" ELSE "insert"]
        /\ open' = [open EXCEPT ![c] =
             ~fails(row) /\ row.overlap = "forbid" /\ HasOpenOccurrence(row.id)]
  BY Zenon DEF Plan
<1> DEFINE seen == ~fails(row) /\ row.overlap = "forbid" /\ HasOpenOccurrence(row.id)
<1>2. open' = [open EXCEPT ![c] = seen]
  BY <1>1, Zenon
<1>3. seen \in BOOLEAN
  BY Zenon
<1> HIDE DEF seen, fails
<1>4. open' \in [Cycles -> BOOLEAN]
  BY <1>0, <1>2, <1>3, Zenon DEF LocalsOK
<1>5. pc' \in [Cycles -> {"idle", "plan", "insert", "release"}]
  BY <1>0, <1>1, Zenon DEF LocalsOK
<1>6. ASSUME NEW k \in Cycles, NEW r, r \in InHand(k)' PROVE r.id \in Ids /\ r.status = "active"
  <2>1. r \in InHand(k) \/ r = row
    BY <1>1, <1>6, Zenon DEF InHand, HeldType
  <2> QED
    BY <1>0, <2>1, Zenon DEF LocalsOK, InHand
<1>7. UNCHANGED <<clock, schedule, occurrence, nextId, commands, observed>>
  BY Zenon DEF Plan
<1>8. LocalsOK'
  BY <1>0, <1>4, <1>5, <1>6, <1>7, Zenon DEF LocalsOK
<1>9. TablesOK'
  BY <1>0, <1>7, Zenon DEF TablesOK
<1> QED
  BY <1>8, <1>9, TypeParts, Zenon

\* Going on with the next row changes only what the cycle holds.
LEMMA NextItemType ==
  ASSUME LocalsOK, HeldType, NEW c \in Cycles, NextItem(c), UNCHANGED batch
  PROVE  LocalsOK'
<1>1. /\ pc' \in [Cycles -> {"idle", "plan", "insert", "release"}]
      /\ observed' \in [Cycles -> Int] /\ open' \in [Cycles -> BOOLEAN]
  BY DEF LocalsOK, NextItem, NoTime
<1>2. ASSUME NEW k \in Cycles, NEW r, r \in InHand(k)' PROVE r \in InHand(k)
  BY <1>2, Zenon DEF InHand, NextItem, HeldType
<1> QED
  BY <1>1, <1>2, Zenon DEF LocalsOK

\* The commit of a plan leaves rows and occurrences that the tables accept.
LEMMA CommitType ==
  ASSUME TypeOK, PlannerInv, NEW c \in Cycles, NEW n \in Names, Commit(c, n)
  PROVE  /\ schedule' \in [Names -> ScheduleRow \cup {NoRow}]
         /\ occurrence' \in [Ids -> [Instants -> OccurrenceStatus]]
<1> DEFINE row == schedule[n]
           next == PlanSchedule(item[c], observed[c]).next
           status == IF next = NoTime THEN "exhausted" ELSE row.status
<1>0. TablesOK
  BY TypeParts, Zenon
<1>1. /\ item[c] = Unclaimed(row) /\ row \in ScheduleRow
      /\ IF IsOnce(item[c]) THEN next = NoTime ELSE next \in Nat
      /\ item[c].status = "active"
      /\ occurrence' \in [Ids -> [Instants -> OccurrenceStatus]]
  BY CommitInserts, Zenon DEF PlanFor
<1>2. schedule' = [schedule EXCEPT ![n] = Advanced(row, next)]
  BY <1>0, Zenon DEF Commit, TablesOK
<1> HIDE DEF row, next
<1>3. row.status = "active" /\ item[c].rule = row.rule
  BY <1>1, UnclaimedRow
<1>4. Advanced(row, next) = Row(row.id, row.version + 1, row, status, next)
  BY <1>1, AdvancedRow, Zenon
<1>5. DueFits(row.rule, status, next)
  BY <1>1, <1>3 DEF DueFits, IsOnce, NoTime
<1> HIDE DEF status
<1>6. Row(row.id, row.version + 1, row, status, next) \in ScheduleRow
  <2>1. Defines(row) /\ row.id \in Ids /\ row.version + 1 \in Nat
    BY <1>1, RowDefines
  <2> QED
    BY <1>5, <2>1, WrittenRow, Zenon
<1>7. Advanced(row, next) \in ScheduleRow
  BY <1>4, <1>6, Zenon
<1> QED
  BY <1>0, <1>1, <1>2, <1>7, WriteOneRow, Zenon

LEMMA MaterializeType ==
  ASSUME TypeOK, PlannerInv, NEW c \in Cycles, Materialize(c)
  PROVE  TypeOK'
<1>0. TablesOK /\ LocalsOK
  BY TypeParts, Zenon
<1>1. /\ schedule' \in [Names -> ScheduleRow \cup {NoRow}]
      /\ occurrence' \in [Ids -> [Instants -> OccurrenceStatus]]
  BY <1>0, MaterializeIsCommit, CommitType, Zenon DEF TablesOK
<1>2. NextItem(c) /\ UNCHANGED <<clock, nextId, commands, batch>>
  BY Zenon DEF Materialize
<1>3. TablesOK'
  BY <1>0, <1>1, <1>2, Zenon DEF TablesOK
<1>4. LocalsOK'
  BY <1>0, <1>2, NextItemType, Zenon DEF PlannerInv
<1> QED
  BY <1>3, <1>4, TypeParts, Zenon

LEMMA ReleaseType ==
  ASSUME TypeOK, PlannerInv, NEW c \in Cycles, ReleaseScheduleClaim(c)
  PROVE  TypeOK'
<1>0. TablesOK /\ LocalsOK
  BY TypeParts, Zenon
<1>1. schedule' \in [Names -> ScheduleRow \cup {NoRow}]
  <2>1. ASSUME NEW n \in Names, MayRelease(c, n), schedule' = [schedule EXCEPT ![n] = Unclaimed(@)]
        PROVE  schedule' \in [Names -> ScheduleRow \cup {NoRow}]
    <3>1. schedule[n] \in ScheduleRow
      BY <1>0, <2>1, Zenon DEF TablesOK, MayRelease, Exists
    <3>2. Unclaimed(schedule[n]) \in ScheduleRow
      BY <3>1, UnclaimedRow, Zenon
    <3>3. schedule' = [schedule EXCEPT ![n] = Unclaimed(schedule[n])]
      BY <2>1, Zenon
    <3> QED
      BY <1>0, <3>2, <3>3, WriteOneRow, Zenon
  <2> QED
    BY <1>0, <2>1, Zenon DEF ReleaseScheduleClaim, TablesOK
<1>2. NextItem(c) /\ UNCHANGED <<clock, occurrence, nextId, commands, batch>>
  BY Zenon DEF ReleaseScheduleClaim
<1>3. TablesOK'
  BY <1>0, <1>1, <1>2, Zenon DEF TablesOK
<1>4. LocalsOK'
  BY <1>0, <1>2, NextItemType, Zenon DEF PlannerInv
<1> QED
  BY <1>3, <1>4, TypeParts, Zenon

\* The rest of the system: the dispatcher, crashes and time.
LEMMA OthersType ==
  ASSUME TypeOK, PlannerInv,
         \/ \E i \in Ids, t \in Instants : CloseOccurrence(i, t)
         \/ \E w \in Workers : Crash(w)
         \/ Tick
         \/ UNCHANGED vars
  PROVE  TypeOK'
<1>0. TablesOK /\ LocalsOK
  BY TypeParts, Zenon
<1>1. ASSUME NEW i \in Ids, NEW t \in Instants, CloseOccurrence(i, t) PROVE TypeOK'
  <2>1. UNCHANGED <<clock, schedule, nextId, commands, local>>
    BY <1>1, Zenon DEF CloseOccurrence
  <2>2. occurrence' \in [Ids -> [Instants -> OccurrenceStatus]]
    BY <1>0, <1>1, Zenon DEF CloseOccurrence, TablesOK, OccurrenceStatus
  <2>3. TablesOK'
    BY <1>0, <2>1, <2>2, Zenon DEF TablesOK
  <2>4. LocalsOK'
    BY <1>0, <2>1, Zenon DEF LocalsOK, InHand, local
  <2> QED
    BY <2>3, <2>4, TypeParts, Zenon
<1>2. ASSUME NEW w \in Workers, Crash(w) PROVE TypeOK'
  <2>1. UNCHANGED <<clock, schedule, occurrence, nextId, commands>>
    BY <1>2, Zenon DEF Crash
  <2>2. TablesOK'
    BY <1>0, <2>1, Zenon DEF TablesOK
  <2>3. /\ pc' \in [Cycles -> {"idle", "plan", "insert", "release"}]
        /\ observed' \in [Cycles -> Int] /\ open' \in [Cycles -> BOOLEAN]
    <3>1. /\ pc' \in [Cycles -> {"idle", "plan", "insert", "release"}]
          /\ observed' \in [Cycles -> Int]
      BY <1>0, <1>2 DEF Crash, LocalsOK, NoTime
    <3>2. open' = [k \in Cycles |-> IF WorkerOf[k] = w THEN FALSE ELSE open[k]]
      BY <1>2, Zenon DEF Crash
    <3>3. \A k \in Cycles : (IF WorkerOf[k] = w THEN FALSE ELSE open[k]) \in BOOLEAN
      BY <1>0, Zenon DEF LocalsOK
    <3> QED
      BY <3>1, <3>2, <3>3, Zenon
  <2>4. ASSUME NEW k \in Cycles, NEW r, r \in InHand(k)' PROVE r \in InHand(k)
    BY <1>2, <2>4, Zenon DEF Crash, InHand
  <2>5. LocalsOK'
    BY <1>0, <2>3, <2>4, Zenon DEF LocalsOK
  <2> QED
    BY <2>2, <2>5, TypeParts, Zenon
<1>3. CASE Tick
  <2>1. clock' \in Nat /\ UNCHANGED <<schedule, occurrence, nextId, commands, local>>
    BY <1>0, <1>3 DEF Tick, TablesOK
  <2>2. TablesOK' /\ LocalsOK'
    BY <1>0, <2>1, Zenon DEF TablesOK, LocalsOK, InHand, local
  <2> QED
    BY <2>2, TypeParts, Zenon
<1>4. CASE UNCHANGED vars
  BY <1>4, Zenon DEF vars, TypeOK
<1> QED
  BY <1>1, <1>2, <1>3, <1>4, Zenon

\* Every step keeps the types of the variables.
LEMMA TypeStep ==
  ASSUME TypeOK, PlannerInv, [Next]_vars
  PROVE  TypeOK'
<1>1. HeldType
  BY Zenon DEF PlannerInv
<1> QED
  BY <1>1, RunType, PlanType, MaterializeType, ReleaseType, CommandsType, OthersType, Zenon DEF Next
=============================================================================
