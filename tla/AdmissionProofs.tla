-------------------------- MODULE AdmissionProofs ---------------------------
(***************************************************************************)
(* Proofs about Admission for every set of requests, every weekday field,  *)
(* every largest int and every first day of a search: what parseCronField  *)
(* returns, that a date is found inside the horizon, and that the          *)
(* handler's checks, the digest, prepare and the table agree.              *)
(***************************************************************************)
EXTENDS Admission, NumberLemmas, TLAPS

-----------------------------------------------------------------------------
(* One item of a weekday field.                                            *)

\* The numbers of an item up to v.
NumbersUpTo(i, v) == {u \in i.from..v : (u - i.from) % SplitStep(i) = 0}

\* The days that the loop has found once it has passed v.
DaysUpTo(i, v) == {Normalized(u) : u \in NumbersUpTo(i, v)}

\* What the checks leave of an item.
LEMMA ItemParts ==
  ASSUME NEW i \in Items, ~Rejected(i)
  PROVE  /\ i.from \in 0..7 /\ End(i) \in i.from..7 /\ SplitStep(i) \in Nat \ {0}
         /\ i.kind = "star" => i.from = 0 /\ End(i) = 7
<1>1. /\ i.from \in Int /\ i.to \in Int /\ SplitStep(i) \in Int
      /\ i.kind = "star" => i.from = 0 /\ i.to = 7
  <2> DEFINE Stars == [kind : {"star"}, from : {Minimum}, to : {Maximum}, slash : BOOLEAN, step : Steps \cup {1}]
             Others == [kind : {"value", "range"}, from : Values, to : Values, slash : BOOLEAN, step : Steps \cup {1}]
  <2>1. i \in Stars \/ i \in Others
    BY DEF Items
  <2>2. \A x \in Steps \cup {1} : x \in Int
    BY FieldAssumption
  <2>3. i.step \in Steps \cup {1}
    BY <2>1
  <2>4. SplitStep(i) \in Int
    BY <2>2, <2>3, Zenon DEF SplitStep
  <2>5. CASE i \in Stars
    BY <2>4, <2>5 DEF Minimum, Maximum
  <2>6. CASE i \in Others
    BY <2>4, <2>6, FieldAssumption, Zenon
  <2> QED
    BY <2>1, <2>5, <2>6
<1>2. /\ SplitStep(i) >= 1 /\ i.from <= i.to
      /\ i.from \in 0..7 /\ i.to \in 0..7
  BY <1>1 DEF Rejected, Minimum, Maximum
<1> QED
  BY <1>1, <1>2 DEF End, Maximum

\* Between a multiple of the step and the next one there is none.
LEMMA NoneBetween ==
  ASSUME NEW from \in Int, NEW v \in Int, NEW u \in Int, NEW step \in Nat \ {0},
         (v - from) % step = 0, v < u, u < v + step
  PROVE  (u - from) % step # 0
<1> SUFFICES ASSUME (u - from) % step = 0 PROVE FALSE
  OBVIOUS
<1> DEFINE m == (v - from) \div step
           q == (u - from) \div step
<1>1. m \in Int /\ v - from = m * step /\ q \in Int /\ u - from = q * step
  OBVIOUS
<1> HIDE DEF m, q
<1>2. m * step < q * step /\ q * step < m * step + step
  BY <1>1
<1> QED
  BY <1>1, <1>2, NoMultipleBetween

\* A step further is a multiple again.
LEMMA StepFurther ==
  ASSUME NEW from \in Int, NEW v \in Int, NEW step \in Nat \ {0}, (v - from) % step = 0
  PROVE  ((v + step) - from) % step = 0
<1> DEFINE m == (v - from) \div step + 1
           x == (v + step) - from
           d == x \div step
           r == x % step
<1>1. m \in Int /\ x = m * step
  OBVIOUS
<1>2. d \in Int /\ r \in Int /\ x = d * step + r /\ 0 <= r /\ r < step
  OBVIOUS
<1> SUFFICES ASSUME r # 0 PROVE FALSE
  OBVIOUS
<1> HIDE DEF m, d, r, x
<1>3. d * step < m * step /\ m * step < d * step + step
  BY <1>1, <1>2
<1> QED
  BY <1>1, <1>2, <1>3, NoMultipleBetween

\* Ints that fit are added as numbers.
LEMMA PlusFits ==
  ASSUME NEW a \in Nat, NEW b \in Nat, a + b <= 7
  PROVE  Plus(a, b) = a + b
<1>1. MaxInt \in Nat /\ MaxInt >= 7
  BY FieldAssumption DEF Maximum
<1>2. a + b + MaxInt + 1 \in Nat /\ 2 * (MaxInt + 1) \in Nat /\ a + b + MaxInt + 1 < 2 * (MaxInt + 1)
  BY <1>1
<1>3. (a + b + MaxInt + 1) % (2 * (MaxInt + 1)) = a + b + MaxInt + 1
  BY <1>2, SmallRemainder
<1> QED
  BY <1>1, <1>3 DEF Plus

\* One turn of the loop: the numbers up to v, with none before the next turn or,
\* when the step would leave the range, before its end.
LEMMA TurnOfLoop ==
  ASSUME NEW i \in Items, ~Rejected(i), NEW v \in i.from..End(i), (v - i.from) % SplitStep(i) = 0,
         NEW e \in Int, v <= e, e < v + SplitStep(i)
  PROVE  NumbersUpTo(i, e) = NumbersUpTo(i, v - 1) \cup {v}
<1>1. i.from \in Int /\ v \in Int /\ SplitStep(i) \in Nat \ {0}
  BY ItemParts
<1>2. \A u \in Int : v < u /\ u < v + SplitStep(i) => (u - i.from) % SplitStep(i) # 0
  BY <1>1, NoneBetween, Zenon
<1>3. \A u : u \in NumbersUpTo(i, e) => u \in NumbersUpTo(i, v - 1) \cup {v}
  BY <1>1, <1>2 DEF NumbersUpTo
<1>4. \A u : u \in NumbersUpTo(i, v - 1) \cup {v} => u \in NumbersUpTo(i, e)
  BY <1>1 DEF NumbersUpTo
<1> QED
  BY <1>3, <1>4

\* The days of an item are weekdays, and it has one; a star has them all.
LEMMA DaysOfItem ==
  ASSUME NEW i \in Items, ~Rejected(i)
  PROVE  /\ Days(i) = DaysUpTo(i, End(i)) /\ Days(i) \subseteq 0..6 /\ Days(i) # {}
         /\ i.kind = "star" /\ SplitStep(i) = 1 => Days(i) = 0..6
<1>1. /\ i.from \in 0..7 /\ End(i) \in i.from..7 /\ SplitStep(i) \in Nat \ {0}
      /\ i.kind = "star" => i.from = 0 /\ End(i) = 7
  BY ItemParts
<1>2. Days(i) = DaysUpTo(i, End(i))
  BY Zenon DEF Days, DaysUpTo, NumbersUpTo
<1>3. \A u \in NumbersUpTo(i, End(i)) : u \in 0..7
  BY <1>1 DEF NumbersUpTo
<1>4. \A u \in 0..7 : Normalized(u) \in 0..6
  BY DEF Normalized
<1>5. i.from - i.from = 0 /\ 0 % SplitStep(i) = 0
  BY <1>1, SmallRemainder
<1>6. i.from \in NumbersUpTo(i, End(i))
  BY <1>1, <1>5 DEF NumbersUpTo
<1>7. ASSUME i.kind = "star", SplitStep(i) = 1 PROVE 0..6 \subseteq Days(i)
  <2>1. \A u \in 0..6 : u \in NumbersUpTo(i, End(i)) /\ Normalized(u) = u
    BY <1>1, <1>7 DEF NumbersUpTo, Normalized
  <2> QED
    BY <1>2, <2>1 DEF DaysUpTo
<1> QED
  BY <1>2, <1>3, <1>4, <1>6, <1>7 DEF DaysUpTo

\* The turn of the loop, in days.
LEMMA TurnInDays ==
  ASSUME NEW i \in Items, ~Rejected(i), NEW v \in i.from..End(i), (v - i.from) % SplitStep(i) = 0,
         NEW e \in Int, v <= e, e < v + SplitStep(i)
  PROVE  DaysUpTo(i, e) = DaysUpTo(i, v - 1) \cup {Normalized(v)}
<1>1. NumbersUpTo(i, e) = NumbersUpTo(i, v - 1) \cup {v}
  BY TurnOfLoop
<1> QED
  BY <1>1, Zenon DEF DaysUpTo

-----------------------------------------------------------------------------
(* The field: what has been found of it.                                   *)

\* The items that have been taken from the list.
Taken == list \ left

\* allowed is what the items taken so far mean, and in the loop what the item of
\* the loop means up to the loop variable, which is one of its numbers.
FieldInv ==
  /\ wildcard \in BOOLEAN
  /\ pc \in {"next", "loop", "parsed"} =>
       /\ list \subseteq Items /\ list # {} /\ left \subseteq list
       /\ \A i \in Taken : ~Rejected(i)
       /\ wildcard => \E i \in Taken : i.kind = "star" /\ SplitStep(i) = 1
  /\ pc \in {"head", "prepare", "rule"} => allowed = {} /\ ~wildcard
  /\ pc \in {"next", "parsed"} => allowed = UNION {Days(i) : i \in Taken}
  /\ pc = "loop" => /\ item \in Taken
                    /\ value \in item.from..End(item) /\ (value - item.from) % SplitStep(item) = 0
                    /\ allowed = (UNION {Days(i) : i \in Taken \ {item}}) \cup DaysUpTo(item, value - 1)
  /\ pc = "parsed" => left = {}
  /\ pc = "error" => \E i \in list : Rejected(i)
  /\ pc \in {"search", "found", "rejected"} => allowed \subseteq 0..6 /\ allowed # {}

LEMMA NextItemKeepsField ==
  ASSUME FieldInv, NextItem
  PROVE  FieldInv'
<1>1. PICK i \in left :
        /\ left' = left \ {i} /\ item' = i
        /\ wildcard' = (wildcard \/ (SplitStep(i) = 1 /\ i.kind = "star"))
        /\ value' = i.from
        /\ pc' = IF Rejected(i) THEN "error" ELSE "loop"
  BY Zenon DEF NextItem
<1>2. /\ list \subseteq Items /\ list # {} /\ left \subseteq list /\ wildcard \in BOOLEAN
      /\ \A j \in Taken : ~Rejected(j)
      /\ wildcard => \E j \in Taken : j.kind = "star" /\ SplitStep(j) = 1
      /\ allowed = UNION {Days(j) : j \in Taken}
      /\ UNCHANGED <<list, allowed>>
  BY DEF NextItem, FieldInv
<1>3. wildcard' \in BOOLEAN
  BY <1>1, <1>2, Zenon
<1>4. CASE Rejected(i)
  <2>1. pc' = "error" /\ i \in list'
    BY <1>1, <1>2, <1>4
  <2>2. \E j \in list' : Rejected(j)
    BY <1>4, <2>1
  <2> QED
    BY <1>3, <2>1, <2>2 DEF FieldInv
<1>5. CASE ~Rejected(i)
  <2>1. pc' = "loop" /\ i \in Items
    BY <1>1, <1>2, <1>5
  <2>2. Taken' = Taken \cup {i} /\ i \notin Taken /\ Taken' \ {item'} = Taken
    BY <1>1, <1>2 DEF Taken
  <2>3. wildcard' => \E j \in Taken' : j.kind = "star" /\ SplitStep(j) = 1
    BY <1>1, <1>2, <2>2, Zenon
  <2>4. \A j \in Taken' : ~Rejected(j)
    BY <1>2, <1>5, <2>2, Zenon
  <2>5. i.from \in 0..7 /\ End(i) \in i.from..7 /\ SplitStep(i) \in Nat \ {0}
    BY <1>5, <2>1, ItemParts
  <2>6. i.from \in i.from..End(i) /\ i.from - i.from = 0 /\ 0 % SplitStep(i) = 0
    BY <2>5, SmallRemainder
  <2>7. NumbersUpTo(i, i.from - 1) = {}
    BY <2>5 DEF NumbersUpTo
  <2>8. allowed' = (UNION {Days(j) : j \in Taken' \ {item'}}) \cup DaysUpTo(i, i.from - 1)
    BY <1>2, <2>2, <2>7, Zenon DEF DaysUpTo
  <2>9. /\ list' \subseteq Items /\ list' # {} /\ left' \subseteq list'
    BY <1>1, <1>2
  <2>10. /\ item' \in Taken'
         /\ value' \in item'.from..End(item') /\ (value' - item'.from) % SplitStep(item') = 0
         /\ allowed' = (UNION {Days(j) : j \in Taken' \ {item'}}) \cup DaysUpTo(item', value' - 1)
    BY <1>1, <2>2, <2>6, <2>8
  <2> QED
    BY <1>3, <2>1, <2>3, <2>4, <2>9, <2>10 DEF FieldInv
<1> QED
  BY <1>4, <1>5

LEMMA AddKeepsField ==
  ASSUME FieldInv, Add
  PROVE  FieldInv'
<1> DEFINE older == UNION {Days(j) : j \in Taken \ {item}}
<1>1. /\ pc = "loop" /\ list \subseteq Items /\ list # {} /\ left \subseteq list /\ wildcard \in BOOLEAN
      /\ \A j \in Taken : ~Rejected(j)
      /\ wildcard => \E j \in Taken : j.kind = "star" /\ SplitStep(j) = 1
      /\ item \in Taken
      /\ value \in item.from..End(item) /\ (value - item.from) % SplitStep(item) = 0
      /\ allowed = older \cup DaysUpTo(item, value - 1)
  BY Zenon DEF Add, FieldInv
<1>2. /\ UNCHANGED <<list, left, item, wildcard>> /\ allowed' = allowed \cup {Normalized(value)}
      /\ Taken' = Taken
  BY DEF Add, Taken
<1>3. item \in Items /\ ~Rejected(item)
  BY <1>1 DEF Taken
<1>4. item.from \in 0..7 /\ End(item) \in item.from..7 /\ SplitStep(item) \in Nat \ {0} /\ value \in Nat
  BY <1>1, <1>3, ItemParts
<1> HIDE DEF older
<1>5. ASSUME NEW e \in Int, value <= e, e < value + SplitStep(item)
      PROVE  allowed' = older \cup DaysUpTo(item, e)
  <2>1. DaysUpTo(item, e) = DaysUpTo(item, value - 1) \cup {Normalized(value)}
    BY <1>1, <1>3, <1>5, TurnInDays
  <2> QED
    BY <1>1, <1>2, <2>1, Zenon
<1>6. CASE SplitStep(item) > End(item) - value
  <2>1. pc' = "next"
    BY <1>6 DEF Add
  <2>2. allowed' = older \cup Days(item)
    <3>1. End(item) \in Int /\ value <= End(item) /\ End(item) < value + SplitStep(item)
      BY <1>1, <1>4, <1>6
    <3>2. Days(item) = DaysUpTo(item, End(item))
      BY <1>3, DaysOfItem
    <3> QED
      BY <1>5, <3>1, <3>2
  <2>3. allowed' = UNION {Days(j) : j \in Taken}
    BY <1>1, <2>2, Zenon DEF older
  <2> QED
    BY <1>1, <1>2, <2>1, <2>3 DEF FieldInv
<1>7. CASE ~(SplitStep(item) > End(item) - value)
  <2>1. pc' = "loop" /\ value' = Plus(value, SplitStep(item))
    BY <1>1, <1>7 DEF Add
  <2>2. SplitStep(item) \in Nat /\ value + SplitStep(item) <= 7
    BY <1>1, <1>4, <1>7
  <2>3. value' = value + SplitStep(item)
    BY <1>4, <2>1, <2>2, PlusFits
  <2>4. value' \in item.from..End(item)
    BY <1>1, <1>4, <1>7, <2>3
  <2>5. ((value + SplitStep(item)) - item.from) % SplitStep(item) = 0
    <3>1. item.from \in Int /\ value \in Int /\ SplitStep(item) \in Nat \ {0}
      BY <1>4
    <3> QED
      BY <1>1, <3>1, StepFurther, Zenon
  <2>6. allowed' = older \cup DaysUpTo(item, value' - 1)
    <3>1. value' - 1 \in Int /\ value <= value' - 1 /\ value' - 1 < value + SplitStep(item)
      BY <1>4, <2>3
    <3> QED
      BY <1>5, <3>1
  <2>7. (value' - item.from) % SplitStep(item) = 0
    BY <2>3, <2>5, Zenon
  <2>8. allowed' = (UNION {Days(j) : j \in Taken' \ {item'}}) \cup DaysUpTo(item', value' - 1)
    BY <1>2, <2>6 DEF older
  <2> QED
    BY <1>1, <1>2, <2>1, <2>4, <2>7, <2>8 DEF FieldInv
<1> QED
  BY <1>6, <1>7

LEMMA FieldStep ==
  ASSUME FieldInv, [Next]_vars
  PROVE  FieldInv'
<1> DEFINE Same == UNCHANGED <<items, allowed, wildcard>>
<1>1. ASSUME UNCHANGED vars PROVE FieldInv'
  BY <1>1 DEF FieldInv, vars, calendarVars, Taken
<1>2. ASSUME ServeHTTP PROVE FieldInv'
  <2>1. pc = "head" /\ pc' \in {"refused", "read", "prepare"} /\ Same
    BY <1>2 DEF ServeHTTP
  <2> QED
    BY <2>1 DEF FieldInv, Taken, items
<1>3. ASSUME Prepare PROVE FieldInv'
  <2>1. pc = "prepare" /\ pc' \in {"late", "rule", "prepared"} /\ Same
    BY <1>3, Zenon DEF Prepare
  <2> QED
    BY <2>1 DEF FieldInv, Taken, items
<1>4. ASSUME Validate \/ RuleReturns PROVE FieldInv'
  <2>1. CASE pc' = "next"
    <3>1. pc = "rule" /\ UNCHANGED <<allowed, wildcard>> /\ \E i \in RuleItems : list' = {i} /\ left' = {i}
      BY <1>4, <2>1, Zenon DEF Validate, RuleReturns
    <3>2. PICK i \in RuleItems : list' = {i} /\ left' = {i}
      BY <3>1
    <3>3. list' \subseteq Items /\ list' # {} /\ Taken' = {}
      BY <3>2, RuleAssumption DEF Taken
    <3>4. allowed' = {} /\ ~wildcard' /\ wildcard' \in BOOLEAN
      BY <3>1 DEF FieldInv
    <3>5. allowed' = UNION {Days(j) : j \in Taken'}
      BY <3>3, <3>4, Zenon
    <3> QED
      BY <2>1, <3>2, <3>3, <3>4, <3>5 DEF FieldInv
  <2>2. CASE pc' \in {"prepared", "invalid"}
    <3>1. UNCHANGED <<allowed, wildcard>>
      BY <1>4 DEF Validate, RuleReturns
    <3> QED
      BY <2>2, <3>1 DEF FieldInv
  <2>3. pc' \in {"next", "prepared", "invalid"}
    BY <1>4, Zenon DEF Validate, RuleReturns
  <2> QED
    BY <2>1, <2>2, <2>3
<1>5. ASSUME Finish PROVE FieldInv'
  <2>1. pc = "next" /\ left = {} /\ pc' = "parsed" /\ Same
    BY <1>5 DEF Finish
  <2> QED
    BY <2>1 DEF FieldInv, Taken, items
<1>6. ASSUME ParseCron PROVE FieldInv'
  <2>1. pc = "parsed" /\ pc' \in {"search", "rejected"} /\ UNCHANGED <<allowed, wildcard>>
    BY <1>6 DEF ParseCron
  <2>2. /\ list \subseteq Items /\ list # {} /\ \A i \in list : ~Rejected(i)
        /\ allowed = UNION {Days(i) : i \in list} /\ wildcard \in BOOLEAN
    BY <2>1 DEF FieldInv, Taken
  <2>3. \A i \in list : Days(i) \subseteq 0..6 /\ Days(i) # {}
    BY <2>2, DaysOfItem
  <2>4. \A d \in allowed : \E i \in list : d \in Days(i)
    BY <2>2, Zenon
  <2>5. PICK i \in list : TRUE
    BY <2>2
  <2>6. PICK d \in Days(i) : TRUE
    BY <2>3
  <2>7. d \in allowed
    BY <2>2, <2>5, <2>6, Zenon
  <2>8. allowed \subseteq 0..6 /\ allowed # {}
    BY <2>3, <2>4, <2>7
  <2> QED
    BY <2>1, <2>2, <2>8 DEF FieldInv
<1>7. ASSUME Search PROVE FieldInv'
  <2>1. pc = "search" /\ pc' \in {"search", "found", "no_occurrence"} /\ Same
    BY <1>7 DEF Search
  <2> QED
    BY <2>1 DEF FieldInv
<1>8. CASE Next
  BY <1>2, <1>3, <1>4, <1>5, <1>6, <1>7, <1>8, NextItemKeepsField, AddKeepsField, Zenon
  DEF Next, Field, ParseField, Parse, Find
<1> QED
  BY <1>1, <1>8

-----------------------------------------------------------------------------
(* The search: a matching date lies ahead.                                 *)

\* A date of a leap year that fields f allow, whatever its weekday.
LeapTarget(f, y, m, d) ==
  /\ Leap(y) /\ m \in f.month /\ d \in 1..DaysIn(y, m)
  /\ f.anyDom \/ d \in f.dom

NotAfter(t, y, m, d) ==
  t.y < y \/ (t.y = y /\ (t.m < m \/ (t.m = m /\ t.d <= d)))

\* The first week of month m of the year after s has every weekday: weekday a is r
\* days ahead of t, or the month has not begun.
WeekdayAhead(s, t, a, m) ==
  \/ t.y < s.y + 1 \/ (t.y = s.y + 1 /\ t.m < m)
  \/ t.y = s.y + 1 /\ t.m = m /\ \E r \in 0..6 : (t.w + r) % 7 = a /\ t.d + r <= 7

\* A match for fields f and weekdays, any day if that field is a wildcard, lies ahead
\* of t in a search from s.
MatchAhead(f, s, any, weekdays, t) ==
  IF any
  THEN \E y \in (s.y + 1)..(s.y + 8), m \in Nat, d \in Nat :
         LeapTarget(f, y, m, d) /\ NotAfter(t, y, m, d)
  ELSE \E a \in weekdays, m \in f.month : WeekdayAhead(s, t, a, m)

Ahead(t) == MatchAhead(fields, start, wildcard, allowed, t)

SearchInv ==
  /\ pc \in {"search", "found"} => fields \in DayFields /\ start \in Starts /\ Date(day) /\ Ahead(day)
  /\ pc = "search" => HasPossibleCalendarDate(fields)
  /\ pc = "rejected" => fields \in DayFields /\ ~HasPossibleCalendarDate(fields)
  /\ pc \in {"search", "rejected"} => list = {}
  /\ pc # "no_occurrence"

\* The length of a month; a leap year is as long as 2000, and no year is longer.
LEMMA MonthLength ==
  ASSUME NEW y \in Nat, NEW m \in 1..12
  PROVE  /\ DaysIn(y, m) \in 28..31 /\ DaysIn(y, m) <= DaysIn(2000, m)
         /\ Leap(y) => DaysIn(y, m) = DaysIn(2000, m)
<1>1. Leap(2000)
  BY DEF Leap
<1>2. \A z : /\ m = 2 => DaysIn(z, m) = IF Leap(z) THEN 29 ELSE 28
             /\ m \in {4, 6, 9, 11} => DaysIn(z, m) = 30
             /\ m \in {1, 3, 5, 7, 8, 10, 12} => DaysIn(z, m) = 31
  BY DEF DaysIn
<1>3. m = 2 \/ m \in {4, 6, 9, 11} \/ m \in {1, 3, 5, 7, 8, 10, 12}
  OBVIOUS
<1>4. CASE m = 2
  BY <1>1, <1>2, <1>4
<1>5. CASE m \in {4, 6, 9, 11}
  BY <1>2, <1>5
<1>6. CASE m \in {1, 3, 5, 7, 8, 10, 12}
  BY <1>2, <1>6
<1> QED
  BY <1>3, <1>4, <1>5, <1>6

\* Eight years hold a leap year, around a century too.
LEMMA LeapSoon ==
  ASSUME NEW y \in Nat
  PROVE  \E z \in (y + 1)..(y + 8) : Leap(z)
<1> DEFINE q == y \div 4
           z == 4 * (q + 1)
<1>1. z \in (y + 1)..(y + 4) /\ z % 4 = 0
  <2>1. q \in Int /\ 4 * q <= y /\ y < 4 * q + 4
    OBVIOUS
  <2> HIDE DEF q
  <2> QED
    BY <2>1
<1> HIDE DEF z
<1>2. CASE z % 100 # 0
  BY <1>1, <1>2 DEF Leap
<1>3. CASE z % 100 = 0
  <2>1. z + 4 \in (y + 1)..(y + 8) /\ (z + 4) % 4 = 0 /\ (z + 4) % 100 # 0
    BY <1>1, <1>3
  <2> QED
    BY <2>1 DEF Leap
<1> QED
  BY <1>2, <1>3

\* The day after a date is a date, and it is not after a later date.
LEMMA TomorrowIsDate ==
  ASSUME NEW t, Date(t)
  PROVE  LET n == Tomorrow(t) IN
         /\ Date(n) /\ n.w = (t.w + 1) % 7
         /\ \/ n.y = t.y /\ n.m = t.m /\ n.d = t.d + 1
            \/ t.d = DaysIn(t.y, t.m) /\ n.d = 1 /\ t.m < 12 /\ n.y = t.y /\ n.m = t.m + 1
            \/ t.d = DaysIn(t.y, t.m) /\ n.d = 1 /\ t.m = 12 /\ n.y = t.y + 1 /\ n.m = 1
<1> DEFINE w == (t.w + 1) % 7
<1>1. t.y \in Nat /\ t.m \in 1..12 /\ t.d \in 1..31 /\ t.w \in 0..6 /\ t.d <= DaysIn(t.y, t.m)
  BY DEF Date
<1>2. \A y \in Nat : \A m \in 1..12 : DaysIn(y, m) \in 28..31
  BY MonthLength
<1>3. w \in 0..6
  BY <1>1
<1> HIDE DEF w
<1>4. CASE t.d < DaysIn(t.y, t.m)
  <2>1. Tomorrow(t) = [y |-> t.y, m |-> t.m, d |-> t.d + 1, w |-> w]
    BY <1>4 DEF Tomorrow, w
  <2>2. t.d + 1 \in 1..31 /\ t.d + 1 <= DaysIn(t.y, t.m)
    BY <1>1, <1>2, <1>4
  <2> QED
    BY <1>1, <1>3, <2>1, <2>2 DEF Date, w
<1>5. CASE ~(t.d < DaysIn(t.y, t.m)) /\ t.m < 12
  <2>1. Tomorrow(t) = [y |-> t.y, m |-> t.m + 1, d |-> 1, w |-> w]
    BY <1>5 DEF Tomorrow, w
  <2>2. t.m + 1 \in 1..12 /\ t.d = DaysIn(t.y, t.m)
    BY <1>1, <1>2, <1>5
  <2>3. 1 <= DaysIn(t.y, t.m + 1)
    BY <1>1, <1>2, <2>2
  <2> QED
    BY <1>1, <1>3, <1>5, <2>1, <2>2, <2>3 DEF Date, w
<1>6. CASE ~(t.d < DaysIn(t.y, t.m)) /\ ~(t.m < 12)
  <2>1. Tomorrow(t) = [y |-> t.y + 1, m |-> 1, d |-> 1, w |-> w]
    BY <1>6 DEF Tomorrow, w
  <2>2. t.y + 1 \in Nat /\ t.m = 12 /\ t.d = DaysIn(t.y, t.m)
    BY <1>1, <1>2, <1>6
  <2>3. 1 <= DaysIn(t.y + 1, 1)
    BY <1>2, <2>2
  <2> QED
    BY <1>1, <1>3, <2>1, <2>2, <2>3 DEF Date, w
<1> QED
  BY <1>4, <1>5, <1>6

\* A date ahead is inside the horizon.
LEMMA AheadIsInside ==
  ASSUME NEW t, Date(t), start \in Starts, wildcard \in BOOLEAN, Ahead(t)
  PROVE  ~PastLimit(t)
<1>1. t.y \in Nat /\ start.y \in Nat
  BY CalendarAssumption DEF Date
<1>2. t.y <= start.y + 8
  <2>1. CASE wildcard
    <3>1. PICK y \in (start.y + 1)..(start.y + 8) : \E m \in Nat, d \in Nat : NotAfter(t, y, m, d)
      BY <2>1, Zenon DEF Ahead, MatchAhead
    <3>2. y \in Int /\ y <= start.y + 8
      BY <1>1
    <3>3. t.y < y \/ t.y = y
      BY <3>1, Zenon DEF NotAfter
    <3> QED
      BY <1>1, <3>2, <3>3
  <2>2. CASE ~wildcard
    BY <1>1, <2>2 DEF Ahead, MatchAhead, WeekdayAhead
  <2> QED
    BY <2>1, <2>2
<1>3. SearchYears \in Nat /\ SearchYears > 8
  BY CalendarAssumption
<1>4. t.y < start.y + SearchYears
  BY <1>1, <1>2, <1>3
<1> QED
  BY <1>1, <1>3, <1>4 DEF PastLimit

\* The days of a week go round.
LEMMA WeekGoesRound ==
  ASSUME NEW w \in 0..6, NEW a \in 0..6
  PROVE  /\ \A r \in 1..6 : (((w + 1) % 7) + (r - 1)) % 7 = (w + r) % 7
         /\ \E r \in 0..6 : (w + r) % 7 = a
<1>1. \A r \in 1..6 : (((w + 1) % 7) + (r - 1)) % 7 = (w + r) % 7
  <2>1. CASE w = 6
    <3>1. (w + 1) % 7 = 0 /\ \A r \in 1..6 : (w + r) % 7 = r - 1 /\ (0 + (r - 1)) % 7 = r - 1
      BY <2>1
    <3> QED
      BY <3>1
  <2>2. CASE w # 6
    <3>1. (w + 1) % 7 = w + 1 /\ \A r \in 1..6 : (w + 1) + (r - 1) = w + r
      BY <2>2
    <3> QED
      BY <3>1
  <2> QED
    BY <2>1, <2>2
<1>2. CASE w <= a
  <2>1. a - w \in 0..6 /\ (w + (a - w)) % 7 = a
    BY <1>2
  <2> QED
    BY <1>1, <2>1
<1>3. CASE a < w
  <2>1. (a + 7) - w \in 0..6 /\ (w + ((a + 7) - w)) % 7 = a
    BY <1>3
  <2> QED
    BY <1>1, <2>1
<1> QED
  BY <1>2, <1>3

\* A day that is no match is followed by a day that has the date still ahead.
LEMMA AheadTomorrow ==
  ASSUME NEW t, Date(t), fields \in DayFields, start \in Starts, wildcard \in BOOLEAN,
         allowed \subseteq 0..6, Ahead(t), ~Matches(t)
  PROVE  Ahead(Tomorrow(t))
<1> DEFINE n == Tomorrow(t)
<1>1. /\ t.y \in Nat /\ t.m \in 1..12 /\ t.d \in 1..31 /\ t.w \in 0..6 /\ start.y \in Nat
      /\ fields.month \subseteq 1..12 /\ fields.anyDom \in BOOLEAN
  BY CalendarAssumption DEF Date
<1>2. /\ n.w = (t.w + 1) % 7
      /\ \/ n.y = t.y /\ n.m = t.m /\ n.d = t.d + 1
         \/ t.d = DaysIn(t.y, t.m) /\ n.d = 1 /\ t.m < 12 /\ n.y = t.y /\ n.m = t.m + 1
         \/ t.d = DaysIn(t.y, t.m) /\ n.d = 1 /\ t.m = 12 /\ n.y = t.y + 1 /\ n.m = 1
  BY TomorrowIsDate
<1> HIDE DEF n
<1>3. CASE wildcard
  <2>1. PICK y \in (start.y + 1)..(start.y + 8), m \in Nat, d \in Nat :
          LeapTarget(fields, y, m, d) /\ NotAfter(t, y, m, d)
    BY <1>3, Zenon DEF Ahead, MatchAhead
  <2>2. /\ m \in fields.month /\ d \in 1..DaysIn(y, m) /\ DaysIn(y, m) \in 28..31
        /\ fields.anyDom \/ d \in fields.dom
    BY <1>1, <2>1, MonthLength DEF LeapTarget
  <2>3. ~(t.m = m /\ t.d = d)
    BY <1>1, <1>3, <2>2, Zenon DEF Matches
  <2>4. t.y = y /\ t.m = m => t.d < DaysIn(t.y, t.m)
    BY <1>1, <2>1, <2>2, <2>3 DEF NotAfter
  <2>5. y \in Nat /\ m \in 1..12 /\ 1 <= d
    BY <1>1, <2>1, <2>2
  <2>6. NotAfter(n, y, m, d)
    BY <1>1, <1>2, <2>1, <2>3, <2>4, <2>5 DEF NotAfter
  <2> QED
    BY <1>3, <2>1, <2>6, Zenon DEF Ahead, MatchAhead, n
<1>4. CASE ~wildcard
  <2>1. PICK a \in allowed, m \in fields.month : WeekdayAhead(start, t, a, m)
    BY <1>4, Zenon DEF Ahead, MatchAhead
  <2>2. a \in 0..6 /\ m \in 1..12 /\ DaysIn(t.y, t.m) \in 28..31
    <3>1. DaysIn(t.y, t.m) \in 28..31
      BY <1>1, MonthLength
    <3> QED
      BY <1>1, <2>1, <3>1, Zenon
  <2>3. t.m = m => t.w # a
    BY <1>1, <1>4, <2>1, Zenon DEF Matches
  <2>4. ASSUME t.y = start.y + 1, t.m = m, \E r \in 0..6 : (t.w + r) % 7 = a /\ t.d + r <= 7
        PROVE  WeekdayAhead(start, n, a, m)
    <3>1. PICK r \in 0..6 : (t.w + r) % 7 = a /\ t.d + r <= 7
      BY <2>4
    <3>2. r # 0
      BY <1>1, <2>3, <2>4, <3>1
    <3>3. n.y = t.y /\ n.m = t.m /\ n.d = t.d + 1
      BY <1>1, <1>2, <2>2, <3>1, <3>2
    <3>4. (n.w + (r - 1)) % 7 = a
      BY <1>1, <1>2, <2>2, <3>1, <3>2, WeekGoesRound
    <3>5. r - 1 \in 0..6 /\ n.d + (r - 1) <= 7
      BY <1>1, <3>1, <3>2, <3>3
    <3> QED
      BY <2>4, <3>3, <3>4, <3>5, Zenon DEF WeekdayAhead
  <2>5. ASSUME t.y < start.y + 1 \/ (t.y = start.y + 1 /\ t.m < m)
        PROVE  WeekdayAhead(start, n, a, m)
    <3>1. \/ n.y < start.y + 1 \/ (n.y = start.y + 1 /\ n.m < m)
          \/ n.y = start.y + 1 /\ n.m = m /\ n.d = 1
      BY <1>1, <1>2, <2>2, <2>5
    <3>2. n.w \in 0..6
      BY <1>1, <1>2
    <3>3. PICK r \in 0..6 : (n.w + r) % 7 = a
      BY <2>2, <3>2, WeekGoesRound
    <3>4. n.d = 1 => n.d + r <= 7
      BY <3>3
    <3> QED
      BY <3>1, <3>3, <3>4, Zenon DEF WeekdayAhead
  <2>6. WeekdayAhead(start, n, a, m)
    BY <2>1, <2>4, <2>5 DEF WeekdayAhead
  <2> QED
    BY <1>4, <2>1, <2>6, Zenon DEF Ahead, MatchAhead, n
<1> QED
  BY <1>3, <1>4

\* The day and month lists name a date of a leap year.
NamesADate(f) == \E m \in f.month : \E d \in 1..DaysIn(2000, m) : d \in f.dom

\* An accepted expression has a date ahead of every start.
LEMMA AcceptedIsAhead ==
  ASSUME NEW f \in DayFields, NEW s \in Starts, NEW any \in BOOLEAN, NEW weekdays, weekdays # {},
         ~any \/ f.anyDom \/ NamesADate(f)
  PROVE  MatchAhead(f, s, any, weekdays, s)
<1>1. /\ s.y \in Nat
      /\ f.month \subseteq 1..12 /\ f.month # {} /\ f.anyDom \in BOOLEAN
  BY CalendarAssumption, SMTT(30) DEF Date
<1>2. CASE any
  <2>1. PICK y \in (s.y + 1)..(s.y + 8) : Leap(y)
    BY <1>1, LeapSoon, Zenon
  <2>2. y \in Nat /\ s.y < y
    BY <1>1
  <2>3. \A m \in 1..12 : DaysIn(y, m) = DaysIn(2000, m) /\ DaysIn(y, m) \in 28..31
    BY <2>1, <2>2, MonthLength
  <2>4. \E m \in f.month : \E d \in 1..DaysIn(y, m) : f.anyDom \/ d \in f.dom
    <3>1. CASE f.anyDom
      <4>1. PICK m \in f.month : TRUE
        BY <1>1
      <4>2. 1 \in 1..DaysIn(y, m)
        BY <1>1, <2>3, <4>1
      <4> QED
        BY <3>1, <4>1, <4>2
    <3>2. CASE ~f.anyDom
      <4>1. PICK m \in f.month : \E d \in 1..DaysIn(2000, m) : d \in f.dom
        BY <1>2, <3>2 DEF NamesADate
      <4>2. DaysIn(y, m) = DaysIn(2000, m)
        BY <1>1, <2>3
      <4> QED
        BY <4>1, <4>2
    <3> QED
      BY <3>1, <3>2
  <2>5. PICK m \in f.month : \E d \in 1..DaysIn(y, m) : f.anyDom \/ d \in f.dom
    BY <2>4, Zenon
  <2>6. PICK d \in 1..DaysIn(y, m) : f.anyDom \/ d \in f.dom
    BY <2>5
  <2>7. m \in Nat /\ d \in Nat
    BY <1>1, <2>3, <2>5, <2>6
  <2>8. LeapTarget(f, y, m, d) /\ NotAfter(s, y, m, d)
    BY <2>1, <2>2, <2>5, <2>6, <2>7 DEF LeapTarget, NotAfter
  <2> QED
    BY <1>2, <2>1, <2>7, <2>8, Zenon DEF MatchAhead
<1>3. CASE ~any
  <2>1. s.y < s.y + 1
    BY <1>1
  <2> QED
    BY <1>1, <1>3, <2>1, Zenon DEF MatchAhead, WeekdayAhead
<1> QED
  BY <1>2, <1>3

LEMMA SearchStep ==
  ASSUME FieldInv, SearchInv, [Next]_vars
  PROVE  SearchInv'
<1> DEFINE elsewhere == {"search", "found", "rejected", "no_occurrence"}
<1>1. ASSUME UNCHANGED vars PROVE SearchInv'
  <2>1. UNCHANGED <<pc, list, fields, start, day, wildcard, allowed>>
    BY <1>1 DEF vars, calendarVars
  <2> QED
    BY <2>1 DEF SearchInv, Ahead, HasPossibleCalendarDate
<1>2. ASSUME ServeHTTP \/ Prepare \/ Validate \/ RuleReturns \/ NextItem \/ Add \/ Finish PROVE SearchInv'
  <2>1. pc' \notin elsewhere
    BY <1>2, Zenon DEF ServeHTTP, Prepare, Validate, RuleReturns, NextItem, Add, Finish
  <2> QED
    BY <2>1 DEF SearchInv
<1>3. ASSUME ParseCron PROVE SearchInv'
  <2>1. /\ fields' \in DayFields /\ start' \in Starts /\ day' = start'
        /\ pc' = IF HasPossibleCalendarDate(fields') THEN "search" ELSE "rejected"
        /\ UNCHANGED <<allowed, wildcard>> /\ wildcard \in BOOLEAN /\ list' = {}
    BY <1>3 DEF ParseCron, FieldInv
  <2>2. CASE HasPossibleCalendarDate(fields')
    <3>1. pc' = "search" /\ Date(day')
      BY <2>1, <2>2, CalendarAssumption
    <3>2. allowed' # {}
      BY <1>3, <3>1, FieldStep DEF FieldInv, Next, Parse
    <3>3. MatchAhead(fields', start', wildcard', allowed', start')
      BY <2>1, <2>2, <3>2, AcceptedIsAhead DEF HasPossibleCalendarDate, NamesADate
    <3>4. HasPossibleCalendarDate(fields)'
      BY <2>1, <2>2, SMT DEF HasPossibleCalendarDate
    <3> QED
      BY <2>1, <3>1, <3>3, <3>4 DEF SearchInv, Ahead
  <2>3. CASE ~HasPossibleCalendarDate(fields')
    <3>1. pc' = "rejected"
      BY <2>1, <2>3
    <3>2. ~HasPossibleCalendarDate(fields)'
      BY <2>1, <2>3, Zenon DEF HasPossibleCalendarDate
    <3> QED
      BY <2>1, <3>1, <3>2 DEF SearchInv
  <2> QED
    BY <2>2, <2>3
<1>4. ASSUME Search PROVE SearchInv'
  <2>1. /\ pc = "search" /\ UNCHANGED <<list, wildcard, allowed, fields, start>> /\ list = {}
        /\ HasPossibleCalendarDate(fields) /\ fields \in DayFields /\ start \in Starts /\ Date(day) /\ Ahead(day)
        /\ wildcard \in BOOLEAN /\ allowed \subseteq 0..6
    BY <1>4 DEF Search, SearchInv, FieldInv, items
  <2>2. ~PastLimit(day)
    BY <2>1, AheadIsInside
  <2>3. CASE Matches(day)
    <3>1. pc' = "found" /\ day' = day
      BY <1>4, <2>2, <2>3 DEF Search
    <3> QED
      BY <2>1, <3>1 DEF SearchInv, Ahead
  <2>4. CASE ~Matches(day)
    <3>1. pc' = "search" /\ day' = Tomorrow(day)
      BY <1>4, <2>1, <2>2, <2>4 DEF Search
    <3>2. Date(Tomorrow(day)) /\ Ahead(Tomorrow(day))
      BY <2>1, <2>4, TomorrowIsDate, AheadTomorrow
    <3>3. HasPossibleCalendarDate(fields)'
      BY <2>1, SMT DEF HasPossibleCalendarDate
    <3> QED
      BY <2>1, <3>1, <3>2, <3>3 DEF SearchInv, Ahead
  <2> QED
    BY <2>3, <2>4
<1>5. CASE Next
  BY <1>2, <1>3, <1>4, <1>5, Zenon DEF Next, Field, ParseField, Parse, Find
<1> QED
  BY <1>1, <1>5

-----------------------------------------------------------------------------
(* The request: what has been checked and what it became.                  *)

\* What the checks of ServeHTTP leave of a command.
Admitted(r) ==
  /\ IdentifierAccepted(r.requestID) /\ IdentifierAccepted(r.tenant) /\ KeyAccepted(r.key)
  /\ ParseSchedulePath(r) /\ SupportedMethod(r) /\ r.verb # "GET"
  /\ IsAction(r) \/ ScheduleAccepted(r)

\* The handler has let the request through, and made it a schedule and a digest.
Handled ==
  /\ req \in Requests /\ Admitted(req)
  /\ ~IsAction(req) => sched = NormalizedSchedule(ToDomain(req)) /\ digest.payload = sched

\* The request brings a recurrence rule.
WithRule == ~IsAction(req) /\ sched.runAt = NoInstant

\* parseCron is at work, or has returned.
Parsing == {"next", "loop", "parsed", "error", "search", "rejected"}

AdmitInv ==
  /\ pc = "head" => req \in Requests
  /\ pc \in {"prepare", "rule", "prepared", "invalid"} => Handled
  /\ pc = "rule" => WithRule
  /\ pc \in Parsing /\ req # NoRequest => Handled /\ WithRule /\ sched.rule.text \notin DOMAIN Duration
  /\ pc = "invalid" => WithRule /\ RuleRefused
  /\ pc = "prepared" /\ WithRule => ~RuleRefused
  /\ pc # "late"

\* A command that no check of ServeHTTP refuses.
LEMMA PassedIsAdmitted ==
  ASSUME NEW r, r.verb # "GET", Checks(r)
  PROVE  Admitted(r)
BY Zenon DEF Checks, Admitted, DecodePayload, ScheduleBody

\* hasPossibleCalendarDate decides whether some year has a date for the fields.
LEMMA DatelessMeans ==
  ASSUME fields \in DayFields, wildcard \in BOOLEAN, allowed \subseteq 0..6, allowed # {}
  PROVE  Dateless <=> ~HasPossibleCalendarDate(fields)
<1>1. fields.month \subseteq 1..12 /\ fields.month # {} /\ fields.anyDom \in BOOLEAN
  BY CalendarAssumption
<1>2. ASSUME ~HasPossibleCalendarDate(fields) PROVE Dateless
  <2> SUFFICES ASSUME NEW y \in BothKinds, NEW m \in fields.month,
                      NEW d \in 1..DaysIn(y, m), NEW w \in 0..6
               PROVE  ~Matches([y |-> y, m |-> m, d |-> d, w |-> w])
    BY Zenon DEF Dateless
  <2>1. wildcard /\ ~fields.anyDom /\ \A e \in 1..DaysIn(2000, m) : e \notin fields.dom
    BY <1>2 DEF HasPossibleCalendarDate
  <2>2. y \in Nat /\ m \in 1..12
    BY <1>1, SMT DEF BothKinds
  <2>3. d \in 1..DaysIn(2000, m)
    BY <2>2, MonthLength
  <2>4. d \notin fields.dom
    BY <2>1, <2>3
  <2> QED
    BY <2>1, <2>4 DEF Matches
<1>3. ASSUME HasPossibleCalendarDate(fields) PROVE ~Dateless
  <2> DEFINE year == 2000
             Suits(m, d, w) == Matches([y |-> year, m |-> m, d |-> d, w |-> w])
  <2>1. year \in BothKinds
    BY SMT DEF BothKinds
  <2>2. \A m \in 1..12 : 1 \in 1..DaysIn(year, m)
    BY MonthLength, SMT
  <2>3. ~wildcard \/ fields.anyDom \/ \E m \in fields.month : \E d \in 1..DaysIn(year, m) : d \in fields.dom
    BY <1>3 DEF HasPossibleCalendarDate
  <2> HIDE DEF year
  <2>4. ASSUME NEW m \in fields.month, NEW d, NEW w,
               (~wildcard /\ w \in allowed) \/ (wildcard /\ (fields.anyDom \/ d \in fields.dom))
        PROVE  Suits(m, d, w)
    BY <1>1, <2>4 DEF Matches
  <2> HIDE DEF Suits
  <2>5. \A m \in fields.month : \A d, w : d \in 1..DaysIn(year, m) /\ w \in 0..6 /\ Suits(m, d, w) => ~Dateless
    BY <2>1, Zenon DEF Dateless, Suits
  <2>6. PICK m \in fields.month : m \in 1..12
    BY <1>1
  <2>7. 1 \in 1..DaysIn(year, m) /\ 0 \in 0..6
    BY <2>2, <2>6
  <2>8. CASE ~wildcard
    <3>1. PICK w \in allowed : w \in 0..6
      BY Zenon
    <3>2. Suits(m, 1, w)
      BY <2>4, <2>6, <2>8, <3>1
    <3> QED
      BY <2>5, <2>6, <2>7, <3>1, <3>2, Zenon
  <2>9. CASE wildcard /\ fields.anyDom
    <3>1. Suits(m, 1, 0)
      BY <2>4, <2>6, <2>9, Zenon
    <3> QED
      BY <2>5, <2>6, <2>7, <3>1, Zenon
  <2>10. CASE wildcard /\ ~fields.anyDom
    <3>1. PICK k \in fields.month : \E d \in 1..DaysIn(year, k) : d \in fields.dom
      BY <2>3, <2>10, Zenon
    <3>2. PICK d \in 1..DaysIn(year, k) : d \in fields.dom
      BY <3>1
    <3>3. Suits(k, d, 0)
      BY <2>4, <2>10, <3>1, <3>2, Zenon
    <3> QED
      BY <2>5, <2>7, <3>1, <3>2, <3>3, Zenon
  <2> QED
    BY <2>8, <2>9, <2>10
<1> QED
  BY <1>2, <1>3, Zenon

LEMMA TextOf == \A t : Str(t).text = t
BY DEF Str

LEMMA TrimTwice == \A s : TrimSpace(TrimSpace(s)) = TrimSpace(s)
BY TextOf, Zenon DEF TrimSpace

LEMMA DefaultsTwice ==
  ASSUME NEW p
  PROVE  WithDefaults(WithDefaults(p)) = WithDefaults(p)
<1> DEFINE d == DefaultRetryPolicy
           q == WithDefaults(p)
<1>1. d.attempts # 0 /\ d.backoff # 0 /\ d.maxBackoff # 0 /\ d.window # 0
  BY DEF DefaultRetryPolicy
<1>2. /\ q.attempts = (IF p.attempts = 0 THEN d.attempts ELSE p.attempts)
      /\ q.backoff = (IF p.backoff = 0 THEN d.backoff ELSE p.backoff)
      /\ q.maxBackoff = (IF p.maxBackoff = 0 THEN d.maxBackoff ELSE p.maxBackoff)
      /\ q.window = (IF p.window = 0 THEN d.window ELSE p.window)
  BY DEF WithDefaults, Defaulted, ValueOr
<1>3. q = [attempts |-> q.attempts, backoff |-> q.backoff, maxBackoff |-> q.maxBackoff, window |-> q.window]
  BY DEF WithDefaults, Defaulted, ValueOr
<1> HIDE DEF d, q
<1>4. q.attempts # 0 /\ q.backoff # 0 /\ q.maxBackoff # 0 /\ q.window # 0
  BY <1>1, <1>2
<1>5. WithDefaults(q) = [attempts |-> q.attempts, backoff |-> q.backoff, maxBackoff |-> q.maxBackoff,
                         window |-> q.window]
  BY <1>4, Zenon DEF WithDefaults, Defaulted, ValueOr
<1> QED
  BY <1>3, <1>5 DEF q

LEMMA PayloadReplaced ==
  ASSUME NEW a, NEW b, NEW c, NEW d, NEW e, NEW g, NEW h, NEW i, NEW j, NEW k, NEW l, NEW p, NEW t, NEW m
  PROVE  [[tenant |-> t, name |-> m, rule |-> a, runAt |-> b, tz |-> c, url |-> d, method |-> e, payload |-> g, retry |-> h,
           misfire |-> i, limit |-> j, overlap |-> k, status |-> l] EXCEPT !.payload = p]
           = [tenant |-> t, name |-> m, rule |-> a, runAt |-> b, tz |-> c, url |-> d, method |-> e, payload |-> p, retry |-> h,
              misfire |-> i, limit |-> j, overlap |-> k, status |-> l]
OBVIOUS

LEMMA CanonicalMembers ==
  ASSUME NEW p
  PROVE  LET c == CanonicalizeJSON(p) IN c.kind = p.kind /\ c.content = p.content /\ c.spelling = 0
BY DEF CanonicalizeJSON

LEMMA NormalisedMembers ==
  ASSUME NEW s
  PROVE  LET f == Filled(s)
             n == NormalizedSchedule(s)
         IN /\ n = [tenant |-> f.tenant, name |-> f.name, rule |-> f.rule, runAt |-> f.runAt, tz |-> f.tz,
                    url |-> f.url, method |-> f.method, payload |-> CanonicalizeJSON(f.payload),
                    retry |-> f.retry, misfire |-> f.misfire, limit |-> f.limit, overlap |-> f.overlap, status |-> f.status]
            /\ n.tenant = f.tenant /\ n.name = f.name
            /\ n.rule = f.rule /\ n.runAt = f.runAt /\ n.tz = f.tz /\ n.url = f.url
            /\ n.method = f.method /\ n.payload = CanonicalizeJSON(f.payload) /\ n.retry = f.retry
            /\ n.misfire = f.misfire /\ n.limit = f.limit /\ n.overlap = f.overlap
            /\ n.status = f.status
<1> DEFINE f == Filled(s)
           n == NormalizedSchedule(s)
           canonical == CanonicalizeJSON(f.payload)
<1>1. f = [tenant |-> f.tenant, name |-> f.name, rule |-> f.rule, runAt |-> f.runAt, tz |-> f.tz,
           url |-> f.url, method |-> f.method, payload |-> f.payload, retry |-> f.retry,
           misfire |-> f.misfire, limit |-> f.limit, overlap |-> f.overlap, status |-> f.status]
  BY Zenon DEF Filled
<1>2. n = [f EXCEPT !.payload = canonical]
  BY SMTT(30) DEF NormalizedSchedule
<1> HIDE DEF f, canonical
<1>3. n = [tenant |-> f.tenant, name |-> f.name, rule |-> f.rule, runAt |-> f.runAt, tz |-> f.tz,
           url |-> f.url, method |-> f.method, payload |-> canonical, retry |-> f.retry,
           misfire |-> f.misfire, limit |-> f.limit, overlap |-> f.overlap, status |-> f.status]
  BY <1>1, <1>2, PayloadReplaced, Zenon
<1>4. /\ n.tenant = f.tenant /\ n.name = f.name
      /\ n.rule = f.rule /\ n.runAt = f.runAt /\ n.tz = f.tz /\ n.url = f.url /\ n.method = f.method
      /\ n.payload = canonical /\ n.retry = f.retry /\ n.misfire = f.misfire /\ n.limit = f.limit
      /\ n.overlap = f.overlap /\ n.status = f.status
  BY <1>3
<1> QED
  BY <1>3, <1>4 DEF f, canonical

LEMMA Limits ==
  /\ MaxRetryAttempts \in Nat /\ MaxRetryAttempts <= 10
  /\ MaxRetryBackoffSeconds \in Nat /\ MaxRetryBackoffSeconds <= 3600
  /\ MaxRetryWindowSeconds \in Nat /\ MaxRetryWindowSeconds <= 86400
  /\ MaxCatchUpOccurrences \in Nat /\ MaxCatchUpOccurrences <= 100
BY SMT DEF MaxRetryAttempts, MaxRetryBackoffSeconds, MaxRetryWindowSeconds, MaxCatchUpOccurrences

LEMMA RetryBounds ==
  ASSUME NEW p, RetryValid(p)
  PROVE  /\ p.attempts \in Nat /\ 1 <= p.attempts /\ p.attempts <= MaxRetryAttempts
         /\ p.backoff \in Nat /\ 1 <= p.backoff /\ p.backoff <= MaxRetryBackoffSeconds
         /\ p.maxBackoff \in Nat /\ p.backoff <= p.maxBackoff /\ p.maxBackoff <= MaxRetryBackoffSeconds
         /\ p.window \in Nat /\ 1 <= p.window /\ p.window <= MaxRetryWindowSeconds
<1>1. p.attempts \in 1..MaxRetryAttempts /\ p.window \in 1..MaxRetryWindowSeconds
  BY Zenon DEF RetryValid
<1>2. p.backoff \in 1..MaxRetryBackoffSeconds
  BY Zenon DEF RetryValid
<1>3. p.maxBackoff \in p.backoff..MaxRetryBackoffSeconds
  BY Zenon DEF RetryValid
<1>4. /\ p.attempts \in Nat /\ 1 <= p.attempts /\ p.attempts <= MaxRetryAttempts
      /\ p.window \in Nat /\ 1 <= p.window /\ p.window <= MaxRetryWindowSeconds
  BY <1>1, Limits, SMT
<1>5. p.backoff \in Nat /\ 1 <= p.backoff /\ p.backoff <= MaxRetryBackoffSeconds
  BY <1>2, Limits, SMT
<1>6. p.maxBackoff \in Nat /\ p.backoff <= p.maxBackoff /\ p.maxBackoff <= MaxRetryBackoffSeconds
  BY <1>3, <1>5, Limits, SMT
<1> QED
  BY <1>4, <1>5, <1>6, Zenon

\* The limits of a retry policy, as the table has them.
LEMMA RetryLimits ==
  ASSUME NEW p, RetryValid(p)
  PROVE  CheckRetry(p)
BY RetryBounds, Limits, SMT DEF Between, CheckRetry

LEMMA ValidHasNoDefaults ==
  ASSUME NEW p, NEW none, RetryValid(Defaulted(p, none))
  PROVE  WithDefaults(Defaulted(p, none)) = Defaulted(p, none)
<1> DEFINE q == Defaulted(p, none)
<1>1. q = [attempts |-> q.attempts, backoff |-> q.backoff, maxBackoff |-> q.maxBackoff, window |-> q.window]
  BY DEF Defaulted
<1> HIDE DEF q
<1>2. RetryValid(q)
  BY DEF q
<1>3. q.attempts # 0 /\ q.backoff # 0 /\ q.maxBackoff # 0 /\ q.window # 0
  BY <1>2, RetryBounds, SMT
<1>4. WithDefaults(q) = [attempts |-> q.attempts, backoff |-> q.backoff, maxBackoff |-> q.maxBackoff,
                         window |-> q.window]
  BY <1>3, Zenon DEF WithDefaults, Defaulted, ValueOr
<1> QED
  BY <1>1, <1>4 DEF q

\* Normalising is idempotent: a default is not replaced again, what was trimmed stays
\* as it is, and what was valid is valid.
LEMMA NormalisedOnce ==
  ASSUME NEW s
  PROVE  LET n == NormalizedSchedule(s) IN
         /\ Filled(n) = n /\ NormalizedSchedule(n) = n
         /\ n.status = Filled(s).status /\ n.runAt = s.runAt
         /\ n.tenant = TrimSpace(s.tenant) /\ n.name = TrimSpace(s.name)
         /\ Valid(Filled(s)) => Valid(n)
<1> DEFINE f == Filled(s)
           n == NormalizedSchedule(s)
           canonical == CanonicalizeJSON(f.payload)
<1>1. n = [tenant |-> f.tenant, name |-> f.name, rule |-> f.rule, runAt |-> f.runAt, tz |-> f.tz,
           url |-> f.url, method |-> f.method, payload |-> canonical, retry |-> f.retry,
           misfire |-> f.misfire, limit |-> f.limit, overlap |-> f.overlap, status |-> f.status]
  BY NormalisedMembers
<1>2. /\ f.tenant = TrimSpace(s.tenant) /\ f.name = TrimSpace(s.name)
      /\ f.rule = TrimSpace(s.rule) /\ f.runAt = s.runAt /\ f.tz = OrElse(TrimSpace(s.tz), "UTC")
      /\ f.url = TrimSpace(s.url) /\ f.method = OrElse(s.method, "POST")
      /\ f.payload = IF s.payload.kind = "missing" THEN EmptyObject ELSE s.payload
      /\ f.retry = WithDefaults(s.retry) /\ f.misfire = OrElse(s.misfire, "fire_once")
      /\ f.limit = (IF s.limit = 0 THEN 1 ELSE s.limit) /\ f.overlap = OrElse(s.overlap, "forbid")
      /\ f.status = (IF s.status = "" THEN "active" ELSE s.status)
  BY Zenon DEF Filled
<1>3. /\ TrimSpace(f.tenant) = f.tenant /\ TrimSpace(f.name) = f.name
      /\ TrimSpace(f.rule) = f.rule /\ TrimSpace(f.url) = f.url
  BY <1>2, TrimTwice, Zenon
<1>4. OrElse(TrimSpace(f.tz), "UTC") = f.tz
  <2>1. TrimSpace(Str("UTC")) = Str("UTC")
    BY TextOf, Zenon DEF TrimSpace
  <2>2. Str("UTC") # Str("")
    <3>1. Str("UTC").text = "UTC" /\ Str("").text = "" /\ "UTC" # ""
      BY TextOf, ZenonT(30)
    <3> QED
      BY <3>1, Zenon
  <2> QED
    BY <1>2, <2>1, <2>2, TrimTwice, Zenon DEF OrElse
<1>5. /\ OrElse(f.method, "POST") = f.method /\ OrElse(f.misfire, "fire_once") = f.misfire
      /\ OrElse(f.overlap, "forbid") = f.overlap
  BY <1>2, Zenon DEF OrElse, Str
<1>6. WithDefaults(f.retry) = f.retry
  BY <1>2, DefaultsTwice, Zenon
<1>7. /\ canonical = [kind |-> f.payload.kind, content |-> f.payload.content, spelling |-> 0]
      /\ f.payload.kind # "missing"
  <2>1. canonical = [kind |-> f.payload.kind, content |-> f.payload.content, spelling |-> 0]
    BY Zenon DEF CanonicalizeJSON
  <2>2. CASE s.payload.kind = "missing"
    <3>1. f.payload = EmptyObject
      BY <1>2, <2>2, Zenon
    <3> HIDE DEF f, canonical
    <3>2. EmptyObject.kind = "object"
      BY Zenon DEF EmptyObject
    <3>3. f.payload.kind # "missing"
      BY <3>1, <3>2
    <3> QED
      BY <2>1, <3>3
  <2>3. CASE s.payload.kind # "missing"
    <3>1. f.payload = s.payload
      BY <1>2, <2>3, Zenon
    <3> QED
      BY <2>1, <2>3, <3>1, Zenon
  <2> QED
    BY <2>2, <2>3
<1>8. (IF f.limit = 0 THEN 1 ELSE f.limit) = f.limit /\ (IF f.status = "" THEN "active" ELSE f.status) = f.status
  BY <1>2, Zenon
<1> HIDE DEF f, canonical
<1>9. /\ n.tenant = f.tenant /\ n.name = f.name
      /\ n.rule = f.rule /\ n.runAt = f.runAt /\ n.tz = f.tz /\ n.url = f.url /\ n.method = f.method
      /\ n.payload = canonical /\ n.retry = f.retry /\ n.misfire = f.misfire /\ n.limit = f.limit
      /\ n.overlap = f.overlap /\ n.status = f.status
  BY <1>1
<1> HIDE DEF n
<1>10. canonical.kind = f.payload.kind
  BY <1>7
<1>11. Filled(n) = n
  BY <1>1, <1>3, <1>4, <1>5, <1>6, <1>7, <1>8, <1>9, <1>10, Zenon DEF Filled
<1>12. CanonicalizeJSON(n.payload) = n.payload
  <2>1. canonical.kind = f.payload.kind /\ canonical.content = f.payload.content
    BY <1>7
  <2> QED
    BY <1>7, <1>9, <2>1, Zenon DEF CanonicalizeJSON
<1>13. NormalizedSchedule(n) = n
  <2>1. NormalizedSchedule(n) = [n EXCEPT !.payload = CanonicalizeJSON(n.payload)]
    BY <1>11, Zenon DEF NormalizedSchedule
  <2> QED
    BY <1>1, <1>12, <2>1
<1>14. Valid(f) => Valid(n)
  BY <1>9, <1>10, Zenon DEF Valid
<1> QED
  BY <1>2, <1>9, <1>11, <1>13, <1>14, Zenon DEF n, f

\* Of the commands that pass, those with a schedule are the ones prepare normalises.
LEMMA OperationSchedules ==
  ASSUME NEW r, Admitted(r)
  PROVE  (OperationFor(r) \in {"create", "update"}) <=> ~IsAction(r)
<1>1. CASE r.action # ""
  BY <1>1, Zenon DEF Admitted, ParseSchedulePath, OperationFor, IsAction
<1>2. CASE r.action = ""
  <2>1. r.verb \in {"POST", "PUT", "DELETE"}
    BY <1>2, Zenon DEF Admitted, SupportedMethod
  <2>2. OperationFor(r) = CASE r.verb = "POST" -> "create" [] r.verb = "PUT" -> "update"
                            [] r.verb = "DELETE" -> "delete"
    BY <1>2, Zenon DEF OperationFor
  <2>3. IsAction(r) <=> r.verb = "DELETE"
    BY <1>2, Zenon DEF IsAction
  <2> QED
    BY <2>1, <2>2, <2>3
<1> QED
  BY <1>1, <1>2, Zenon

\* What prepare finds to be valid, and that it changes nothing.
LEMMA PreparedAlready ==
  ASSUME NEW r, ScheduleAccepted(r)
  PROVE  LET n == NormalizedSchedule(ToDomain(r)) IN
         /\ Valid(n) /\ Filled(n) = n /\ NormalizedSchedule(n) = n
         /\ n.status = IF r.paused THEN "paused" ELSE "active"
<1> DEFINE d == ToDomain(r)
<1>1. Valid(Filled(d))
  BY Zenon DEF ScheduleAccepted
<1>2. d.status = IF r.paused THEN "paused" ELSE "active"
  BY DEF ToDomain
<1> HIDE DEF d
<1>3. Filled(d).status = IF d.status = "" THEN "active" ELSE d.status
  BY DEF Filled
<1>4. Filled(d).status = IF r.paused THEN "paused" ELSE "active"
  BY <1>2, <1>3
<1> QED
  BY <1>1, <1>4, NormalisedOnce, Zenon DEF d

\* The schedule has the tenant and the name of its command already.
LEMMA AddressedAlready ==
  ASSUME NEW r
  PROVE  LET n == NormalizedSchedule(ToDomain(r)) IN Addressed(n, r) = n
<1> DEFINE n == NormalizedSchedule(ToDomain(r))
           f == Filled(ToDomain(r))
           canonical == CanonicalizeJSON(f.payload)
<1>1. n = [tenant |-> f.tenant, name |-> f.name, rule |-> f.rule, runAt |-> f.runAt, tz |-> f.tz,
           url |-> f.url, method |-> f.method, payload |-> canonical, retry |-> f.retry,
           misfire |-> f.misfire, limit |-> f.limit, overlap |-> f.overlap, status |-> f.status]
  BY NormalisedMembers
<1>2. f.tenant = TrimSpace(ToDomain(r).tenant) /\ f.name = TrimSpace(ToDomain(r).name)
  BY Zenon DEF Filled
<1>3. ToDomain(r).tenant = TrimSpace(r.tenant) /\ ToDomain(r).name = Str(r.path)
  BY DEF ToDomain
<1> HIDE DEF n, f, canonical
<1>4. f.tenant = TrimSpace(r.tenant) /\ f.name = Str(r.path)
  <2>1. TrimSpace(Str(r.path)) = Str(r.path)
    BY TextOf, Zenon DEF TrimSpace
  <2> QED
    BY <1>2, <1>3, <2>1, TrimTwice, Zenon
<1>5. Addressed(n, r) = [n EXCEPT !.tenant = f.tenant, !.name = f.name]
  BY <1>4, Zenon DEF Addressed
<1>6. [n EXCEPT !.tenant = f.tenant, !.name = f.name] = n
  <2>1. [n EXCEPT !.tenant = f.tenant] = n
    BY <1>1
  <2>2. [n EXCEPT !.name = f.name] = n
    BY <1>1
  <2> QED
    BY <2>1, <2>2, Zenon
<1> QED
  BY <1>5, <1>6, Zenon DEF n

LEMMA ServeKeepsAdmit ==
  ASSUME AdmitInv, ServeHTTP
  PROVE  AdmitInv'
<1>1. req \in Requests /\ req' = req
  BY DEF ServeHTTP, AdmitInv
<1>2. CASE ~Checks(req) \/ req.verb = "GET"
  <2>1. pc' \in {"refused", "read"}
    BY <1>2, SMTT(30) DEF ServeHTTP
  <2> QED
    BY <2>1 DEF AdmitInv, Parsing
<1>3. CASE Checks(req) /\ req.verb # "GET"
  <2>1. /\ pc' = "prepare"
        /\ sched' = IF IsAction(req) THEN NoSchedule ELSE NormalizedSchedule(ToDomain(req))
        /\ digest' = Fingerprint(req)
    BY <1>3, Zenon DEF ServeHTTP
  <2>2. Admitted(req)
    BY <1>1, <1>3, PassedIsAdmitted, Zenon
  <2>3. Fingerprint(req).payload = IF IsAction(req) THEN NoSchedule ELSE CanonicalCommandPayload(req)
    BY DEF Fingerprint
  <2>4. ~IsAction(req) => sched' = NormalizedSchedule(ToDomain(req)) /\ digest'.payload = sched'
    BY <2>1, <2>3, Zenon DEF CanonicalCommandPayload
  <2>5. Handled'
    BY <1>1, <2>2, <2>4, Zenon DEF Handled
  <2> QED
    BY <2>1, <2>5 DEF AdmitInv, Parsing
<1> QED
  BY <1>2, <1>3

LEMMA PrepareKeepsAdmit ==
  ASSUME AdmitInv, Prepare
  PROVE  AdmitInv'
<1> DEFINE schedules == OperationFor(req) \in {"create", "update"}
           given == Addressed(sched, req)
           normal == NormalizedSchedule(given)
           refuses == \/ ~ValidateTenantID(TrimSpace(req.tenant).text)
                      \/ ~IsValidScheduleName(req.path)
                      \/ TrimSpace(req.requestID).text \in {"", "long"}
                      \/ req.key = Str("") \/ req.key.text = "long"
                      \/ schedules /\ (~Valid(Filled(given)) \/ normal.status = "exhausted")
<1>1. /\ req \in Requests /\ Admitted(req) /\ UNCHANGED <<req, digest>>
      /\ ~IsAction(req) => sched = NormalizedSchedule(ToDomain(req)) /\ digest.payload = sched
  BY Zenon DEF Prepare, AdmitInv, Handled
<1>2. /\ sched' = IF schedules THEN normal ELSE sched
      /\ pc' = IF refuses THEN "late" ELSE IF schedules /\ normal.runAt = NoInstant THEN "rule" ELSE "prepared"
  BY Zenon DEF Prepare
<1>3. schedules <=> ~IsAction(req)
  BY <1>1, OperationSchedules
<1>4. ASSUME ~IsAction(req)
      PROVE  given = sched /\ normal = sched /\ Valid(Filled(given)) /\ normal.status # "exhausted"
  <2>1. /\ Valid(sched) /\ Filled(sched) = sched /\ NormalizedSchedule(sched) = sched
        /\ sched.status = IF req.paused THEN "paused" ELSE "active"
    BY <1>1, <1>4, PreparedAlready, Zenon DEF Admitted
  <2>2. given = sched
    BY <1>1, <1>4, AddressedAlready, Zenon
  <2> QED
    BY <2>1, <2>2
<1>5. ~refuses
  <2>1. /\ ValidateTenantID(TrimSpace(req.tenant).text) /\ IsValidScheduleName(req.path)
        /\ ~(TrimSpace(req.requestID).text \in {"", "long"})
        /\ req.key # Str("") /\ req.key.text # "long"
    BY <1>1, Zenon DEF Admitted, IdentifierAccepted, KeyAccepted, ValidateTenantID, ParseSchedulePath
  <2> QED
    BY <1>3, <1>4, <2>1, Zenon
<1>6. /\ sched' = sched /\ pc' \in {"rule", "prepared"}
      /\ pc' = "rule" <=> ~IsAction(req) /\ sched.runAt = NoInstant
  <2> HIDE DEF given, normal, schedules, refuses
  <2> QED
    BY <1>2, <1>3, <1>4, <1>5, Zenon
<1>7. Handled'
  BY <1>1, <1>6, Zenon DEF Handled
<1>8. WithRule' <=> ~IsAction(req) /\ sched.runAt = NoInstant
  BY <1>1, <1>6, Zenon DEF WithRule
<1> QED
  BY <1>6, <1>7, <1>8 DEF AdmitInv, Parsing

LEMMA DatelessStays ==
  ASSUME UNCHANGED <<fields, wildcard, allowed>>
  PROVE  Dateless' <=> Dateless
<1>1. ASSUME NEW t PROVE Matches(t)' <=> Matches(t)
  BY DEF Matches
<1> QED
  BY <1>1, Zenon DEF Dateless

\* Validate refuses an interval at once; the zone was checked by the handler.
LEMMA ValidateKeepsAdmit ==
  ASSUME AdmitInv, Validate
  PROVE  AdmitInv'
<1> DEFINE rule == sched.rule.text
<1>1. Handled /\ WithRule /\ UNCHANGED <<req, sched, digest>>
  BY Zenon DEF AdmitInv, Validate, admitVars
<1>2. Handled' /\ WithRule'
  BY <1>1, Zenon DEF Handled, WithRule
<1>3. Valid(sched)
  BY <1>1, PreparedAlready, Zenon DEF Handled, WithRule, Admitted
<1>4. rule # "TZ=" /\ sched.tz.text \in Zones
  BY <1>3, Zenon DEF Valid
<1>5. CASE rule \notin DOMAIN Duration
  <2>1. pc' = "next"
    BY <1>4, <1>5, Zenon DEF Validate
  <2>2. sched'.rule.text \notin DOMAIN Duration
    BY <1>1, <1>5, Zenon
  <2> QED
    BY <1>2, <2>1, <2>2 DEF AdmitInv
<1>6. CASE rule \in DOMAIN Duration
  <2>1. pc' = IF ParseInterval(rule) THEN "prepared" ELSE "invalid"
    BY <1>4, <1>6, Zenon DEF Validate
  <2>2. RuleRefused' <=> ~ParseInterval(rule)
    BY <1>1, <1>6, Zenon DEF RuleRefused
  <2> QED
    BY <1>2, <2>1, <2>2 DEF AdmitInv, Parsing
<1> QED
  BY <1>5, <1>6

LEMMA ReturnKeepsAdmit ==
  ASSUME FieldInv, SearchInv, AdmitInv, RuleReturns
  PROVE  AdmitInv'
<1>1. /\ req # NoRequest /\ pc \in {"search", "error", "rejected"}
      /\ pc' = IF pc = "search" THEN "prepared" ELSE "invalid"
      /\ UNCHANGED <<req, sched, digest, list, allowed, wildcard, fields>>
  BY DEF RuleReturns, admitVars, items
<1>2. Handled /\ WithRule /\ sched.rule.text \notin DOMAIN Duration
  BY <1>1 DEF AdmitInv, Parsing
<1>3. Handled' /\ WithRule'
  BY <1>1, <1>2, Zenon DEF Handled, WithRule
<1>4. RuleRefused' <=> (\E i \in list : Rejected(i)) \/ Dateless
  <2>1. Dateless' <=> Dateless
    BY <1>1, DatelessStays
  <2> QED
    BY <1>1, <1>2, <2>1, Zenon DEF RuleRefused
<1>5. CASE pc = "error"
  <2>1. \E i \in list : Rejected(i)
    BY <1>5 DEF FieldInv
  <2> QED
    BY <1>1, <1>3, <1>4, <1>5, <2>1 DEF AdmitInv, Parsing
<1>6. CASE pc \in {"search", "rejected"}
  <2>1. /\ fields \in DayFields /\ wildcard \in BOOLEAN /\ allowed \subseteq 0..6 /\ allowed # {}
        /\ list = {}
    BY <1>6 DEF FieldInv, SearchInv
  <2>2. Dateless <=> ~HasPossibleCalendarDate(fields)
    BY <2>1, DatelessMeans
  <2>3. CASE pc = "search"
    <3>1. HasPossibleCalendarDate(fields)
      BY <2>3 DEF SearchInv
    <3>2. ~RuleRefused'
      BY <1>4, <2>1, <2>2, <3>1, Zenon
    <3> QED
      BY <1>1, <1>3, <2>3, <3>2 DEF AdmitInv, Parsing
  <2>4. CASE pc = "rejected"
    <3>1. ~HasPossibleCalendarDate(fields)
      BY <2>4 DEF SearchInv
    <3>2. RuleRefused'
      BY <1>4, <2>2, <3>1, Zenon
    <3> QED
      BY <1>1, <1>3, <2>4, <3>2 DEF AdmitInv, Parsing
  <2> QED
    BY <1>6, <2>3, <2>4
<1> QED
  BY <1>1, <1>5, <1>6

LEMMA AdmitStep ==
  ASSUME FieldInv, SearchInv, AdmitInv, [Next]_vars
  PROVE  AdmitInv'
<1>1. ASSUME UNCHANGED vars PROVE AdmitInv'
  <2>1. UNCHANGED <<pc, list, allowed, wildcard, fields, req, sched, digest>>
    BY <1>1 DEF vars, calendarVars, admitVars
  <2>2. (Handled' <=> Handled) /\ (WithRule' <=> WithRule)
    BY <2>1, Zenon DEF Handled, WithRule
  <2>3. Dateless' <=> Dateless
    BY <2>1, DatelessStays
  <2>4. RuleRefused' <=> RuleRefused
    BY <2>1, <2>3, Zenon DEF RuleRefused
  <2> QED
    BY <2>1, <2>2, <2>4, Zenon DEF AdmitInv
<1>2. ASSUME NextItem \/ Add \/ Finish \/ ParseCron, UNCHANGED admitVars PROVE AdmitInv'
  <2>1. pc \in Parsing /\ pc' \in Parsing
    BY <1>2, Zenon DEF NextItem, Add, Finish, ParseCron, Parsing
  <2>2. UNCHANGED <<req, sched, digest>>
    BY <1>2 DEF admitVars
  <2>3. (Handled' <=> Handled) /\ (WithRule' <=> WithRule)
    BY <2>2, Zenon DEF Handled, WithRule
  <2> QED
    BY <2>1, <2>2, <2>3, SMTT(30) DEF AdmitInv, Parsing
<1>3. ASSUME Find PROVE AdmitInv'
  <2>1. pc' \in {"search", "found", "no_occurrence"} /\ req' = NoRequest
    BY <1>3 DEF Find, Search, admitVars
  <2> QED
    BY <2>1 DEF AdmitInv, Parsing
<1>4. CASE Next
  BY <1>2, <1>3, <1>4, ServeKeepsAdmit, PrepareKeepsAdmit, ValidateKeepsAdmit, ReturnKeepsAdmit, Zenon
  DEF Next, Field, ParseField, Parse
<1> QED
  BY <1>1, <1>4

-----------------------------------------------------------------------------
(* The theorems.                                                           *)

LEMMA InitHolds == Init => FieldInv /\ SearchInv /\ AdmitInv
<1> SUFFICES ASSUME Init PROVE FieldInv /\ SearchInv /\ AdmitInv
  OBVIOUS
<1>1. pc \in {"head", "next"} /\ (pc = "head" => req \in Requests)
  BY DEF Init
<1>2. left = list /\ allowed = {} /\ wildcard = FALSE
  BY DEF Init, CalendarInit, FieldInit
<1>3. pc = "next" => list \subseteq Items /\ list # {} /\ req = NoRequest
  BY DEF Init
<1>4. Taken = {}
  BY <1>2 DEF Taken
<1>5. FieldInv
  BY <1>1, <1>2, <1>3, <1>4, Zenon DEF FieldInv
<1>6. SearchInv /\ AdmitInv
  BY <1>1, <1>3 DEF SearchInv, AdmitInv, Parsing
<1> QED
  BY <1>5, <1>6

LEMMA AdmissionInvariant == Spec => [](FieldInv /\ SearchInv /\ AdmitInv)
<1>1. FieldInv /\ SearchInv /\ AdmitInv /\ [Next]_vars => (FieldInv /\ SearchInv /\ AdmitInv)'
  BY FieldStep, SearchStep, AdmitStep
<1> QED
  BY <1>1, InitHolds, PTL DEF Spec

\* What parseCronField returns for a weekday field is the union of what its items mean,
\* for every list of items, every step and every size of an int: the loop of an item
\* leaves none of its numbers out, adds no other and never wraps around.
THEOREM FieldsAreExact == Spec => []FieldIsExact
<1>1. FieldInv => FieldIsExact
  <2> SUFFICES ASSUME FieldInv, pc = "parsed"
               PROVE  allowed = UNION {Days(i) : i \in list} /\ (wildcard => allowed = 0..6)
    BY DEF FieldIsExact
  <2>1. /\ allowed = UNION {Days(i) : i \in list} /\ list \subseteq Items
        /\ \A i \in list : ~Rejected(i)
        /\ wildcard => \E i \in list : i.kind = "star" /\ SplitStep(i) = 1
    BY DEF FieldInv, Taken
  <2>2. \A i \in list : Days(i) \subseteq 0..6
    BY <2>1, DaysOfItem
  <2>3. ASSUME wildcard PROVE allowed = 0..6
    <3>1. PICK i \in list : i.kind = "star" /\ SplitStep(i) = 1
      BY <2>1, <2>3
    <3>2. Days(i) = 0..6
      BY <2>1, <3>1, DaysOfItem
    <3> QED
      BY <2>1, <2>2, <3>1, <3>2, Zenon
  <2> QED
    BY <2>1, <2>3
<1> QED
  BY <1>1, AdmissionInvariant, PTL

\* Calculator.Next finds a date for every expression that parseCron accepts, from every
\* first day on, and parseCron rejects only expressions without one: a horizon of more
\* than eight years holds a leap year, and with it the longest form of every month.
THEOREM AcceptedIsFound == Spec => []AcceptedMeansFound
<1>1. FieldInv /\ SearchInv => AcceptedMeansFound
  <2> SUFFICES ASSUME FieldInv, SearchInv PROVE AcceptedMeansFound
    OBVIOUS
  <2>1. pc # "no_occurrence"
    BY DEF SearchInv
  <2>2. ASSUME pc = "rejected" PROVE Dateless
    BY <2>2, DatelessMeans DEF FieldInv, SearchInv
  <2> QED
    BY <2>1, <2>2, Zenon DEF AcceptedMeansFound
<1> QED
  BY <1>1, AdmissionInvariant, PTL

\* Service.prepare stores what the handler digested, for every request: to normalise a
\* second time changes nothing.
THEOREM DigestIsOfStored == Spec => []DigestDescribesStored
<1>1. AdmitInv => DigestDescribesStored
  BY DEF AdmitInv, Handled, DigestDescribesStored, WithSchedule
<1> QED
  BY <1>1, AdmissionInvariant, PTL

\* Of the requests that passed the handler's checks Service.prepare refuses those whose
\* recurrence rule yields no instant, and no other, for every set of requests, every
\* interval and every cron expression with one weekday item.
THEOREM OnlyRulesAreRefused == Spec => []PrepareRefusesOnlyRules
<1>1. AdmitInv => PrepareRefusesOnlyRules
  BY Zenon DEF AdmitInv, PrepareRefusesOnlyRules, WithRule, WithSchedule
<1> QED
  BY <1>1, AdmissionInvariant, PTL

\* The members of a schedule that a request becomes, and what is accepted of them.
LEMMA StoredMembers ==
  ASSUME NEW r \in Requests, ScheduleAccepted(r)
  PROVE  LET n == NormalizedSchedule(ToDomain(r)) IN
         /\ n.rule = TrimSpace(r.rule.str) /\ n.runAt = ParseRunAt(r)
         /\ n.tz = OrElse(TrimSpace(r.tz.str), "UTC") /\ n.url = TrimSpace(r.url.str)
         /\ n.method = OrElse(r.method.str, "POST") /\ n.misfire = OrElse(r.misfire.str, "fire_once")
         /\ n.overlap = OrElse(r.overlap.str, "forbid")
         /\ n.tenant = TrimSpace(r.tenant) /\ n.name = Str(r.path)
         /\ n.payload.kind = "object" /\ n.payload.spelling = 0
         /\ n.payload.content = IF r.payload.kind = "missing" THEN "{}" ELSE r.payload.content
         /\ n.limit = (IF r.limit = NotGiven THEN 1 ELSE r.limit)
         /\ n.retry = RetryToDomain(r)
         /\ n.status = IF r.paused THEN "paused" ELSE "active"
<1> DEFINE d == ToDomain(r)
           f == Filled(d)
           n == NormalizedSchedule(d)
<1>1. Valid(f) /\ RetryValid(RetryToDomain(r)) /\ r.limit # 0
  BY Zenon DEF ScheduleAccepted, GivenIsFilled
<1>2. /\ d.tenant = TrimSpace(r.tenant) /\ d.name = Str(r.path) /\ d.payload = r.payload
      /\ d.rule = r.rule.str /\ d.runAt = ParseRunAt(r) /\ d.tz = r.tz.str /\ d.url = r.url.str
      /\ d.method = r.method.str /\ d.retry = RetryToDomain(r) /\ d.misfire = r.misfire.str
      /\ d.limit = (IF r.limit = NotGiven THEN 0 ELSE r.limit) /\ d.overlap = r.overlap.str
  BY DEF ToDomain
<1>3. n.status = IF r.paused THEN "paused" ELSE "active"
  BY PreparedAlready, Zenon
<1> HIDE DEF d
<1>4. /\ f.tenant = TrimSpace(d.tenant) /\ f.name = TrimSpace(d.name)
      /\ f.payload = (IF d.payload.kind = "missing" THEN EmptyObject ELSE d.payload)
      /\ f.rule = TrimSpace(d.rule) /\ f.runAt = d.runAt /\ f.tz = OrElse(TrimSpace(d.tz), "UTC")
      /\ f.url = TrimSpace(d.url) /\ f.method = OrElse(d.method, "POST")
      /\ f.retry = WithDefaults(d.retry) /\ f.misfire = OrElse(d.misfire, "fire_once")
      /\ f.limit = (IF d.limit = 0 THEN 1 ELSE d.limit) /\ f.overlap = OrElse(d.overlap, "forbid")
  BY Zenon DEF Filled
<1>5. /\ n.tenant = f.tenant /\ n.name = f.name /\ n.rule = f.rule /\ n.runAt = f.runAt /\ n.tz = f.tz
      /\ n.url = f.url /\ n.method = f.method /\ n.payload = CanonicalizeJSON(f.payload)
      /\ n.retry = f.retry /\ n.misfire = f.misfire /\ n.limit = f.limit /\ n.overlap = f.overlap
  BY NormalisedMembers
<1> HIDE DEF f, n
<1>6. /\ n.payload.kind = "object" /\ n.payload.spelling = 0
      /\ n.payload.content = IF r.payload.kind = "missing" THEN "{}" ELSE r.payload.content
  <2>1. n.payload.kind = f.payload.kind /\ n.payload.spelling = 0 /\ n.payload.content = f.payload.content
    BY <1>5, CanonicalMembers, Zenon
  <2>2. f.payload.kind = "object"
    BY <1>1, Zenon DEF Valid
  <2>3. EmptyObject.content = "{}"
    BY DEF EmptyObject
  <2> QED
    BY <1>2, <1>4, <2>1, <2>2, <2>3, Zenon
<1>7. WithDefaults(RetryToDomain(r)) = RetryToDomain(r)
  BY <1>1, ValidHasNoDefaults, SMTT(30) DEF RetryToDomain
<1>8. n.limit = IF r.limit = NotGiven THEN 1 ELSE r.limit
  BY <1>1, <1>2, <1>4, <1>5
<1>9. n.retry = RetryToDomain(r)
  BY <1>2, <1>4, <1>5, <1>7, Zenon
<1>10. n.tenant = TrimSpace(r.tenant) /\ n.name = Str(r.path)
  <2>1. TrimSpace(Str(r.path)) = Str(r.path)
    BY TextOf, Zenon DEF TrimSpace
  <2> QED
    BY <1>2, <1>4, <1>5, <2>1, TrimTwice, Zenon
<1> QED
  BY <1>2, <1>3, <1>4, <1>5, <1>6, <1>8, <1>9, <1>10, Zenon DEF n, d

\* A member is given or stands for none, and a text that is given is not empty.
LEMMA GivenOrEmpty ==
  ASSUME NEW m \in Members, m.given => m.str.text # ""
  PROVE  /\ m.given => TrimSpace(m.str) # Str("") /\ m.str # Str("")
         /\ ~m.given => m.str = Str("") /\ TrimSpace(m.str) = Str("")
<1>1. CASE m.given
  BY <1>1, TextOf, Zenon DEF TrimSpace
<1>2. CASE ~m.given
  <2>1. m = Missing
    BY <1>2, Zenon DEF Members
  <2>2. m.str = Str("")
    BY <2>1, Zenon DEF Missing
  <2> QED
    BY <1>2, <2>2, TextOf, Zenon DEF TrimSpace
<1> QED
  BY <1>1, <1>2, Zenon

\* The text that a member becomes, with its default.
LEMMA DefaultedText ==
  ASSUME NEW m \in Members, m.given => m.str.text # "", NEW fallback
  PROVE  /\ OrElse(m.str, fallback).text = IF m.given THEN m.str.text ELSE fallback
         /\ OrElse(TrimSpace(m.str), fallback).text = IF m.given THEN m.str.text ELSE fallback
         /\ ~OrElse(TrimSpace(m.str), fallback).pad
<1>1. \A t : Str(t).pad = FALSE
  BY Zenon DEF Str
<1> QED
  BY <1>1, GivenOrEmpty, TextOf, Zenon DEF OrElse, TrimSpace

\* What is known of a request with a schedule once it has passed.
LEMMA AcceptedParts ==
  ASSUME NEW r \in Requests, ScheduleAccepted(r)
  PROVE  /\ r.rule \in Members /\ r.runAt \in Members /\ r.tz \in Members /\ r.method \in Members
         /\ r.misfire \in Members /\ r.overlap \in Members /\ r.paused \in BOOLEAN
         /\ \A m \in {r.rule, r.runAt, r.tz, r.method, r.misfire, r.overlap} : m.given => m.str.text # ""
         /\ r.rule.given # r.runAt.given
<1>1. /\ r.rule \in Members /\ r.runAt \in Members /\ r.tz \in Members /\ r.method \in Members
      /\ r.misfire \in Members /\ r.overlap \in Members /\ r.paused \in BOOLEAN
  BY RequestAssumption
<1>2. GivenIsFilled(r) /\ r.rule.given # r.runAt.given
  BY Zenon DEF ScheduleAccepted
<1>3. \A m \in {r.rule, r.runAt, r.tz, r.method, r.misfire, r.overlap} : m.given => m.str.text # ""
  BY <1>2, Zenon DEF GivenIsFilled
<1> QED
  BY <1>1, <1>2, <1>3, Zenon

\* The digest of a request holds its meaning, and nothing else.
LEMMA MeaningKept ==
  ASSUME NEW r \in Requests, ScheduleAccepted(r), NEW d, d = NormalizedSchedule(ToDomain(r))
  PROVE  /\ Reading(d) = Meaning(r)
         /\ \A s \in {d.tenant, d.name, d.rule, d.tz, d.url, d.method, d.misfire, d.overlap} : ~s.pad
         /\ d.payload.kind = "object" /\ d.payload.spelling = 0
<1> DEFINE Or(m, fallback) == IF m.given THEN m.str.text ELSE fallback
<1>1. /\ d.rule = TrimSpace(r.rule.str) /\ d.runAt = ParseRunAt(r)
      /\ d.tz = OrElse(TrimSpace(r.tz.str), "UTC") /\ d.url = TrimSpace(r.url.str)
      /\ d.method = OrElse(r.method.str, "POST") /\ d.misfire = OrElse(r.misfire.str, "fire_once")
      /\ d.overlap = OrElse(r.overlap.str, "forbid")
      /\ d.tenant = TrimSpace(r.tenant) /\ d.name = Str(r.path)
      /\ d.payload.kind = "object" /\ d.payload.spelling = 0
      /\ d.payload.content = (IF r.payload.kind = "missing" THEN "{}" ELSE r.payload.content)
      /\ d.limit = (IF r.limit = NotGiven THEN 1 ELSE r.limit)
      /\ d.retry = RetryToDomain(r)
      /\ d.status = IF r.paused THEN "paused" ELSE "active"
  BY StoredMembers
<1>2. Valid(d)
  BY PreparedAlready
<1>3. /\ d.rule.text = r.rule.str.text /\ d.url.text = r.url.str.text
      /\ d.tenant.text = r.tenant.text /\ d.name.text = r.path
  BY <1>1, TextOf, Zenon DEF TrimSpace
<1>4. ASSUME NEW m \in {r.tz, r.method, r.misfire, r.overlap}, NEW fallback
      PROVE  /\ OrElse(m.str, fallback).text = Or(m, fallback)
             /\ OrElse(TrimSpace(m.str), fallback).text = Or(m, fallback)
             /\ ~OrElse(TrimSpace(m.str), fallback).pad
  <2>1. m \in Members /\ (m.given => m.str.text # "")
    BY AcceptedParts, Zenon
  <2> QED
    BY <2>1, DefaultedText, Zenon
<1>5. /\ d.tz.text = Or(r.tz, "UTC") /\ ~d.tz.pad /\ d.method.text = Or(r.method, "POST")
      /\ d.misfire.text = Or(r.misfire, "fire_once") /\ d.overlap.text = Or(r.overlap, "forbid")
  <2> HIDE DEF Or
  <2>1. OrElse(TrimSpace(r.tz.str), "UTC").text = Or(r.tz, "UTC") /\ ~OrElse(TrimSpace(r.tz.str), "UTC").pad
    BY <1>4, Zenon
  <2>2. /\ OrElse(r.method.str, "POST").text = Or(r.method, "POST")
        /\ OrElse(r.misfire.str, "fire_once").text = Or(r.misfire, "fire_once")
        /\ OrElse(r.overlap.str, "forbid").text = Or(r.overlap, "forbid")
    BY <1>4, Zenon
  <2> QED
    BY <1>1, <2>1, <2>2, Zenon
<1>6. d.runAt = IF r.runAt.given THEN RunAt[r.runAt.str.text] ELSE NoInstant
  BY <1>1, Zenon DEF ParseRunAt
<1>7. (d.status = "paused") = r.paused
  <2>1. r.paused \in BOOLEAN
    BY AcceptedParts, Zenon
  <2>2. d.status = IF r.paused THEN "paused" ELSE "active"
    BY <1>1, Zenon
  <2>3. (d.status = "paused") <=> r.paused
    BY <2>2
  <2> QED
    BY <2>1, <2>3, Zenon
<1> DEFINE or(x, default) == ValueOr(x, NotGiven, default)
<1>8. /\ d.retry.attempts = or(r.retry.attempts, DocumentedRetry.attempts)
      /\ d.retry.backoff = or(r.retry.backoff, DocumentedRetry.backoff)
      /\ d.retry.maxBackoff = or(r.retry.maxBackoff, DocumentedRetry.maxBackoff)
      /\ d.retry.window = or(r.retry.window, DocumentedRetry.window)
  <2>1. DocumentedRetry = DefaultRetryPolicy
    BY SMT DEF DocumentedRetry, DefaultRetryPolicy
  <2> DEFINE v == DocumentedRetry
             attempts == or(r.retry.attempts, v.attempts)
             backoff == or(r.retry.backoff, v.backoff)
             maxBackoff == or(r.retry.maxBackoff, v.maxBackoff)
             window == or(r.retry.window, v.window)
  <2>2. d.retry = [attempts |-> attempts, backoff |-> backoff, maxBackoff |-> maxBackoff, window |-> window]
    BY <1>1, <2>1, Zenon DEF RetryToDomain, Defaulted
  <2> HIDE DEF attempts, backoff, maxBackoff, window
  <2>3. d.retry.attempts = attempts /\ d.retry.backoff = backoff /\ d.retry.maxBackoff = maxBackoff
        /\ d.retry.window = window
    BY <2>2
  <2> QED
    BY <2>3, Zenon DEF attempts, backoff, maxBackoff, window
<1>9. \A s \in {d.tenant, d.name, d.rule, d.tz, d.url, d.method, d.misfire, d.overlap} : ~s.pad
  <2>1. \A t : ~Str(t).pad
    BY DEF Str
  <2>2. ~d.tenant.pad /\ ~d.name.pad /\ ~d.rule.pad /\ ~d.url.pad
    BY <1>1, <2>1, Zenon DEF TrimSpace
  <2>3. ~d.tz.pad
    BY <1>5, Zenon
  <2>4. ~d.method.pad /\ ~d.overlap.pad
    <3>1. d.method \in {Str("POST"), Str("PUT")} /\ d.overlap \in {Str("allow"), Str("forbid")}
      BY <1>2, Zenon DEF Valid
    <3>2. \A s \in {d.method, d.overlap} : \E t : s = Str(t)
      BY <3>1, Zenon
    <3> QED
      BY <2>1, <3>2, Zenon
  <2>5. ~d.misfire.pad
    BY <1>2, <2>1, Zenon DEF Valid
  <2> QED
    BY <2>2, <2>3, <2>4, <2>5, Zenon
<1> QED
  BY <1>1, <1>3, <1>5, <1>6, <1>7, <1>8, <1>9, Zenon DEF Meaning, Reading

\* For every set of requests, the digest of an accepted one is a function of what the
\* request means and determines it: a retry spelled differently replays the receipt,
\* and a request for another schedule never does.
THEOREM DigestsAreMeanings == Spec => []DigestIsMeaning
<1>1. AdmitInv => DigestIsMeaning
  <2> SUFFICES ASSUME AdmitInv, WithSchedule PROVE DigestIsMeaning
    BY Zenon DEF DigestIsMeaning
  <2>1. req \in Requests /\ ScheduleAccepted(req) /\ digest.payload = NormalizedSchedule(ToDomain(req))
    <3>1. Handled /\ ~IsAction(req)
      BY DEF AdmitInv, WithSchedule
    <3> QED
      BY <3>1, Zenon DEF Handled, Admitted
  <2> QED
    BY <2>1, MeaningKept, Zenon DEF DigestIsMeaning
<1> QED
  BY <1>1, AdmissionInvariant, PTL

\* For every request that prepare lets through, the schedule fits the constraints of
\* scheduler_schedule, whose limits are those of the domain; the two it may violate are
\* the length of the time zone's name and what jsonb can hold.
THEOREM AcceptedFitsSchema == Spec => []StoredFitsSchema
<1>1. AdmitInv => StoredFitsSchema
  <2> SUFFICES ASSUME AdmitInv, WithSchedule PROVE StoredFitsSchema
    BY Zenon DEF StoredFitsSchema
  <2>1. req \in Requests /\ ScheduleAccepted(req) /\ sched = NormalizedSchedule(ToDomain(req))
    <3>1. Handled /\ ~IsAction(req)
      BY DEF AdmitInv, WithSchedule
    <3> QED
      BY <3>1, Zenon DEF Handled, Admitted
  <2>2. Valid(sched) /\ sched.status \in {"active", "paused"} /\ sched.rule = TrimSpace(req.rule.str)
    BY <2>1, PreparedAlready, StoredMembers
  <2>3. /\ ValidateTenantID(sched.tenant.text) /\ IsValidScheduleName(sched.name.text)
        /\ (sched.rule = Str("")) # (sched.runAt = NoInstant) /\ sched.rule.text # "long"
        /\ sched.tz.text \in Zones /\ sched.method \in {Str("POST"), Str("PUT")}
        /\ sched.payload.kind = "object" /\ RetryValid(sched.retry)
        /\ sched.overlap \in {Str("allow"), Str("forbid")}
    BY <2>2, Zenon DEF Valid
  <2>4. CheckCatchUp(sched)
    <3>1. \/ sched.misfire \in {Str("skip"), Str("fire_once")} /\ sched.limit = 1
          \/ sched.misfire = Str("catch_up_bounded") /\ sched.limit \in 1..MaxCatchUpOccurrences
      BY <2>2, Zenon DEF Valid
    <3>2. ASSUME sched.limit \in 1..MaxCatchUpOccurrences PROVE Between(sched.limit, 1, 100)
      BY <3>2, Limits, SMT DEF Between
    <3> QED
      BY <3>1, <3>2, Zenon DEF CheckCatchUp
  <2>5. CheckRule(sched)
    <3>1. sched.rule = Str("") <=> sched.rule.text = ""
      BY <2>2, TextOf, Zenon DEF TrimSpace
    <3> QED
      BY <2>3, <3>1, Zenon DEF CheckRule
  <2>6. CheckTimezone(sched) <=> sched.tz.text # LongZone
    BY <2>3, Zenon DEF Zones, LongZone, CheckTimezone
  <2>7. CheckRetry(sched.retry)
    BY <2>3, RetryLimits, Zenon
  <2>8. sched.tenant.text \notin {"", "long"}
    BY <2>3, Zenon DEF ValidateTenantID
  <2>9. FitsOtherColumns(sched)
    BY <2>2, <2>3, <2>4, <2>5, <2>7, <2>8, Zenon DEF FitsOtherColumns
  <2>10. CheckPayload(sched.payload) <=> sched.payload.content # "U+0000"
    BY <2>3, Zenon DEF CheckPayload
  <2> QED
    BY <2>6, <2>9, <2>10, Zenon DEF StoredFitsSchema
<1> QED
  BY <1>1, AdmissionInvariant, PTL
=============================================================================
