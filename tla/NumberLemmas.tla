---------------------------- MODULE NumberLemmas ----------------------------
(***************************************************************************)
(* Facts about numbers and recurrence rules that the proofs of several     *)
(* components need.  The least-number principle is stated for a set, which *)
(* is how an induction is carried out here: the counterexamples of a claim *)
(* would have a least one.                                                 *)
(***************************************************************************)
EXTENDS Integers, WellFoundedInduction, TLAPS

\* Every inhabited set of natural numbers has a least member.
LEMMA LeastNat ==
  ASSUME NEW T, T \subseteq Nat, T # {}
  PROVE  \E x \in T : \A y \in T : x <= y
<1>1. \E R : /\ IsWellFoundedOn(R, Nat)
             /\ \A x, y \in Nat : <<y, x>> \in R <=> y < x
  <2>1. \A x, y \in Nat : <<y, x>> \in OpToRel(<, Nat) <=> y < x
    BY Zenon DEF OpToRel
  <2> QED
    BY <2>1, NatLessThanWellFounded, Zenon
<1>2. PICK R : /\ IsWellFoundedOn(R, Nat)
               /\ \A x, y \in Nat : <<y, x>> \in R <=> y < x
  BY <1>1, Zenon
<1>3. PICK x \in T : \A y \in T : ~(<<y, x>> \in R)
  BY <1>2, WFMin
<1>4. \A y \in T : ~(y < x)
  BY <1>2, <1>3, Zenon
<1>5. x \in Nat /\ \A y \in T : y \in Nat
  OBVIOUS
<1>6. \A y \in T : x <= y
  BY <1>4, <1>5, SMT
<1> QED
  BY <1>6, Zenon

\* What CHOOSE picks as the least member of such a set.
LEMMA LeastChosen ==
  ASSUME NEW T, T \subseteq Nat, T # {}
  PROVE  LET least == CHOOSE x \in T : \A y \in T : x <= y
         IN least \in T /\ \A y \in T : least <= y
BY LeastNat

\* f[i] is the value reached from the first one after i steps.
Iterating(f, k, first, step) ==
  \A i \in 0..k : f[i] = IF i = 0 THEN first ELSE step[f[i - 1]]

\* A value and a step define a sequence of values, found one step at a time:
\* what a recursive function over 0..k amounts to.
LEMMA Iterates ==
  ASSUME NEW T, NEW first \in T, NEW step \in [T -> T]
  PROVE  \A k \in Nat : \E f \in [0..k -> T] : Iterating(f, k, first, step)
<1> DEFINE Solves(f, k) == Iterating(f, k, first, step)
           Bad == {k \in Nat : ~\E f \in [0..k -> T] : Solves(f, k)}
<1> SUFFICES ASSUME Bad # {} PROVE FALSE
  OBVIOUS
<1>1. PICK k \in Bad : \A j \in Bad : k <= j
  BY LeastNat
<1>2. k \in Nat /\ ~\E f \in [0..k -> T] : Solves(f, k)
  OBVIOUS
<1>3. CASE k = 0
  <2> DEFINE f == [i \in 0..k |-> first]
  <2>1. f \in [0..k -> T] /\ Solves(f, k)
    BY <1>3 DEF Iterating
  <2> QED
    BY <1>2, <2>1
<1>4. CASE k # 0
  <2>1. k - 1 \in Nat /\ k - 1 \notin Bad
    <3> HIDE DEF Bad
    <3> QED
      BY <1>1, <1>2, <1>4
  <2>2. PICK g \in [0..(k - 1) -> T] : Solves(g, k - 1)
    BY <2>1
  <2> HIDE DEF Bad
  <2> DEFINE f == [i \in 0..k |-> IF i = 0 THEN first ELSE step[g[i - 1]]]
  <2>3. \A i \in 0..k : i # 0 => i - 1 \in 0..(k - 1)
    BY <1>2
  <2>4. \A i \in 0..(k - 1) : i \in 0..k /\ f[i] = g[i]
    BY <1>2, <2>2 DEF Iterating
  <2>5. \A i \in 0..k : f[i] \in T
    BY <2>2, <2>3
  <2>6. Solves(f, k)
    BY <2>3, <2>4 DEF Iterating
  <2> QED
    BY <1>2, <2>5, <2>6
<1> QED
  BY <1>3, <1>4

\* Whole steps of a given length from a up to past b: the last one crosses b.
LEMMA StepsCross ==
  ASSUME NEW a \in Int, NEW b \in Int, a <= b, NEW step \in Nat \ {0}
  PROVE  LET n == (b - a) \div step + 1
         IN n \in Nat \ {0} /\ a + n * step \in Int /\ b < a + n * step /\ a + n * step <= b + step
OBVIOUS

\* No multiple lies strictly between a multiple and the next one.
LEMMA NoMultipleBetween ==
  ASSUME NEW m \in Int, NEW q \in Int, NEW step \in Nat \ {0},
         m * step < q * step, q * step < m * step + step
  PROVE  FALSE
<1>1. m * step + step = (m + 1) * step
  OBVIOUS
<1>2. m < q /\ q < m + 1
  BY <1>1
<1> QED
  BY <1>2

\* A number below the modulus is its own remainder.
LEMMA SmallRemainder ==
  ASSUME NEW a \in Nat, NEW b \in Nat, a < b
  PROVE  a % b = a
OBVIOUS

\* What fits a quotient fits when it is multiplied back.
LEMMA QuotientBound ==
  ASSUME NEW a \in Nat, NEW q \in Nat, NEW b \in Nat \ {0}, a <= q \div b
  PROVE  a * b <= q
OBVIOUS

-----------------------------------------------------------------------------
(* Recurrence rules.                                                       *)

Rec == INSTANCE Recurrence

\* What validation leaves in a rule that recurs.
Recurs(rule) ==
  /\ rule.kind \in {"every", "cron"}
  /\ rule.kind = "every" => rule.interval \in Nat \ {0}
  /\ rule.kind = "cron" => rule.minutes \in SUBSET Nat

\* The next match of a cron rule is its first later minute.
LEMMA MatchIsLater ==
  ASSUME NEW minutes \in SUBSET Nat, NEW after \in Int
  PROVE  LET next == Rec!NextMatch(minutes, after)
         IN \/ next = Rec!NoNext
            \/ /\ next \in minutes /\ next \in Nat /\ next > after
               /\ \A t \in minutes : t > after => next <= t
<1> DEFINE later == {t \in minutes : t > after}
<1>1. CASE later = {}
  BY <1>1 DEF Rec!NextMatch
<1>2. CASE later # {}
  <2> DEFINE least == CHOOSE t \in later : \A u \in later : t <= u
  <2>1. later \subseteq Nat
    OBVIOUS
  <2>2. Rec!NextMatch(minutes, after) = least
    BY <1>2 DEF Rec!NextMatch
  <2>3. least \in later /\ \A u \in later : least <= u
    <3> HIDE DEF later
    <3> QED
      BY <1>2, <2>1, LeastChosen
  <2> HIDE DEF least
  <2> QED
    BY <2>1, <2>2, <2>3
<1> QED
  BY <1>1, <1>2

\* Calculator.Next moves on, or fails.
LEMMA NextIsLater ==
  ASSUME NEW rule, Recurs(rule), NEW after \in Nat
  PROVE  LET next == Rec!Next(rule, after)
         IN next = Rec!NoNext \/ (next \in Nat /\ next > after)
<1>1. CASE rule.kind = "every"
  BY <1>1 DEF Recurs, Rec!Next
<1>2. CASE rule.kind = "cron"
  BY <1>2, MatchIsLater DEF Recurs, Rec!Next
<1> QED
  BY <1>1, <1>2 DEF Recurs

\* Calculator.NextAfter moves past its threshold, or fails.
LEMMA NextAfterIsLater ==
  ASSUME NEW rule, Recurs(rule), NEW anchor \in Nat, NEW threshold \in Nat,
         anchor <= threshold
  PROVE  LET next == Rec!NextAfter(rule, anchor, threshold)
         IN next = Rec!NoNext \/ (next \in Nat /\ next > threshold)
<1>1. CASE rule.kind = "every"
  <2> DEFINE step == rule.interval
             n == (threshold - anchor) \div step + 1
  <2>1. step \in Nat \ {0}
    BY <1>1 DEF Recurs
  <2>2. Rec!NextAfter(rule, anchor, threshold) = anchor + n * step
    BY <1>1 DEF Rec!NextAfter
  <2> HIDE DEF step
  <2>3. anchor + n * step \in Int /\ threshold < anchor + n * step
    <3>1. anchor \in Int /\ threshold \in Int
      OBVIOUS
    <3> QED
      BY <2>1, <3>1, StepsCross
  <2> HIDE DEF n
  <2> QED
    BY <2>2, <2>3
<1>2. CASE rule.kind = "cron"
  BY <1>2, MatchIsLater DEF Recurs, Rec!NextAfter
<1> QED
  BY <1>1, <1>2 DEF Recurs
=============================================================================
