----------------------------- MODULE Recurrence -----------------------------
(***************************************************************************)
(* The recurrence calculator as its callers see it.  A rule is an @every   *)
(* interval or a cron expression; a cron expression is the set of minutes  *)
(* it matches inside the search horizon, so that a rule may run out of     *)
(* instants, which the calculator reports as an error.                     *)
(***************************************************************************)
EXTENDS Integers

NoNext == -2   \* "schedule has no occurrence within the supported search horizon"

Every(interval) == [kind |-> "every", interval |-> interval]
Cron(minutes) == [kind |-> "cron", minutes |-> minutes]

\* Mutation: an instant follows itself.
NextMatchInclusive(minutes, after) ==
  LET later == {t \in minutes : t >= after} IN
  IF later = {} THEN NoNext ELSE CHOOSE t \in later : \A u \in later : t <= u

\* The first instant of a cron rule after a given one.
NextMatch(minutes, after) ==
  LET later == {t \in minutes : t > after} IN
  IF later = {} THEN NoNext ELSE CHOOSE t \in later : \A u \in later : t <= u

\* Calculator.Next
Next(rule, after) ==
  IF rule.kind = "every" THEN after + rule.interval ELSE NextMatch(rule.minutes, after)

\* Calculator.NextAfter: an interval keeps its phase relative to the anchor, a
\* cron rule does not depend on it.
NextAfter(rule, anchor, threshold) ==
  IF rule.kind = "every"
  THEN IF anchor > threshold THEN anchor
       ELSE anchor + ((threshold - anchor) \div rule.interval + 1) * rule.interval
  ELSE NextMatch(rule.minutes, threshold)
=============================================================================
