----------------------------- MODULE CronField ------------------------------
(***************************************************************************)
(* parseCronField for the day-of-week field (0..7, Sunday is 0 and 7): a   *)
(* comma list of items *, N, N-M, each with an optional /step, expanded by *)
(* a loop over machine integers.  The largest int is a parameter, so that  *)
(* a step as large as an int can be is a small number here.                *)
(***************************************************************************)
EXTENDS Integers

CONSTANTS
  MaxInt,    \* the largest int
  Values,    \* numbers that occur in items
  Steps      \* numbers that occur after a slash

Minimum == 0
Maximum == 7

ASSUME FieldAssumption ==
  /\ MaxInt \in Nat /\ MaxInt >= Maximum
  /\ Values \subseteq Int /\ Steps \subseteq Int

\* The sum of two ints, which wraps around.
Plus(a, b) == ((a + b + MaxInt + 1) % (2 * (MaxInt + 1))) - (MaxInt + 1)

\* kind: star, value or range; slash: a step is written, otherwise it is 1.
Items ==
  {i \in [kind : {"star"}, from : {Minimum}, to : {Maximum}, slash : BOOLEAN, step : Steps \cup {1}]
         \cup [kind : {"value", "range"}, from : Values, to : Values, slash : BOOLEAN, step : Steps \cup {1}] :
     /\ i.kind = "value" => i.to = i.from
     /\ i.slash \/ i.step = 1}

VARIABLES
  pc,        \* next item, loop of an item, parsed or error
  list,      \* the items as written
  left,      \* the items still to parse
  item,      \* the item of the loop
  value,     \* the loop variable
  allowed,   \* cronField.allowed
  wildcard   \* cronField.wildcard

NoItem == [kind |-> "none"]

items == <<list, left, item, value>>

SplitStep(i) == i.step

\* N/step runs to the end of the field.
End(i) == IF i.kind = "value" /\ i.slash THEN Maximum ELSE i.to

\* Mutation: a step of zero is accepted.
RejectedNegativeStep(i) ==
  \/ SplitStep(i) < 0
  \/ {i.from, i.to} \cap (Minimum..Maximum) # {i.from, i.to}
  \/ i.from > i.to

\* A step below one and a range outside the field or backwards are errors.
Rejected(i) ==
  \/ SplitStep(i) < 1
  \/ {i.from, i.to} \cap (Minimum..Maximum) # {i.from, i.to}
  \/ i.from > i.to

FieldInit ==
  /\ left = list
  /\ item = NoItem
  /\ value = Minimum
  /\ allowed = {} /\ wildcard = FALSE

NextItem ==
  /\ pc = "next" /\ left # {}
  /\ \E i \in left :
       /\ left' = left \ {i} /\ item' = i
       /\ wildcard' = (wildcard \/ (SplitStep(i) = 1 /\ i.kind = "star"))
       /\ value' = i.from
       /\ pc' = IF Rejected(i) THEN "error" ELSE "loop"
  /\ UNCHANGED <<list, allowed>>

Normalized(v) == IF v = 7 THEN 0 ELSE v

\* Mutation: the loop relies on its condition alone.
AddUnguarded ==
  /\ pc = "loop"
  /\ allowed' = allowed \cup {Normalized(value)}
  /\ value' = Plus(value, SplitStep(item))
  /\ pc' = IF value' > End(item) THEN "next" ELSE "loop"
  /\ UNCHANGED <<list, left, item, wildcard>>

\* One turn of the loop; it stops before a step would leave the range.
Add ==
  /\ pc = "loop"
  /\ allowed' = allowed \cup {Normalized(value)}
  /\ IF SplitStep(item) > End(item) - value
     THEN pc' = "next" /\ UNCHANGED value
     ELSE value' = Plus(value, SplitStep(item)) /\ UNCHANGED pc
  /\ UNCHANGED <<list, left, item, wildcard>>

\* The parsed field is returned.
Finish ==
  /\ pc = "next" /\ left = {}
  /\ pc' = "parsed"
  /\ UNCHANGED <<items, allowed, wildcard>>

-----------------------------------------------------------------------------
(* Correctness.                                                            *)

\* The days an item stands for, by definition.
Days(i) == {Normalized(v) : v \in {u \in i.from..End(i) : (u - i.from) % SplitStep(i) = 0}}

\* The parsed field is the union of what its items mean, for steps up to the
\* largest int, and it is a wildcard only if it allows every day.
FieldIsExact ==
  pc = "parsed" => /\ allowed = UNION {Days(i) : i \in list}
                   /\ wildcard => allowed = 0..6

\* The loop ends: a step near the largest int does not wrap around below the
\* range and start over.
LoopEnds == <>[](pc \notin {"next", "loop"})
=============================================================================
