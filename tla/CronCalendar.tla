---------------------------- MODULE CronCalendar ----------------------------
(***************************************************************************)
(* parseCron and the search of Calculator.Next at the grain of days: the   *)
(* day-of-week field is parsed as in CronField, an expression without a    *)
(* possible date is rejected, and the search goes from day to day up to    *)
(* its horizon.                                                            *)
(***************************************************************************)
EXTENDS CronField

CONSTANTS
  DayFields,     \* day-of-month and month fields: [dom, month : sets, anyDom : BOOLEAN]
  Starts,        \* days on which a search starts: [y, m, d, w]
  SearchYears    \* the horizon

VARIABLES
  fields,   \* the other day fields of the expression
  start,    \* the first candidate
  day       \* the candidate

calendarVars == <<pc, list, left, item, value, allowed, wildcard, fields, start, day>>

Leap(y) == y % 4 = 0 /\ (y % 100 # 0 \/ y % 400 = 0)

DaysIn(y, m) ==
  CASE m = 2 -> IF Leap(y) THEN 29 ELSE 28
    [] m \in {4, 6, 9, 11} -> 30
    [] m \in {1, 3, 5, 7, 8, 10, 12} -> 31

Date(t) == t \in [y : Nat, m : 1..12, d : 1..31, w : 0..6] /\ t.d <= DaysIn(t.y, t.m)

\* A month field that was parsed allows some month; the horizon, ten years in the
\* code, is past the eight years without a leap day.
ASSUME CalendarAssumption ==
  /\ SearchYears \in Nat /\ SearchYears > 8
  /\ \A s \in Starts : Date(s)
  /\ \A f \in DayFields : /\ f.month \subseteq 1..12 /\ f.month # {}
                          /\ f.dom \subseteq 1..31 /\ f.anyDom \in BOOLEAN

Tomorrow(t) ==
  LET w == (t.w + 1) % 7 IN
  IF t.d < DaysIn(t.y, t.m) THEN [y |-> t.y, m |-> t.m, d |-> t.d + 1, w |-> w]
  ELSE IF t.m < 12 THEN [y |-> t.y, m |-> t.m + 1, d |-> 1, w |-> w]
  ELSE [y |-> t.y + 1, m |-> 1, d |-> 1, w |-> w]

\* Two restricted day fields are alternatives.
Matches(t) ==
  /\ t.m \in fields.month
  /\ CASE fields.anyDom /\ wildcard -> TRUE
       [] fields.anyDom /\ ~wildcard -> t.w \in allowed
       [] ~fields.anyDom /\ wildcard -> t.d \in fields.dom
       [] ~fields.anyDom /\ ~wildcard -> t.d \in fields.dom \/ t.w \in allowed

\* Mutation: every month is taken to have 31 days.
AnyDatePossible(f) == ~wildcard \/ f.anyDom \/ f.dom \cap (1..31) # {}

\* The year 2000 is a leap year, so that 29 February is a possible date.
HasPossibleCalendarDate(f) ==
  \/ ~wildcard \/ f.anyDom
  \/ \E m \in f.month : \E d \in 1..DaysIn(2000, m) : d \in f.dom

CalendarInit ==
  /\ FieldInit
  /\ fields = CHOOSE f \in DayFields : TRUE
  /\ start = CHOOSE s \in Starts : TRUE
  /\ day = start

\* The end of parseCron: with the other fields it has parsed, the expression is
\* accepted or not; the text is forgotten.
ParseCron ==
  /\ pc = "parsed"
  /\ fields' \in DayFields /\ start' \in Starts /\ day' = start'
  /\ pc' = IF HasPossibleCalendarDate(fields') THEN "search" ELSE "rejected"
  /\ list' = {} /\ item' = NoItem /\ value' = Minimum
  /\ UNCHANGED <<left, allowed, wildcard>>

\* candidate.After(limit), with limit ten years after the first candidate.
PastLimit(t) ==
  t.y > start.y + SearchYears
  \/ (t.y = start.y + SearchYears /\ (t.m > start.m \/ (t.m = start.m /\ t.d > start.d)))

Search ==
  /\ pc = "search"
  /\ IF PastLimit(day) THEN pc' = "no_occurrence" /\ UNCHANGED day
     ELSE IF Matches(day) THEN pc' = "found" /\ UNCHANGED day
     ELSE day' = Tomorrow(day) /\ UNCHANGED pc
  /\ UNCHANGED <<items, allowed, wildcard, fields, start>>

ParseField == (NextItem \/ Add \/ Finish) /\ UNCHANGED <<fields, start, day>>

-----------------------------------------------------------------------------
(* Correctness.                                                            *)

\* A common year and a leap year.
BothKinds == {1999, 2000}

\* The expression allows no date, whatever the year and its weekdays.
Dateless ==
  \A y \in BothKinds : \A m \in fields.month : \A d \in 1..DaysIn(y, m) :
    \A w \in 0..6 : ~Matches([y |-> y, m |-> m, d |-> d, w |-> w])

\* Validation and search agree: an expression that parseCron accepts always has
\* a date inside the horizon, across the eight years without a leap day around
\* 2100 too, so a stored schedule never runs out of instants; and an expression
\* that is rejected has no date in any year.
AcceptedMeansFound ==
  /\ pc # "no_occurrence"
  /\ pc = "rejected" => Dateless
=============================================================================
