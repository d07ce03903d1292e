----------------------------- MODULE MCPlanner ------------------------------
(***************************************************************************)
(* Instances of Planner for TLC.                                           *)
(***************************************************************************)
EXTENDS Planner

CONSTANTS c1, c2, w1, w2

\* Two overlapping cycles of one process, or one cycle in each of two.
Overlapping == [c \in Cycles |-> w1]
Separate == [c \in Cycles |-> IF c = c1 THEN w1 ELSE w2]

Definition(rule, misfire, limit, overlap) ==
  [rule |-> rule, misfire |-> misfire, limit |-> limit, overlap |-> overlap, status |-> "active"]

Once(t) == [kind |-> "once", at |-> t]

\* Cron rules that run out of instants, skipping or firing the first one missed.
Skipping == {Definition(R!Cron({1, 3}), "skip", 1, "allow"),
             Definition(R!Every(2), "fire_once", 1, "forbid")}

\* An interval that catches up and forbids overlap, and once schedules, one of
\* them created paused, to replace it by.
CatchUpAndOnce ==
  {Definition(R!Every(1), "catch_up_bounded", 2, "forbid"), Definition(Once(3), "fire_once", 1, "allow"),
   [Definition(Once(2), "skip", 1, "forbid") EXCEPT !.status = "paused"]}
=============================================================================
