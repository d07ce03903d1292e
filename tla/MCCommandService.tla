-------------------------- MODULE MCCommandService --------------------------
(***************************************************************************)
(* Instances of CommandService for TLC.                                    *)
(***************************************************************************)
EXTENDS CommandService, TLC

CONSTANTS s1, s2

\* Sessions are interchangeable.
Symmetry == Permutations(Sessions)

Definition(rule) == [rule |-> rule, status |-> "active"]
Once(t) == [kind |-> "once", at |-> t]
Send(op, key, body) == [op |-> op, name |-> "a", key |-> key, body |-> body]

\* Every operation on one name: creates with one key, one of them with a rule
\* that runs out, and updates with one key that keep or change the run_at, race
\* with the others and with the planner.
SomeDefinitions == {Definition(Once(1)), Definition(Once(2)), Definition(R!Cron({1}))}
SomeRequests ==
  {Send("create", "k", d) : d \in {Definition(Once(1)), Definition(R!Cron({1}))}}
  \cup {Send("update", "k", d) : d \in {Definition(Once(1)), Definition(Once(2))}}
  \cup {Send(op, "k", None) : op \in {"delete", "pause", "resume"}}
=============================================================================
