---------------------------- MODULE MCDispatcher ----------------------------
(* Small instances of Dispatcher.                                          *)
EXTENDS Dispatcher, TLC

CONSTANTS o1, w1, w2, c1, c2

\* Two cycles of one process: overlapping wakeups.
Overlapping == (c1 :> w1) @@ (c2 :> w1)
\* Two processes with one cycle each.
Separate == (c1 :> w1) @@ (c2 :> w2)

TwoAttempts == [o \in Occurrences |-> 2]
FourAttempts == [o \in Occurrences |-> 4]
=============================================================================
