------------------------------ MODULE Runtime -------------------------------
(***************************************************************************)
(* The life of one scheduler process: Runtime.Start and Stop on the main   *)
(* goroutine, timer callbacks that trigger cycles, the cycles themselves   *)
(* and the shutdown deadline that main gives the HTTP server and the       *)
(* runtime together.                                                       *)
(***************************************************************************)
EXTENDS Naturals, FiniteSets

CONSTANTS
  Cycles,     \* bound: cycles that may be in flight at once
  MaxFired    \* bound: timer callbacks that have not yet triggered

ASSUME RuntimeAssumption == IsFiniteSet(Cycles) /\ MaxFired \in Nat

VARIABLES
  main,        \* where the main goroutine is
  accepting,   \* Runtime.accepting, under Runtime.mu
  ready,       \* Runtime.ready
  timer,       \* the gocron scheduler is running
  fired,       \* timer callbacks before their trigger
  inFlight,    \* the counter of Runtime.inFlight
  cycle,       \* where each cycle goroutine is
  cancelled,   \* Runtime.ctx is cancelled
  expired      \* the shutdown deadline has passed

vars == <<main, accepting, ready, timer, fired, inFlight, cycle, cancelled, expired>>

Stopped == {"drained", "timed_out"}

\* Every variable has its type, and the wait group counts the cycles that run.
TypeOK ==
  /\ main \in {"new", "starting", "announce", "first", "serving", "http", "unready",
               "refuse", "cancel", "wakeup", "wait", "failed"} \cup Stopped
  /\ {accepting, ready, timer, cancelled, expired} \subseteq BOOLEAN
  /\ fired \in Nat /\ inFlight = Cardinality({c \in Cycles : cycle[c] # "idle"})
  /\ cycle \in [Cycles -> {"idle", "plan", "dispatch", "call"}]

Init ==
  /\ main = "new"
  /\ accepting = FALSE /\ ready = FALSE /\ timer = FALSE
  /\ cancelled = FALSE /\ expired = FALSE
  /\ fired = 0 /\ inFlight = 0
  /\ cycle = [c \in Cycles |-> "idle"]

-----------------------------------------------------------------------------
(* Cycles.                                                                 *)

\* Mutation: the flag is not looked at.
TriggerAlways ==
  \E c \in Cycles : /\ cycle[c] = "idle"
                    /\ cycle' = [cycle EXCEPT ![c] = "plan"]
                    /\ inFlight' = inFlight + 1

\* trigger: the flag and the wait group change under one lock.
Trigger ==
  \/ /\ accepting
     /\ \E c \in Cycles : /\ cycle[c] = "idle"
                          /\ cycle' = [cycle EXCEPT ![c] = "plan"]
                          /\ inFlight' = inFlight + 1
  \/ ~accepting /\ UNCHANGED <<cycle, inFlight>>

\* The timer does not wait for the cycle before: cycles overlap.
TimerFires ==
  /\ timer /\ fired < MaxFired
  /\ fired' = fired + 1
  /\ UNCHANGED <<main, accepting, ready, timer, inFlight, cycle, cancelled, expired>>

Callback ==
  /\ fired > 0 /\ fired' = fired - 1
  /\ Trigger
  /\ UNCHANGED <<main, accepting, ready, timer, cancelled, expired>>

\* RunCycle plans, then dispatches whether or not planning failed.  Dispatching
\* alternates between transactions and calls to targets.
Works(c) ==
  \/ cycle[c] \in {"plan", "call"} /\ cycle' = [cycle EXCEPT ![c] = "dispatch"]
  \/ cycle[c] = "dispatch" /\ ~cancelled /\ cycle' = [cycle EXCEPT ![c] = "call"]

\* Mutation: a cycle that ends does not tell the wait group.
RunCycleLeaks(c) ==
  /\ \/ Works(c)
     \/ cycle[c] = "dispatch" /\ cycle' = [cycle EXCEPT ![c] = "idle"]
  /\ UNCHANGED <<main, accepting, ready, timer, fired, inFlight, cancelled, expired>>

RunCycle(c) ==
  /\ \/ Works(c) /\ UNCHANGED inFlight
     \/ /\ cycle[c] = "dispatch"
        /\ cycle' = [cycle EXCEPT ![c] = "idle"] /\ inFlight' = inFlight - 1
  /\ UNCHANGED <<main, accepting, ready, timer, fired, cancelled, expired>>

-----------------------------------------------------------------------------
(* The main goroutine: Start.                                              *)

StartAccepting ==
  /\ main = "new" /\ main' = "starting"
  /\ accepting' = TRUE
  /\ UNCHANGED <<ready, timer, fired, inFlight, cycle, cancelled, expired>>

\* The wakeup starts, or Start takes the flag back and run returns the error.
StartWakeup ==
  /\ main = "starting"
  /\ \/ main' = "announce" /\ timer' = TRUE /\ UNCHANGED accepting
     \/ main' = "failed" /\ accepting' = FALSE /\ UNCHANGED timer
  /\ UNCHANGED <<ready, fired, inFlight, cycle, cancelled, expired>>

Announce ==
  /\ main = "announce" /\ main' = "first"
  /\ ready' = TRUE
  /\ UNCHANGED <<accepting, timer, fired, inFlight, cycle, cancelled, expired>>

FirstTrigger ==
  /\ main = "first" /\ main' = "serving"
  /\ Trigger
  /\ UNCHANGED <<accepting, ready, timer, fired, cancelled, expired>>

-----------------------------------------------------------------------------
(* The main goroutine: shutdown.                                           *)

\* A signal or a server error; the deadline starts to run.
Signal ==
  /\ main = "serving" /\ main' = "http"
  /\ UNCHANGED <<accepting, ready, timer, fired, inFlight, cycle, cancelled, expired>>

\* Ten seconds for server.Shutdown and Runtime.Stop together.
Deadline ==
  /\ main \in {"http", "unready", "refuse", "cancel", "wakeup", "wait"} /\ ~expired
  /\ expired' = TRUE
  /\ UNCHANGED <<main, accepting, ready, timer, fired, inFlight, cycle, cancelled>>

\* server.Shutdown returns: requests drained sooner or later, or the deadline
\* passed.
ServerDown ==
  /\ main = "http" /\ main' = "unready"
  /\ UNCHANGED <<accepting, ready, timer, fired, inFlight, cycle, cancelled, expired>>

StopReady ==
  /\ main = "unready" /\ main' = "refuse"
  /\ ready' = FALSE
  /\ UNCHANGED <<accepting, timer, fired, inFlight, cycle, cancelled, expired>>

\* Mutation: Stop forgets the flag.
StillAccepting ==
  /\ main = "refuse" /\ main' = "cancel"
  /\ UNCHANGED <<accepting, ready, timer, fired, inFlight, cycle, cancelled, expired>>

StopAccepting ==
  /\ main = "refuse" /\ main' = "cancel"
  /\ accepting' = FALSE
  /\ UNCHANGED <<ready, timer, fired, inFlight, cycle, cancelled, expired>>

\* Mutation: Stop leaves the cycles' context alone.
NoCancel ==
  /\ main = "cancel" /\ main' = "wakeup"
  /\ UNCHANGED <<accepting, ready, timer, fired, inFlight, cycle, cancelled, expired>>

Cancel ==
  /\ main = "cancel" /\ main' = "wakeup"
  /\ cancelled' = TRUE
  /\ UNCHANGED <<accepting, ready, timer, fired, inFlight, cycle, expired>>

\* Wakeup.Stop waits for callbacks that are running, but not past the deadline.
StopWakeup ==
  /\ main = "wakeup" /\ main' = "wait"
  /\ fired = 0 \/ expired
  /\ timer' = FALSE
  /\ UNCHANGED <<accepting, ready, fired, inFlight, cycle, cancelled, expired>>

\* Mutation: Stop waits for the cycles only.
StopWaits ==
  /\ main = "wait" /\ inFlight = 0 /\ main' = "drained"
  /\ UNCHANGED <<accepting, ready, timer, fired, inFlight, cycle, cancelled, expired>>

\* Both cases of the select may be ready.
StopReturns ==
  /\ main = "wait"
  /\ \/ inFlight = 0 /\ main' = "drained"
     \/ expired /\ main' = "timed_out"
  /\ UNCHANGED <<accepting, ready, timer, fired, inFlight, cycle, cancelled, expired>>

Main ==
  \/ StartAccepting \/ StartWakeup \/ Announce \/ FirstTrigger
  \/ ServerDown \/ StopReady \/ StopAccepting \/ Cancel \/ StopWakeup \/ StopReturns

Next ==
  \/ Main \/ Signal \/ Deadline \/ TimerFires \/ Callback
  \/ \E c \in Cycles : RunCycle(c)

\* Process adds the rest of the process and the fairness.
Spec == Init /\ [][Next]_vars

-----------------------------------------------------------------------------
(* Correctness.                                                            *)

\* When Stop reports success no cycle is running, and none starts afterwards,
\* although timer callbacks may still be on their way: main may close the pool.
DrainedIsQuiet == main = "drained" => inFlight = 0

\* The wait group is never added to while Stop waits for it to drain.
NoAddDuringWait ==
  [][main = "wait" => inFlight' <= inFlight]_vars

\* The readiness probe answers yes only while wakeups start cycles.
ReadyMeansWorking == ready => accepting /\ timer

\* The order the operations guide gives for a shutdown: readiness is closed
\* before the HTTP server shuts down.
UnreadyBeforeServerShutdown == main = "http" => ~ready
=============================================================================
