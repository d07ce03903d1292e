------------------------------ MODULE Process -------------------------------
(***************************************************************************)
(* The scheduler command from main to exit: start-up against a namespace   *)
(* that installers may be working on, the runtime's life, the connections  *)
(* that cycles, requests and the readiness probe take from the pool, and   *)
(* the deferred closes that every return of run passes through.            *)
(***************************************************************************)
EXTENDS Runtime, Installer

CONSTANT
  Handlers  \* bound: command and query requests served at once

VARIABLES
  boot,     \* where run is: start-up, "up" while the runtime lives, closing
  pool,     \* the PostgreSQL pool
  redis,    \* the Redis client
  probe,    \* a /readyz request
  conn      \* the WithinTx of each cycle and request

procVars == <<boot, pool, redis, probe, conn>>
allVars == <<main, accepting, ready, timer, fired, inFlight, cycle, cancelled, expired,
             namespace, objects, lock, inst, boot, pool, redis, probe, conn>>

Resource == {"none", "open", "closed"}

\* Every variable has its type, the parts' included.
ProcessTypeOK ==
  /\ TypeOK /\ InstallTypeOK
  /\ boot \in {"load", "ping", "redis", "build", "up", "close_redis", "close_pool", "exited"}
  /\ pool \in Resource \cup {"closing"} /\ redis \in Resource
  /\ probe \in {"none", "ping", "held", "200", "503"}
  /\ conn \in [Cycles \cup Handlers -> {"none", "wait", "tx", "rollback"}]

ProcessInit ==
  /\ Init /\ InstallInit
  /\ boot = "load" /\ pool = "none" /\ redis = "none" /\ probe = "none"
  /\ conn = [x \in Cycles \cup Handlers |-> "none"]

-----------------------------------------------------------------------------
(* run, up to Runtime.Start.                                               *)

\* config.Load and pgxpool.New; nothing has been opened when they fail.
Load ==
  /\ boot = "load"
  /\ \/ boot' = "ping" /\ pool' = "open"
     \/ boot' = "exited" /\ UNCHANGED pool
  /\ UNCHANGED <<redis, probe, conn>>

\* Store.Ping inspects the namespace on one session; it may also fail.
Ping ==
  /\ boot = "ping"
  /\ \/ NamespaceReady /\ boot' = "redis"
     \/ boot' = "close_pool"
  /\ UNCHANGED <<pool, redis, probe, conn>>

\* Mutation: the client whose ping failed is left open.
OpenRedisLeaks ==
  /\ boot = "redis"
  /\ \/ boot' = "build" /\ redis' \in {"none", "open"}
     \/ boot' = "close_pool" /\ redis' \in {"none", "open"}
  /\ UNCHANGED <<pool, probe, conn>>

\* openRedis: not configured, open, refused for its URL, or closed again after
\* a failed ping.
OpenRedis ==
  /\ boot = "redis"
  /\ \/ boot' = "build" /\ redis' \in {"none", "open"}
     \/ boot' = "close_pool" /\ redis' \in {"none", "closed"}
  /\ UNCHANGED <<pool, probe, conn>>

\* resolveWorkerID and the constructors.
Build ==
  /\ boot = "build"
  /\ boot' \in {"up", "close_redis"}
  /\ UNCHANGED <<pool, redis, probe, conn>>

\* run returns: Start failed or Stop came back.
Return ==
  /\ boot = "up" /\ main \in Stopped \cup {"failed"}
  /\ boot' = "close_redis"
  /\ UNCHANGED <<pool, redis, probe, conn>>

-----------------------------------------------------------------------------
(* The deferred closes, last deferred first.                               *)

\* The client is closed only when there is one.
CloseRedis ==
  /\ boot = "close_redis" /\ boot' = "close_pool"
  /\ redis' = IF redis = "open" THEN "closed" ELSE redis
  /\ UNCHANGED <<pool, probe, conn>>

\* Pool.Close turns new acquisitions away first...
ClosePool ==
  /\ boot = "close_pool" /\ pool = "open" /\ pool' = "closing"
  /\ UNCHANGED <<boot, redis, probe, conn>>

Out == {x \in Cycles \cup Handlers : conn[x] \in {"tx", "rollback"}}

\* ...then waits for every connection that is out, whoever holds it.  Cycles
\* that are in a call to a target end with the process.
Exit ==
  /\ pool = "closing" /\ Out = {} /\ probe # "held"
  /\ pool' = "closed" /\ boot' = "exited"
  /\ UNCHANGED <<redis, probe, conn>>

\* The service manager starts a process again whose start-up failed.
Restart ==
  /\ boot = "exited" /\ main = "new"
  /\ boot' = "load" /\ pool' = "none" /\ redis' = "none"
  /\ UNCHANGED <<probe, conn>>

Run ==
  Load \/ Ping \/ OpenRedis \/ Build \/ Return \/ CloseRedis \/ ClosePool \/ Exit

-----------------------------------------------------------------------------
(* The readiness handler of the HTTP server.                               *)

\* The server takes requests from the time run serves until Shutdown returns.
Serving == boot = "up" /\ main \in {"serving", "http"}

ProbeBegin ==
  /\ Serving /\ probe \in {"none", "200", "503"}
  /\ probe' = IF ready THEN "ping" ELSE "503"
  /\ UNCHANGED <<boot, pool, redis, conn>>

\* Store.Ping acquires a session, which a closing pool refuses.
ProbeAcquire ==
  /\ boot # "exited" /\ probe = "ping"
  /\ \/ pool = "open" /\ probe' = "held"
     \/ probe' = "503"
  /\ UNCHANGED <<boot, pool, redis, conn>>

\* The pings are answered now, or not within the two seconds of their context.
ProbePing ==
  /\ boot # "exited" /\ probe = "held"
  /\ \/ NamespaceReady /\ redis # "closed" /\ probe' = "200"
     \/ probe' = "503"
  /\ UNCHANGED <<boot, pool, redis, conn>>

-----------------------------------------------------------------------------
(* WithinTx, of the cycles under the runtime's context and of the command  *)
(* and query handlers under their request's.  Shutdown's deadline does not *)
(* cancel the latter.                                                      *)

Moves(x, from, to) ==
  /\ boot # "exited" /\ conn[x] = from /\ conn' = [conn EXCEPT ![x] = to]
  /\ UNCHANGED <<boot, pool, redis, probe>>

\* A request comes in, and may be answered without a transaction.
RequestBegins(h) == Serving /\ Moves(h, "none", "wait")
RequestRefused(h) == Moves(h, "wait", "none")

\* BeginTx acquires a connection: none from a closing pool, none in a context
\* that is cancelled.
RequestTx(h) == pool = "open" /\ Moves(h, "wait", "tx")
CycleTx(c) ==
  /\ pool = "open" /\ ~cancelled /\ cycle[c] \in {"plan", "dispatch"}
  /\ Moves(c, "none", "tx")

\* The commit, or an error.  A statement that is cut off by its context takes
\* the connection with it; otherwise the deferred rollback has to be answered.
TxEnds(x) == Moves(x, "tx", "none") \/ Moves(x, "tx", "rollback")

\* Rollback(context.Background()) returns when the database answers.
RolledBack(x) == Moves(x, "rollback", "none")

Connections ==
  \/ \E h \in Handlers : RequestBegins(h) \/ RequestRefused(h) \/ RequestTx(h)
  \/ \E c \in Cycles : CycleTx(c)
  \/ \E x \in Cycles \cup Handlers : TxEnds(x) \/ RolledBack(x)

-----------------------------------------------------------------------------
(* Composition.                                                            *)

Alive == boot # "exited"

RuntimeMain == boot = "up" /\ Main /\ UNCHANGED <<installVars, procVars>>

\* A cycle goes on when its transaction is over.
RuntimeCycle(c) ==
  Alive /\ conn[c] = "none" /\ RunCycle(c) /\ UNCHANGED <<installVars, procVars>>
RuntimeCallback == Alive /\ Callback /\ UNCHANGED <<installVars, procVars>>
RuntimeDeadline == Alive /\ Deadline /\ UNCHANGED <<installVars, procVars>>

\* Bound: the runtime's life is explored from the states in which no command
\* of the installer is under way.
Settled == \A i \in Installers : inst[i] = "idle"

RunStep == Run /\ (boot = "build" => Settled) /\ UNCHANGED <<vars, installVars>>

ProcessNext ==
  \/ RunStep
  \/ (Restart \/ ProbeBegin \/ ProbeAcquire \/ ProbePing \/ Connections) /\ UNCHANGED <<vars, installVars>>
  \/ RuntimeMain \/ RuntimeCallback \/ RuntimeDeadline
  \/ Alive /\ (Signal \/ TimerFires) /\ UNCHANGED <<installVars, procVars>>
  \/ \E c \in Cycles : RuntimeCycle(c)
  \/ boot # "up" /\ main = "new" /\ InstallNext /\ UNCHANGED <<vars, procVars>>

\* The main goroutine runs and time passes: the shutdown deadline and the
\* probe's two seconds come, and a statement ends once its context is cancelled.
\* Nothing is assumed of requests, rollbacks, calls, callbacks or the database.
ProcessFairness ==
  /\ WF_allVars(RuntimeMain) /\ WF_allVars(RuntimeDeadline) /\ WF_allVars(RunStep)
  /\ WF_allVars(ProbePing /\ UNCHANGED <<vars, installVars>>)
  /\ \A c \in Cycles : WF_allVars(cancelled /\ TxEnds(c) /\ UNCHANGED <<vars, installVars>>)

ProcessSpec == ProcessInit /\ [][ProcessNext]_allVars /\ ProcessFairness

-----------------------------------------------------------------------------
(* Correctness.                                                            *)

\* The process accepts work, and its probe answers 200, only over a namespace
\* with every required table, however its start-up interleaved with
\* installations that were running, waiting, failing or being retried.
ServesOnlyInstalled == accepting \/ probe = "200" => Required \subseteq objects

\* Whichever way run returns, from any stage of its start-up or after a Stop
\* that gave up on its cycles, it closes each of the two stores it had opened.
ExitReleases ==
  boot = "exited" => pool \in {"none", "closed"} /\ redis \in {"none", "closed"}

\* A shutdown that has begun gets as far as closing the pool, whatever cycles,
\* callbacks and requests are waiting for: both waits of run give up at the
\* deadline.
ShutdownClosesPool == main = "http" ~> pool = "closing"

\* The connections that no context of the process takes back: a request's
\* transaction, and a rollback.
Unbounded ==
  {h \in Handlers : conn[h] = "tx"} \cup {x \in Cycles \cup Handlers : conn[x] = "rollback"}

\* A shutdown that has begun ends with the exit of the process unless, from some
\* time on, a request's transaction or a rollback never comes back from the
\* database: cycles that Stop gave up on and probes cannot hold up pool.Close.
ShutdownEnds == main = "http" ~> (boot = "exited" \/ [](Unbounded # {}))
=============================================================================
