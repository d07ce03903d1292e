--------------------------- MODULE ProcessProofs ----------------------------
(***************************************************************************)
(* The safety of the process's life, for any number of cycles, pending     *)
(* callbacks and installers.  A step of the process is a step of the       *)
(* runtime or none and a step of the installer or none, so each part keeps *)
(* an invariant of its own; a third one relates the two.                   *)
(***************************************************************************)
EXTENDS Process, FiniteSetTheorems, TLAPS

\* The cycles that the wait group counts.
Busy == {c \in Cycles : cycle[c] # "idle"}

\* Each flag is a function of where the main goroutine is.
RuntimeInv ==
  /\ TypeOK
  /\ accepting <=> main \in {"starting", "announce", "first", "serving", "http", "unready", "refuse"}
  /\ timer <=> main \in {"announce", "first", "serving", "http", "unready", "refuse", "cancel", "wakeup"}
  /\ ready <=> main \in {"first", "serving", "http", "unready"}
  /\ main \in {"new", "drained"} => inFlight = 0

\* The lock belongs to whoever has passed it, and only an empty namespace lets
\* a command through to its script.
InstallInv ==
  /\ InstallTypeOK
  /\ \A i \in Installers : inst[i] \in Holding <=> lock = i
  /\ \A i \in Installers : inst[i] \in {"ddl", "commit"} => objects = {}
  /\ \A i \in Installers : inst[i] # "clash"

\* Start-up comes before the runtime, and each stage has opened what it has.
StageInv ==
  /\ boot \in {"load", "ping", "redis", "build", "up", "close_redis", "close_pool", "exited"}
  /\ pool \in Resource \cup {"closing"} /\ redis \in Resource
  /\ probe \in {"none", "ping", "held", "200", "503"}
  /\ conn \in [Cycles \cup Handlers -> {"none", "wait", "tx", "rollback"}]
  /\ main \notin {"new", "failed"} \cup Stopped => boot = "up"
  /\ boot \in {"load", "ping", "redis", "build"} => main = "new"
  /\ boot \in {"redis", "build", "up"} => Required \subseteq objects
  /\ main # "new" => Required \subseteq objects
  /\ probe \in {"ping", "held", "200"} => main # "new"
  /\ boot = "load" => pool = "none"
  /\ boot \in {"ping", "redis", "build", "up", "close_redis"} => pool = "open"
  /\ boot = "close_pool" => pool \in {"open", "closing"}
  /\ boot = "exited" => pool \in {"none", "closed"}
  /\ boot \in {"load", "ping", "redis"} => redis = "none"
  /\ boot \in {"build", "up", "close_redis"} => redis \in {"none", "open"}
  /\ boot \in {"close_pool", "exited"} => redis \in {"none", "closed"}

ProcessInv == RuntimeInv /\ InstallInv /\ StageInv

-----------------------------------------------------------------------------
(* The wait group.                                                         *)

\* A cycle that starts adds one to the number of busy cycles.
LEMMA StartCounts ==
  ASSUME TypeOK, NEW c \in Cycles, cycle[c] = "idle",
         cycle' = [cycle EXCEPT ![c] = "plan"], inFlight' = inFlight + 1
  PROVE  inFlight' = Cardinality(Busy') /\ inFlight' # 0
<1>1. IsFiniteSet(Busy) /\ inFlight = Cardinality(Busy) /\ c \notin Busy
  BY RuntimeAssumption, FS_Subset DEF TypeOK, Busy
<1>2. Busy' = Busy \cup {c}
  BY DEF TypeOK, Busy
<1>3. Cardinality(Busy) \in Nat /\ Cardinality(Busy \cup {c}) = Cardinality(Busy) + 1
  BY <1>1, FS_CardinalityType, FS_AddElement
<1>4. Cardinality(Busy') = Cardinality(Busy \cup {c})
  BY <1>2
<1> QED
  BY <1>1, <1>3, <1>4

\* A cycle that ends takes one away.
LEMMA EndCounts ==
  ASSUME TypeOK, NEW c \in Cycles, cycle[c] = "dispatch",
         cycle' = [cycle EXCEPT ![c] = "idle"], inFlight' = inFlight - 1
  PROVE  inFlight' = Cardinality(Busy') /\ inFlight # 0
<1>1. IsFiniteSet(Busy) /\ inFlight = Cardinality(Busy) /\ c \in Busy
  BY RuntimeAssumption, FS_Subset DEF TypeOK, Busy
<1>2. Busy' = Busy \ {c}
  BY DEF TypeOK, Busy
<1>3. Cardinality(Busy) # 0 /\ Cardinality(Busy \ {c}) = Cardinality(Busy) - 1
  BY <1>1, FS_RemoveElement, FS_EmptySet
<1>4. Cardinality(Busy') = Cardinality(Busy \ {c})
  BY <1>2
<1> QED
  BY <1>1, <1>3, <1>4

\* A cycle that goes on leaves the number as it is.
LEMMA WorkCounts ==
  ASSUME TypeOK, NEW c \in Cycles, Works(c), UNCHANGED inFlight
  PROVE  /\ inFlight' = Cardinality(Busy') /\ inFlight # 0
         /\ cycle' \in [Cycles -> {"idle", "plan", "dispatch", "call"}]
<1>1. Busy' = Busy /\ c \in Busy /\ cycle' \in [Cycles -> {"idle", "plan", "dispatch", "call"}]
  BY DEF TypeOK, Busy, Works
<1>2. IsFiniteSet(Busy) /\ inFlight = Cardinality(Busy)
  BY RuntimeAssumption, FS_Subset DEF TypeOK, Busy
<1> QED
  BY <1>1, <1>2, FS_EmptySet

\* trigger starts one cycle while the runtime accepts, and none otherwise.
LEMMA TriggerCounts ==
  ASSUME TypeOK, Trigger
  PROVE  /\ inFlight' = Cardinality(Busy')
         /\ cycle' \in [Cycles -> {"idle", "plan", "dispatch", "call"}]
         /\ ~accepting => UNCHANGED inFlight
<1>1. CASE ~accepting
  BY <1>1 DEF Trigger, TypeOK, Busy
<1>2. CASE accepting
  <2>1. PICK c \in Cycles : cycle[c] = "idle" /\ cycle' = [cycle EXCEPT ![c] = "plan"]
                            /\ inFlight' = inFlight + 1
    BY <1>2 DEF Trigger
  <2> QED
    BY <1>2, <2>1, StartCounts DEF TypeOK
<1> QED
  BY <1>1, <1>2

-----------------------------------------------------------------------------
(* The runtime.                                                            *)

\* Every step of Start, Stop, the timer and the cycles keeps the flags in line with
\* the main goroutine.
LEMMA RuntimeInvStep == RuntimeInv /\ [Next]_vars => RuntimeInv'
<1> SUFFICES ASSUME RuntimeInv, [Next]_vars PROVE RuntimeInv'
  OBVIOUS
<1> USE DEF RuntimeInv
<1>n. inFlight \in Nat
  BY RuntimeAssumption, FS_Subset, FS_CardinalityType DEF TypeOK
<1>1. CASE UNCHANGED vars
  BY <1>1 DEF TypeOK, Stopped, vars
<1>StartAccepting. CASE StartAccepting
  BY <1>StartAccepting DEF TypeOK, Stopped, StartAccepting
<1>StartWakeup. CASE StartWakeup
  <2> USE <1>StartWakeup DEF TypeOK, Stopped, StartWakeup
  <2>1. CASE main' = "announce" /\ timer' = TRUE /\ UNCHANGED accepting
    BY <2>1
  <2>2. CASE main' = "failed" /\ accepting' = FALSE /\ UNCHANGED timer
    BY <2>2
  <2> QED
    BY <2>1, <2>2
<1>Announce. CASE Announce
  BY <1>Announce DEF TypeOK, Stopped, Announce
<1>Signal. CASE Signal
  BY <1>Signal DEF TypeOK, Stopped, Signal
<1>Deadline. CASE Deadline
  BY <1>Deadline DEF TypeOK, Stopped, Deadline
<1>ServerDown. CASE ServerDown
  BY <1>ServerDown DEF TypeOK, Stopped, ServerDown
<1>StopReady. CASE StopReady
  BY <1>StopReady DEF TypeOK, Stopped, StopReady
<1>StopAccepting. CASE StopAccepting
  BY <1>StopAccepting DEF TypeOK, Stopped, StopAccepting
<1>Cancel. CASE Cancel
  BY <1>Cancel DEF TypeOK, Stopped, Cancel
<1>StopWakeup. CASE StopWakeup
  BY <1>StopWakeup DEF TypeOK, Stopped, StopWakeup
<1>StopReturns. CASE StopReturns
  BY <1>StopReturns DEF TypeOK, Stopped, StopReturns
<1>4. CASE TimerFires
  BY <1>4 DEF TypeOK, Stopped, TimerFires
<1>5. CASE FirstTrigger
  <2>1. /\ inFlight' = Cardinality(Busy')
        /\ cycle' \in [Cycles -> {"idle", "plan", "dispatch", "call"}]
    BY <1>5, TriggerCounts DEF FirstTrigger
  <2> QED
    BY <1>5, <2>1 DEF FirstTrigger, TypeOK, Stopped, Busy
<1>6. CASE Callback
  <2>1. /\ inFlight' = Cardinality(Busy')
        /\ cycle' \in [Cycles -> {"idle", "plan", "dispatch", "call"}]
        /\ ~accepting => UNCHANGED inFlight
    BY <1>6, TriggerCounts DEF Callback
  <2> QED
    BY <1>6, <2>1 DEF Callback, TypeOK, Stopped, Busy
<1>7. ASSUME NEW c \in Cycles, RunCycle(c) PROVE RuntimeInv'
  <2>1. CASE Works(c) /\ UNCHANGED inFlight
    BY <1>7, <2>1, WorkCounts DEF RunCycle, TypeOK, Stopped, Busy
  <2>2. CASE /\ cycle[c] = "dispatch"
             /\ cycle' = [cycle EXCEPT ![c] = "idle"] /\ inFlight' = inFlight - 1
    <3>1. inFlight' = Cardinality(Busy') /\ inFlight # 0
      BY <2>2, EndCounts
    <3>2. cycle' \in [Cycles -> {"idle", "plan", "dispatch", "call"}]
      BY <2>2 DEF TypeOK
    <3> QED
      BY <1>7, <2>2, <3>1, <3>2 DEF RunCycle, TypeOK, Stopped, Busy
  <2> QED
    BY <1>7, <2>1, <2>2 DEF RunCycle
<1> QED
  BY <1>1, <1>4, <1>5, <1>6, <1>7, <1>StartAccepting, <1>StartWakeup, <1>Announce, <1>Signal, <1>Deadline,
     <1>ServerDown, <1>StopReady, <1>StopAccepting, <1>Cancel, <1>StopWakeup, <1>StopReturns DEF Next, Main

-----------------------------------------------------------------------------
(* The installer.                                                          *)

\* Every statement of an installation keeps the lock with its holder.
LEMMA InstallInvStep == InstallInv /\ [InstallNext]_installVars => InstallInv'
<1> SUFFICES ASSUME InstallInv, [InstallNext]_installVars PROVE InstallInv'
  OBVIOUS
<1> USE InstallerAssumption DEF InstallInv
<1>1. CASE UNCHANGED installVars
  BY <1>1 DEF InstallTypeOK, Holding, Ended, installVars
<1>2. ASSUME NEW i \in Installers, Begin(i) \/ Rerun(i) PROVE InstallInv'
  BY <1>2 DEF InstallTypeOK, Holding, Ended, Begin, Rerun, store
<1>3. ASSUME NEW i \in Installers, Acquire(i) PROVE InstallInv'
  BY <1>3 DEF InstallTypeOK, Holding, Ended, Acquire, store
<1>4. ASSUME NEW i \in Installers, Inspect(i) PROVE InstallInv'
  BY <1>4 DEF InstallTypeOK, Holding, Ended, Inspect, Occupied, Release, store
<1>5. ASSUME NEW i \in Installers, Install(i) PROVE InstallInv'
  BY <1>5 DEF InstallTypeOK, Holding, Ended, Install, Release, store
<1>6. ASSUME NEW i \in Installers, Commit(i) PROVE InstallInv'
  BY <1>6 DEF InstallTypeOK, Holding, Ended, Commit, Release, store
<1>7. ASSUME NEW i \in Installers, Abort(i) PROVE InstallInv'
  BY <1>7 DEF InstallTypeOK, Holding, Ended, Abort, Release, store
<1> QED
  BY <1>1, <1>2, <1>3, <1>4, <1>5, <1>6, <1>7 DEF InstallNext

\* Only a commit changes the objects, and it finds none.
LEMMA ObjectsKept ==
  ASSUME InstallInv, [InstallNext]_installVars, objects # {}
  PROVE  UNCHANGED objects
<1>1. ASSUME NEW i \in Installers, Commit(i) PROVE FALSE
  BY <1>1 DEF InstallInv, Commit
<1> QED
  BY <1>1 DEF InstallNext, installVars, Begin, Acquire, Inspect, Install, Abort, Rerun, store

-----------------------------------------------------------------------------
(* The process.                                                            *)

\* A step of the process is a step of the runtime or none, and likewise for the
\* installer.
LEMMA StepOfParts == [ProcessNext]_allVars => [Next]_vars /\ [InstallNext]_installVars
BY DEF ProcessNext, allVars, vars, installVars, procVars, RunStep, RuntimeMain, RuntimeCycle,
       RuntimeCallback, RuntimeDeadline, Next

\* A runtime that has started stays started, and the readiness probe begins on
\* started runtimes only.
LEMMA StartedStays == [Next]_vars /\ main # "new" => main' # "new"
BY DEF Next, vars, Main, StartAccepting, StartWakeup, Announce, FirstTrigger, Signal, Deadline,
       ServerDown, StopReady, StopAccepting, Cancel, StopWakeup, StopReturns, TimerFires,
       Callback, RunCycle

\* A transaction's steps move nothing but the connection of one client.
LEMMA ConnectionsMove ==
  ASSUME conn \in [Cycles \cup Handlers -> {"none", "wait", "tx", "rollback"}], Connections
  PROVE  /\ UNCHANGED <<boot, pool, redis, probe>>
         /\ conn' \in [Cycles \cup Handlers -> {"none", "wait", "tx", "rollback"}]
<1>1. PICK x \in Cycles \cup Handlers, from, to \in {"none", "wait", "tx", "rollback"} : Moves(x, from, to)
  BY DEF Connections, RequestBegins, RequestRefused, RequestTx, CycleTx, TxEnds, RolledBack
<1> QED
  BY <1>1 DEF Moves

\* run opens and closes its resources in the order of its stages.
LEMMA StageInvStep == ProcessInv /\ [ProcessNext]_allVars => StageInv'
<1> SUFFICES ASSUME ProcessInv, [ProcessNext]_allVars PROVE StageInv'
  OBVIOUS
<1>p. [Next]_vars /\ [InstallNext]_installVars
  BY StepOfParts
<1>o. Required \subseteq objects => UNCHANGED objects
  BY <1>p, ObjectsKept, InstallerAssumption DEF ProcessInv
<1>s. main # "new" => main' # "new"
  BY <1>p, StartedStays
<1> USE DEF ProcessInv, StageInv, Resource
<1>1. CASE UNCHANGED allVars
  BY <1>1 DEF allVars
<1>2. CASE RunStep
  <2> USE <1>2 DEF RunStep, vars, installVars
  <2>1. CASE Load \/ Ping \/ OpenRedis
    BY <2>1 DEF Load, Ping, OpenRedis, NamespaceReady
  <2>2. CASE Build \/ Return \/ CloseRedis
    BY <2>2 DEF Build, Return, CloseRedis, Stopped
  <2>3. CASE ClosePool \/ Exit
    BY <2>3 DEF ClosePool, Exit
  <2> QED
    BY <2>1, <2>2, <2>3 DEF Run
<1>3. CASE (Restart \/ ProbeBegin \/ ProbeAcquire \/ ProbePing \/ Connections) /\ UNCHANGED <<vars, installVars>>
  <2> USE <1>3 DEF vars, installVars
  <2>1. CASE Restart \/ ProbeBegin \/ ProbeAcquire \/ ProbePing
    BY <2>1 DEF Restart, ProbeBegin, ProbeAcquire, ProbePing, Serving
  <2>2. CASE Connections
    BY <2>2, ConnectionsMove
  <2> QED
    BY <2>1, <2>2
<1>4. CASE \/ RuntimeMain \/ RuntimeCallback \/ RuntimeDeadline
           \/ Alive /\ (Signal \/ TimerFires) /\ UNCHANGED <<installVars, procVars>>
           \/ \E c \in Cycles : RuntimeCycle(c)
  <2>1. UNCHANGED <<installVars, procVars>> /\ boot # "exited"
    BY <1>4 DEF RuntimeMain, RuntimeCallback, RuntimeDeadline, RuntimeCycle, Alive
  <2>2. boot # "up" => UNCHANGED main
    BY <1>4 DEF RuntimeMain, RuntimeCallback, RuntimeDeadline, RuntimeCycle, Callback, Deadline,
                Signal, TimerFires, RunCycle, Stopped
  <2>3. UNCHANGED <<objects, boot, pool, redis, probe, conn>>
    BY <2>1 DEF installVars, procVars
  <2>4. main # "new" => Required \subseteq objects
    OBVIOUS
  <2>5. main = "new" /\ main' # "new" => boot = "up"
    BY <2>2
  <2> QED
    BY <2>1, <2>2, <2>3, <2>4, <2>5, <1>s
<1>5. CASE boot # "up" /\ main = "new" /\ InstallNext /\ UNCHANGED <<vars, procVars>>
  BY <1>5, <1>o DEF vars, procVars
<1> QED
  BY <1>1, <1>2, <1>3, <1>4, <1>5 DEF ProcessNext

\* ProcessInv is an invariant of the process.
LEMMA ProcessInvariant == ProcessSpec => []ProcessInv
<1>1. ProcessInit => ProcessInv
  <2> SUFFICES ASSUME ProcessInit PROVE ProcessInv
    OBVIOUS
  <2>1. Busy = {}
    BY DEF ProcessInit, Init, Busy
  <2>2. Cardinality(Busy) = 0
    BY <2>1, FS_EmptySet
  <2>3. RuntimeInv
    BY <2>2 DEF ProcessInit, Init, RuntimeInv, TypeOK, Busy
  <2>4. InstallInv
    BY InstallerAssumption DEF ProcessInit, InstallInit, InstallInv, InstallTypeOK, Holding
  <2>5. StageInv
    BY DEF ProcessInit, Init, StageInv, Resource
  <2> QED
    BY <2>3, <2>4, <2>5 DEF ProcessInv
<1>2. ProcessInv /\ [ProcessNext]_allVars => ProcessInv'
  <2> SUFFICES ASSUME ProcessInv, [ProcessNext]_allVars PROVE ProcessInv'
    OBVIOUS
  <2>1. RuntimeInv'
    BY StepOfParts, RuntimeInvStep DEF ProcessInv
  <2>2. InstallInv'
    BY StepOfParts, InstallInvStep DEF ProcessInv
  <2>3. StageInv'
    BY StageInvStep
  <2> QED
    BY <2>1, <2>2, <2>3 DEF ProcessInv
<1> QED
  BY <1>1, <1>2, PTL DEF ProcessSpec

-----------------------------------------------------------------------------
(* What follows.                                                           *)

\* The variables keep their types, and the wait group counts exactly the cycles
\* that run, whatever triggers and callbacks race with Start and Stop.
THEOREM ProcessTypeCorrect == ProcessSpec => []ProcessTypeOK
<1>1. ProcessInv => ProcessTypeOK
  BY DEF ProcessInv, RuntimeInv, InstallInv, StageInv, ProcessTypeOK
<1> QED
  BY <1>1, ProcessInvariant, PTL

\* A Stop that reports success leaves no cycle behind (Runtime.Stop).
THEOREM StopIsQuiet == ProcessSpec => []DrainedIsQuiet
<1>1. ProcessInv => DrainedIsQuiet
  BY DEF ProcessInv, RuntimeInv, DrainedIsQuiet
<1> QED
  BY <1>1, ProcessInvariant, PTL

\* Runtime.Ready is true only while wakeups start cycles.
THEOREM ReadyIsHonest == ProcessSpec => []ReadyMeansWorking
<1>1. ProcessInv => ReadyMeansWorking
  BY DEF ProcessInv, RuntimeInv, ReadyMeansWorking
<1> QED
  BY <1>1, ProcessInvariant, PTL

\* trigger never adds to the wait group that Stop waits on.
THEOREM WaitGroupKept == ProcessSpec => NoAddDuringWait
<1>1. ProcessInv /\ [ProcessNext]_allVars => [main = "wait" => inFlight' <= inFlight]_vars
  <2> SUFFICES ASSUME ProcessInv, [Next]_vars, main = "wait" PROVE inFlight' <= inFlight
    BY StepOfParts
  <2>1. inFlight \in Nat /\ ~accepting
    BY RuntimeAssumption, FS_Subset, FS_CardinalityType DEF ProcessInv, RuntimeInv, TypeOK
  <2>2. inFlight' \in {inFlight, inFlight - 1}
    BY <2>1 DEF Next, vars, Main, StartAccepting, StartWakeup, Announce, FirstTrigger, Signal,
                Deadline, ServerDown, StopReady, StopAccepting, Cancel, StopWakeup, StopReturns,
                TimerFires, Callback, Trigger, RunCycle
  <2> QED
    BY <2>1, <2>2
<1> QED
  BY <1>1, ProcessInvariant, PTL DEF ProcessSpec, NoAddDuringWait

\* ApplySchemaToEmptyDatabase never adds to a namespace that holds anything.
THEOREM UsedIsUntouched == ProcessSpec => OnlyIntoEmpty
<1>1. ProcessInv /\ [ProcessNext]_allVars => [objects # {} => UNCHANGED objects]_installVars
  BY StepOfParts, ObjectsKept DEF ProcessInv
<1> QED
  BY <1>1, ProcessInvariant, PTL DEF ProcessSpec, OnlyIntoEmpty

\* An installer that waited for the lock is refused before it runs the script.
THEOREM WaitersAreRefused == ProcessSpec => []WaiterRefuses
<1>1. ProcessInv => WaiterRefuses
  BY DEF ProcessInv, InstallInv, WaiterRefuses
<1> QED
  BY <1>1, ProcessInvariant, PTL

\* run accepts work and /readyz answers 200 only over an installed namespace.
THEOREM InstalledBeforeServing == ProcessSpec => []ServesOnlyInstalled
<1>1. ProcessInv => ServesOnlyInstalled
  BY DEF ProcessInv, RuntimeInv, StageInv, ServesOnlyInstalled
<1> QED
  BY <1>1, ProcessInvariant, PTL

\* Every return of run closes the pool and the Redis client it opened.
THEOREM ExitIsClean == ProcessSpec => []ExitReleases
<1>1. ProcessInv => ExitReleases
  BY DEF ProcessInv, StageInv, ExitReleases
<1> QED
  BY <1>1, ProcessInvariant, PTL

=============================================================================
