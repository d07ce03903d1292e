----------------------------- MODULE Installer ------------------------------
(***************************************************************************)
(* Installing the schema.  Any number of db-apply-schema commands run      *)
(* against one owner namespace, each in one READ COMMITTED transaction     *)
(* that takes the namespace's advisory lock before it looks for objects;   *)
(* and the readiness check counts the four tables.  PostgreSQL itself      *)
(* (locks, transactional DDL) is external.                                 *)
(***************************************************************************)
EXTENDS FiniteSets

CONSTANTS
  Installers,   \* the installation commands
  Required,     \* the tables of database/schema.sql
  Foreign,      \* objects of somebody else's
  Nobody        \* the lock is free

ASSUME InstallerAssumption ==
  /\ Required # {} /\ Required \cap Foreign = {}
  /\ Nobody \notin Installers

VARIABLES
  namespace,    \* the owner namespace exists
  objects,      \* committed objects in it
  lock,         \* holder of the transaction-level advisory lock
  inst          \* where each installation is

store == <<namespace, objects>>
installVars == <<namespace, objects, lock, inst>>

Ended == {"installed", "refused", "clash", "failed"}
Holding == {"inspect", "ddl", "commit"}

\* Every variable has its type.
InstallTypeOK ==
  /\ namespace \in BOOLEAN /\ objects \subseteq Required \cup Foreign
  /\ lock \in Installers \cup {Nobody}
  /\ inst \in [Installers -> {"idle", "lock"} \cup Holding \cup Ended]

\* Nothing, an empty namespace, or one that somebody has already used.
InstallInit ==
  /\ \/ namespace = FALSE /\ objects = {}
     \/ namespace = TRUE /\ objects \in SUBSET (Required \cup Foreign)
  /\ lock = Nobody /\ inst = [i \in Installers |-> "idle"]

-----------------------------------------------------------------------------
(* ApplySchemaToEmptyDatabase.                                             *)

\* The deferred rollback, or the end of the connection, frees the lock.
Release(i) == lock' = IF lock = i THEN Nobody ELSE lock

Begin(i) ==
  /\ inst[i] = "idle"
  /\ inst' = [inst EXCEPT ![i] = "lock"]
  /\ UNCHANGED <<store, lock>>

\* Mutation: the lock identity differs between the commands.
AcquireOwn(i) ==
  /\ inst[i] = "lock" /\ lock' = i
  /\ inst' = [inst EXCEPT ![i] = "inspect"]
  /\ UNCHANGED store

\* pg_advisory_xact_lock blocks until the holder's transaction ends.
Acquire(i) ==
  /\ inst[i] = "lock" /\ lock = Nobody /\ lock' = i
  /\ inst' = [inst EXCEPT ![i] = "inspect"]
  /\ UNCHANGED store

\* Mutation: only the scheduler's own tables count as objects.
OccupiedByTables == objects \cap Required # {}

\* Anything that depends on the namespace occupies it.
Occupied == objects # {}

\* The check is a statement of its own: READ COMMITTED shows it what was
\* committed while this transaction waited for the lock.
Inspect(i) ==
  /\ inst[i] = "inspect"
  /\ \/ /\ Occupied /\ inst' = [inst EXCEPT ![i] = "refused"] /\ Release(i)
     \/ /\ ~Occupied /\ inst' = [inst EXCEPT ![i] = "ddl"] /\ UNCHANGED lock
  /\ UNCHANGED store

\* CREATE SCHEMA, the session settings, schema.sql and checkNamespaceReady run
\* inside the transaction and nobody sees them yet.  A name that is already
\* taken fails the script; one that is being taken makes it wait.
Install(i) ==
  /\ inst[i] = "ddl"
  /\ \A j \in Installers \ {i} : inst[j] # "commit"
  /\ \/ /\ objects \cap Required # {}
        /\ inst' = [inst EXCEPT ![i] = "clash"] /\ Release(i)
     \/ /\ objects \cap Required = {}
        /\ inst' = [inst EXCEPT ![i] = "commit"] /\ UNCHANGED lock
  /\ UNCHANGED store

\* The answer to a commit that took effect may be lost.
Commit(i) ==
  /\ inst[i] = "commit"
  /\ namespace' = TRUE /\ objects' = objects \cup Required
  /\ \E end \in {"installed", "failed"} : inst' = [inst EXCEPT ![i] = end]
  /\ Release(i)

\* A statement fails, the thirty seconds pass or the command dies: every path
\* but the commit rolls back.
Abort(i) ==
  /\ inst[i] \in {"lock"} \cup Holding
  /\ inst' = [inst EXCEPT ![i] = "failed"]
  /\ Release(i)
  /\ UNCHANGED store

\* An operator runs the command again.
Rerun(i) ==
  /\ inst[i] \in Ended
  /\ inst' = [inst EXCEPT ![i] = "idle"]
  /\ UNCHANGED <<store, lock>>

InstallNext ==
  \E i \in Installers : \/ Begin(i) \/ Acquire(i) \/ Inspect(i) \/ Install(i)
                        \/ Commit(i) \/ Abort(i) \/ Rerun(i)

InstallSpec == InstallInit /\ [][InstallNext]_installVars

-----------------------------------------------------------------------------
(* checkNamespaceReady.                                                    *)

\* Mutation: the namespace is enough.
NamespaceExists == namespace

\* The namespace exists with all four tables in it.
NamespaceReady == namespace /\ Required \subseteq objects

-----------------------------------------------------------------------------
(* Correctness.                                                            *)

\* The installer never adds to a namespace that holds anything, whoever put it
\* there and whichever installation was waiting: what is in a used namespace
\* stays exactly as it is.
OnlyIntoEmpty == [][objects # {} => UNCHANGED objects]_installVars

\* A command that waited behind a successful one is refused for the occupied
\* namespace; it never gets as far as running schema.sql over its tables.
WaiterRefuses == \A i \in Installers : inst[i] # "clash"
=============================================================================
