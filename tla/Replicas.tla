-------------------------------- MODULE Replicas --------------------------------
(***************************************************************************)
(* The server processes of a deployment, each going through main: the      *)
(* schema is applied under an advisory lock before the server listens, and *)
(* a signal stops it, with a panic if calls are in flight. A process may   *)
(* also die at any moment; its database sessions, and what they hold, go   *)
(* with it.                                                                *)
(***************************************************************************)
EXTENDS Naturals, FiniteSets

CONSTANTS
    Replica,        \* the server processes
    Nobody,
    MaxStarts,      \* bound: times a process is started
    MaxEnds         \* bound: times a process dies or is signalled

ASSUME ReplicaConstants ==
    /\ Nobody \notin Replica
    /\ MaxStarts \in Nat /\ MaxEnds \in Nat

VARIABLES
    phase,      \* how far each process is in main
    holder,     \* the process one of whose sessions holds the schema's lock
    tables,     \* the schema is there
    handlers,   \* the calls each server runs a handler for
    starts,     \* times a process was started
    ends        \* times a process died or was signalled

replicaVars == <<phase, holder, tables, handlers, starts, ends>>

Phases == {"down", "locking", "creating", "created", "serving",
           "draining", "flushing", "panicked", "failed"}

\* grpcServer takes what comes, ServeHTTP asking nothing of a shutdown that has begun.
\* What reaches a process once it has panicked is as good as refused: its pool is closed.
Taking(r) == phase[r] \in {"serving", "draining"}

ReplicasInit ==
    /\ phase = [r \in Replica |-> "down"]
    /\ holder = Nobody
    /\ tables = FALSE
    /\ handlers = [r \in Replica |-> {}]
    /\ starts = 0
    /\ ends = 0

Goes(r, from, to) == phase[r] = from /\ phase' = [phase EXCEPT ![r] = to]

\* The pool is opened and answers a ping; ApplySchema takes one connection of it.
Start(r) ==
    /\ starts < MaxStarts
    /\ Goes(r, "down", "locking")
    /\ starts' = starts + 1
    /\ UNCHANGED <<holder, tables, handlers, ends>>

\* CREATE TABLE IF NOT EXISTS looks, and then creates: no lock of its own makes the
\* two one step.
Looked == IF tables THEN "created" ELSE "creating"

\* Slip: the schema is applied without the lock.
TakeLockUnasked(r) ==
    /\ Goes(r, "locking", Looked)
    /\ holder' = r
    /\ UNCHANGED <<tables, handlers, starts, ends>>

\* pg_advisory_lock waits, without a time limit; then the schema is looked for.
TakeLock(r) ==
    /\ holder = Nobody
    /\ Goes(r, "locking", Looked)
    /\ holder' = r
    /\ UNCHANGED <<tables, handlers, starts, ends>>

\* Tables that have appeared since are a duplicate catalogue row, and the end of main.
Create(r) ==
    /\ Goes(r, "creating", IF tables THEN "failed" ELSE "created")
    /\ tables' = TRUE
    /\ UNCHANGED <<holder, handlers, starts, ends>>

\* Slip: unlocked on another of the pool's connections, which releases nothing.
UnlockElsewhere(r) ==
    /\ Goes(r, "created", "serving")
    /\ UNCHANGED <<holder, tables, handlers, starts, ends>>

\* Unlocked on the connection that took it; the rest of main assembles the servers
\* and listens.
Unlock(r) ==
    /\ Goes(r, "created", "serving")
    /\ holder' = IF holder = r THEN Nobody ELSE holder
    /\ UNCHANGED <<tables, handlers, starts, ends>>

\* A signal ends main's wait; it is caught from the moment main waits for it.
Signal(r) ==
    /\ ends < MaxEnds
    /\ Goes(r, "serving", "draining")
    /\ ends' = ends + 1
    /\ UNCHANGED <<holder, tables, handlers, starts>>

\* GracefulStop drains every transport. A call that came through ServeHTTP has one of its
\* own, which has no Drain but a panic; with no call in flight there is none to drain, and
\* GracefulStop returns. It waits for nobody.
StopServing(r) ==
    /\ Goes(r, "draining", IF handlers[r] = {} THEN "flushing" ELSE "panicked")
    /\ UNCHANGED <<holder, tables, handlers, starts, ends>>

\* httpServer.Shutdown ends when the connections are idle, or when the five seconds
\* are over that began before GracefulStop; then the pool is closed.
Exit(r) ==
    /\ Goes(r, "flushing", "down")
    /\ holder' = IF holder = r THEN Nobody ELSE holder
    /\ UNCHANGED <<tables, handlers, starts, ends>>

\* A process may end at any line, and one that panicked does: the defers take a moment in
\* which its handlers go on, and then they are gone as well.
Die(r) ==
    /\ ends < MaxEnds \/ phase[r] = "panicked"
    /\ phase[r] \notin {"down", "failed"}
    /\ phase' = [phase EXCEPT ![r] = "down"]
    /\ holder' = IF holder = r THEN Nobody ELSE holder
    /\ handlers' = [handlers EXCEPT ![r] = {}]
    /\ ends' = IF phase[r] = "panicked" THEN ends ELSE ends + 1
    /\ UNCHANGED <<tables, starts>>

\* The steps of main, which every process takes until it serves and after a signal.
Main(r) ==
    TakeLock(r) \/ Create(r) \/ Unlock(r) \/ StopServing(r) \/ Exit(r)

----------------------------------------------------------------------------
\* Processes started together never create the same tables, whoever of them dies on
\* the way and whatever it held.
SchemaNeverCollides == \A r \in Replica : phase[r] # "failed"

\* A started process comes to serve, unless it dies.
EveryReplicaServes ==
    \A r \in Replica : phase[r] = "locking" ~> phase[r] \in {"serving", "down"}
================================================================================
