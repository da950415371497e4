------------------------------- MODULE Startup -------------------------------
(***************************************************************************)
(* Start, readiness and end of the processes that share the SQLite file:    *)
(* run, runScraper and runServer (cmd/trivy-viewer), storage.Open and       *)
(* migrate (internal/storage), the health server (internal/health).  Server *)
(* and scraper start independently, so on a fresh volume their migrations   *)
(* race.                                                                    *)
(***************************************************************************)
EXTENDS Naturals

CONSTANTS
    Processes,    \* the pods: scraper and server replicas
    LastVersion,  \* the version of the last entry of migrations
    MaxFaults,    \* bound: crashes, SIGTERMs, lock timeouts and failing calls
    NoWriter      \* nobody holds SQLite's write lock

ASSUME StartupAssumption ==
    /\ LastVersion \in Nat \ {0}
    /\ MaxFaults \in Nat
    /\ NoWriter \notin Processes

VARIABLES
    pc,        \* how far each process is; "down" if there is none
    upto,      \* the last version each process has read or applied
    ready,     \* health.Server.ready
    health,    \* the goroutine of health.Serve has not returned
    done,      \* the context of run is done
    meta,      \* the table schema_migrations exists
    tables,    \* the last version whose SQL is committed
    recorded,  \* MAX(version) of schema_migrations
    writer,    \* the process that holds the write lock
    faults     \* the faults so far

file == <<meta, tables, recorded, writer>>
vars == <<pc, upto, ready, health, done, file, faults>>

-----------------------------------------------------------------------------

\* The places in storage.Open where a statement runs.
Opening == {"open", "create", "read", "next", "apply", "record", "commit"}

Goto(p, place) == pc' = [pc EXCEPT ![p] = place]

\* The rollback of a transaction releases the lock.
Released(p) == IF writer = p THEN NoWriter ELSE writer

Fault == faults < MaxFaults /\ faults' = faults + 1

Init ==
    /\ pc = [p \in Processes |-> "down"]
    /\ upto = [p \in Processes |-> 0]
    /\ ready = [p \in Processes |-> FALSE]
    /\ health = [p \in Processes |-> FALSE]
    /\ done = [p \in Processes |-> FALSE]
    /\ meta = FALSE /\ tables = 0 /\ recorded = 0
    /\ writer = NoWriter
    /\ faults = 0

-----------------------------------------------------------------------------

\* run, up to the mode's function: the health server gets its goroutine, which
\* returns at once if the port is taken.
Start(p) ==
    /\ pc[p] = "down"
    /\ Goto(p, "open")
    /\ \E bound \in BOOLEAN : health' = [health EXCEPT ![p] = bound]
    /\ ready' = [ready EXCEPT ![p] = FALSE]
    /\ done' = [done EXCEPT ![p] = FALSE]
    /\ UNCHANGED <<upto, file, faults>>

\* storage.Open: open and ping.
Connect(p) ==
    /\ pc[p] = "open"
    /\ Goto(p, "create")
    /\ UNCHANGED <<upto, ready, health, done, file, faults>>

\* CREATE TABLE IF NOT EXISTS schema_migrations writes only if it is missing.
CreateMeta(p) ==
    /\ pc[p] = "create"
    /\ meta \/ writer = NoWriter
    /\ meta' = TRUE
    /\ Goto(p, "read")
    /\ UNCHANGED <<upto, ready, health, done, tables, recorded, writer, faults>>

\* Mutant: the version is taken to be zero, whatever the table says.
ReadNothing(p) ==
    /\ pc[p] = "read"
    /\ upto' = [upto EXCEPT ![p] = 0]
    /\ Goto(p, "next")
    /\ UNCHANGED <<ready, health, done, file, faults>>

\* SELECT MAX(version), outside any transaction.
ReadVersion(p) ==
    /\ pc[p] = "read"
    /\ upto' = [upto EXCEPT ![p] = recorded]
    /\ Goto(p, "next")
    /\ UNCHANGED <<ready, health, done, file, faults>>

\* Mutant: the last migration is taken for done.
NextStopsShort(p) ==
    /\ pc[p] = "next"
    /\ IF upto[p] + 1 < LastVersion
       THEN Goto(p, "apply") /\ UNCHANGED ready
       ELSE Goto(p, "serve") /\ ready' = [ready EXCEPT ![p] = TRUE]
    /\ UNCHANGED <<upto, health, done, file, faults>>

\* Mutant: the loop runs one migration too many.
NextRunsOver(p) ==
    /\ pc[p] = "next"
    /\ IF upto[p] <= LastVersion
       THEN Goto(p, "apply") /\ UNCHANGED ready
       ELSE Goto(p, "serve") /\ ready' = [ready EXCEPT ![p] = TRUE]
    /\ UNCHANGED <<upto, health, done, file, faults>>

\* The loop of migrate: begin the next pending migration, or return; then Open
\* returns and the mode's Run calls onReady.
NextMigration(p) ==
    /\ pc[p] = "next"
    /\ IF upto[p] < LastVersion
       THEN Goto(p, "apply") /\ UNCHANGED ready
       ELSE Goto(p, "serve") /\ ready' = [ready EXCEPT ![p] = TRUE]
    /\ UNCHANGED <<upto, health, done, file, faults>>

\* Mutant: the migration's SQL runs outside the transaction.
ApplyOutsideTx(p) ==
    /\ pc[p] = "apply"
    /\ writer = NoWriter
    /\ tables' = upto[p] + 1
    /\ Goto(p, "record")
    /\ UNCHANGED <<upto, ready, health, done, meta, recorded, writer, faults>>

\* The migration's SQL, in the transaction.  It writes, and so takes the lock,
\* unless another process has committed the same tables since the version was
\* read (IF NOT EXISTS).
Apply(p) ==
    /\ pc[p] = "apply"
    /\ IF upto[p] < tables
       THEN UNCHANGED writer
       ELSE writer = NoWriter /\ writer' = p
    /\ Goto(p, "record")
    /\ UNCHANGED <<upto, ready, health, done, meta, tables, recorded, faults>>

\* INSERT INTO schema_migrations: the primary key refuses a version that
\* another process has recorded meanwhile; the transaction rolls back and Open
\* fails.
Record(p) ==
    /\ pc[p] = "record"
    /\ writer \in {NoWriter, p}
    /\ IF upto[p] < recorded
       THEN Goto(p, "leave") /\ writer' = NoWriter
       ELSE Goto(p, "commit") /\ writer' = p
    /\ UNCHANGED <<upto, ready, health, done, meta, tables, recorded, faults>>

Commit(p) ==
    /\ pc[p] = "commit"
    /\ tables' = upto[p] + 1
    /\ recorded' = upto[p] + 1
    /\ upto' = [upto EXCEPT ![p] = upto[p] + 1]
    /\ writer' = NoWriter
    /\ Goto(p, "next")
    /\ UNCHANGED <<ready, health, done, meta, faults>>

\* A statement gives up on the lock after busy_timeout, or a call fails.
StatementFails(p) ==
    /\ pc[p] \in Opening
    /\ Fault
    /\ Goto(p, "leave")
    /\ writer' = Released(p)
    /\ UNCHANGED <<upto, ready, health, done, meta, tables, recorded>>

\* A statement fails on the cancelled context.
OpeningCancelled(p) ==
    /\ pc[p] \in Opening
    /\ done[p]
    /\ Goto(p, "leave")
    /\ writer' = Released(p)
    /\ UNCHANGED <<upto, ready, health, done, meta, tables, recorded, faults>>

\* scraper.Run or api.Server.Run returns because the context is done.
RunReturns(p) ==
    /\ pc[p] = "serve"
    /\ done[p]
    /\ Goto(p, "leave")
    /\ UNCHANGED <<upto, ready, health, done, file, faults>>

\* It returns an error: no listener, no access to Kubernetes.
RunFails(p) ==
    /\ pc[p] = "serve"
    /\ Fault
    /\ Goto(p, "leave")
    /\ UNCHANGED <<upto, ready, health, done, file>>

\* Mutant: run waits for the health server before it calls stop.
StopForgotten(p) == FALSE

\* run calls stop, so the health server sees the context done ...
Stop(p) ==
    /\ pc[p] = "leave" /\ ~done[p]
    /\ done' = [done EXCEPT ![p] = TRUE]
    /\ UNCHANGED <<pc, upto, ready, health, file, faults>>

\* ... and shuts down ...
HealthStops(p) ==
    /\ health[p] /\ done[p]
    /\ health' = [health EXCEPT ![p] = FALSE]
    /\ UNCHANGED <<pc, upto, ready, done, file, faults>>

\* ... which run waits for before the process exits.
Exit(p) ==
    /\ pc[p] = "leave" /\ ~health[p]
    /\ Goto(p, "down")
    /\ UNCHANGED <<upto, ready, health, done, file, faults>>

(***************************************************************************)
(* The pod's surroundings (external).                                       *)
(***************************************************************************)

Sigterm(p) ==
    /\ pc[p] # "down" /\ ~done[p]
    /\ Fault
    /\ done' = [done EXCEPT ![p] = TRUE]
    /\ UNCHANGED <<pc, upto, ready, health, file>>

\* The process is killed; SQLite rolls its transaction back.
Crash(p) ==
    /\ pc[p] # "down"
    /\ Fault
    /\ Goto(p, "down")
    /\ writer' = Released(p)
    /\ health' = [health EXCEPT ![p] = FALSE]
    /\ UNCHANGED <<upto, ready, done, meta, tables, recorded>>

-----------------------------------------------------------------------------

\* What a process does by itself.
Advance(p) ==
    \/ Start(p) \/ Connect(p) \/ CreateMeta(p) \/ ReadVersion(p) \/ NextMigration(p)
    \/ Apply(p) \/ Record(p) \/ Commit(p)
    \/ OpeningCancelled(p) \/ RunReturns(p) \/ Stop(p) \/ HealthStops(p) \/ Exit(p)

Next ==
    \E p \in Processes :
        \/ Advance(p)
        \/ StatementFails(p) \/ RunFails(p)
        \/ Sigterm(p) \/ Crash(p)

Spec == Init /\ [][Next]_vars

(***************************************************************************)
(* Processes run and the kubelet restarts them.  A waiting statement gets   *)
(* the lock at some point (SF): the busy handler keeps polling for it.      *)
(***************************************************************************)
Fairness ==
    \A p \in Processes :
        /\ WF_vars(Advance(p)) /\ WF_vars(HealthStops(p)) /\ WF_vars(Stop(p))
        /\ SF_vars(CreateMeta(p)) /\ SF_vars(Apply(p)) /\ SF_vars(Record(p))

FairSpec == Spec /\ Fairness

-----------------------------------------------------------------------------

Places == Opening \cup {"down", "serve", "leave"}

\* Every variable has its type, and no migration beyond the last is recorded.
TypeOK ==
    /\ pc \in [Processes -> Places]
    /\ upto \in [Processes -> 0..LastVersion]
    /\ ready \in [Processes -> BOOLEAN]
    /\ health \in [Processes -> BOOLEAN]
    /\ done \in [Processes -> BOOLEAN]
    /\ meta \in BOOLEAN
    /\ tables \in 0..LastVersion /\ recorded \in 0..LastVersion
    /\ writer \in Processes \cup {NoWriter}
    /\ faults \in 0..MaxFaults

\* A migration is applied and recorded together or not at all, whatever
\* process crashes where and whoever else migrates at the same time.
SchemaWhole == tables = recorded /\ (recorded > 0 => meta)

\* A process that reports ready works on a fully migrated file, also one that
\* raced with another on a fresh volume.
ReadyIsMigrated ==
    \A p \in Processes : ready[p] => recorded = LastVersion /\ tables = LastVersion

\* The inductive invariant behind both: what a process has read is recorded,
\* and a transaction about to commit holds the lock and the next version.
MigrationInv ==
    /\ SchemaWhole
    /\ \A p \in Processes :
          /\ upto[p] <= recorded
          /\ pc[p] \in {"read", "next", "apply", "record", "commit", "serve"} => meta
          /\ pc[p] \in {"apply", "record", "commit"} => upto[p] < LastVersion
          /\ pc[p] = "commit" => writer = p /\ upto[p] = recorded
          /\ ready[p] => recorded = LastVersion

\* What the file and the processes that serve from it look like from outside.
Volume == INSTANCE MigratedFile WITH
    version <- recorded, serving <- {p \in Processes : ready[p]}

\* Racing, crashing and restarting processes together run each migration once,
\* in order, and serve after the last (migrate, Open, onReady).
MigratesInOrder == Volume!Spec

\* What a transaction holds the lock for is the next migration, and nothing in
\* its way: it is at one of the two statements after its first write, and its
\* record is not refused (migrate).
LockInv ==
    \A p \in Processes : writer = p =>
        pc[p] \in {"record", "commit"} /\ upto[p] = recorded

\* The race costs at most a restart: once the faults stop, every process
\* serves and stays so.
StartupConverges ==
    \A p \in Processes : <>[](pc[p] = "serve")

\* run never hangs on its way out: it calls stop before it waits for the
\* health server, also when Open or Run failed without a signal.
ProcessLeaves ==
    \A p \in Processes : (pc[p] = "leave") ~> (pc[p] = "down")

=============================================================================
