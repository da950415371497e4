---------------------------- MODULE StartupProofs ----------------------------
(***************************************************************************)
(* Proofs about Startup for any number of processes, migrations and faults. *)
(***************************************************************************)
EXTENDS Startup, TLAPS

\* The invariant that every step preserves.
IInv == TypeOK /\ MigrationInv

\* The invariant holds on an empty volume.
LEMMA InitIInv == Init => IInv
  <1> SUFFICES ASSUME Init PROVE IInv
    OBVIOUS
  <1>1. TypeOK
    <2>1. /\ pc \in [Processes -> Places] /\ upto \in [Processes -> 0..LastVersion]
          /\ ready \in [Processes -> BOOLEAN] /\ health \in [Processes -> BOOLEAN]
          /\ done \in [Processes -> BOOLEAN]
      BY StartupAssumption DEF Init, Places
    <2>2. /\ tables \in 0..LastVersion /\ recorded \in 0..LastVersion
          /\ writer \in Processes \cup {NoWriter} /\ faults \in 0..MaxFaults
      BY StartupAssumption DEF Init
    <2>3. meta \in BOOLEAN
      BY Zenon DEF Init
    <2>4. QED BY <2>1, <2>2, <2>3 DEF TypeOK
  <1>2. \A p \in Processes : pc[p] = "down" /\ upto[p] = 0 /\ ready[p] = FALSE
    BY DEF Init
  <1>3. MigrationInv
    BY <1>2 DEF Init, MigrationInv, SchemaWhole
  <1>4. QED BY <1>1, <1>3 DEF IInv

\* The bound on the faults holds through every step.
LEMMA FaultsBounded ==
  ASSUME TypeOK, faults' = faults \/ Fault
  PROVE  faults' \in 0..MaxFaults
  BY StartupAssumption DEF TypeOK, Fault

-----------------------------------------------------------------------------
(* One lemma per kind of step.                                              *)

\* Steps that leave the file and what the process has read of it alone, and
\* lead to no place that claims more than the one they leave.
LEMMA QuietIInv ==
  ASSUME IInv, NEW p \in Processes,
         Connect(p) \/ RunReturns(p) \/ RunFails(p) \/ Stop(p)
            \/ HealthStops(p) \/ Exit(p) \/ Sigterm(p)
  PROVE  IInv'
  <1>1. UNCHANGED <<upto, ready, meta, tables, recorded, writer>>
    BY DEF file, Connect, RunReturns, RunFails, Stop, HealthStops, Exit, Sigterm
  <1>2. /\ health' \in [Processes -> BOOLEAN]
        /\ done' \in [Processes -> BOOLEAN]
    BY DEF IInv, TypeOK, Connect, RunReturns, RunFails, Stop, HealthStops, Exit, Sigterm
  <1>3. faults' \in 0..MaxFaults
    BY FaultsBounded DEF IInv, Connect, RunReturns, RunFails, Stop, HealthStops, Exit, Sigterm
  <1>4. \/ pc' = pc
        \/ \E place \in {"create", "leave", "down"} : pc' = [pc EXCEPT ![p] = place]
    BY DEF Goto, Connect, RunReturns, RunFails, Stop, HealthStops, Exit, Sigterm
  <1>5. pc' \in [Processes -> Places]
    BY <1>4 DEF IInv, TypeOK, Places, Opening
  <1>6. TypeOK'
    BY <1>1, <1>2, <1>3, <1>5 DEF IInv, TypeOK
  <1>7. \A q \in Processes : pc'[q] = pc[q] \/ pc'[q] \in {"create", "leave", "down"}
    BY <1>4 DEF IInv, TypeOK
  <1>8. MigrationInv'
    BY <1>1, <1>7 DEF IInv, MigrationInv, SchemaWhole
  <1>9. QED BY <1>6, <1>8 DEF IInv

\* A new process claims nothing until it has read the file itself.
LEMMA StartIInv ==
  ASSUME IInv, NEW p \in Processes, Start(p)
  PROVE  IInv'
  BY StartupAssumption
  DEF IInv, TypeOK, MigrationInv, SchemaWhole, Places, Opening, file, Goto, Start

\* Steps that end a transaction without committing it.
LEMMA RollbackIInv ==
  ASSUME IInv, NEW p \in Processes, StatementFails(p) \/ OpeningCancelled(p) \/ Crash(p)
  PROVE  IInv'
  <1>1. /\ pc' \in [Processes -> Places]
        /\ pc'[p] \in {"leave", "down"}
        /\ \A q \in Processes \ {p} : pc'[q] = pc[q]
    BY DEF IInv, TypeOK, Places, Opening, Goto, StatementFails, OpeningCancelled, Crash
  <1>2. writer' = Released(p) /\ UNCHANGED <<upto, ready, done, meta, tables, recorded>>
    BY DEF StatementFails, OpeningCancelled, Crash
  <1>3. /\ writer' \in Processes \cup {NoWriter}
        /\ \A q \in Processes \ {p} : writer = q => writer' = q
    BY <1>2, StartupAssumption DEF IInv, TypeOK, Released
  <1>4. health' \in [Processes -> BOOLEAN]
    BY DEF IInv, TypeOK, StatementFails, OpeningCancelled, Crash
  <1>5. faults' \in 0..MaxFaults
    BY FaultsBounded DEF IInv, StatementFails, OpeningCancelled, Crash
  <1>6. TypeOK'
    BY <1>1, <1>2, <1>3, <1>4, <1>5 DEF IInv, TypeOK
  <1>7. MigrationInv'
    BY <1>1, <1>2, <1>3 DEF IInv, MigrationInv, SchemaWhole
  <1>8. QED BY <1>6, <1>7 DEF IInv

\* What a process reads is a version somebody committed; it serves if that is the last.
LEMMA ReadingIInv ==
  ASSUME IInv, NEW p \in Processes, CreateMeta(p) \/ ReadVersion(p) \/ NextMigration(p)
  PROVE  IInv'
  <1>1. CASE CreateMeta(p)
    BY <1>1, StartupAssumption
    DEF IInv, TypeOK, MigrationInv, SchemaWhole, Places, Opening, Goto, CreateMeta
  <1>2. CASE ReadVersion(p)
    BY <1>2, StartupAssumption
    DEF IInv, TypeOK, MigrationInv, SchemaWhole, Places, Opening, file, Goto, ReadVersion
  <1>3. CASE NextMigration(p)
    <2>1. /\ pc[p] = "next" /\ meta /\ recorded \in 0..LastVersion
          /\ upto[p] \in 0..LastVersion /\ upto[p] <= recorded /\ LastVersion \in Nat
          /\ UNCHANGED <<upto, health, done, meta, tables, recorded, writer, faults>>
      BY <1>3, StartupAssumption DEF NextMigration, file, IInv, TypeOK, MigrationInv
    <2>2. CASE upto[p] < LastVersion
      <3>1. pc' = [pc EXCEPT ![p] = "apply"] /\ UNCHANGED ready
        BY <1>3, <2>2 DEF NextMigration, Goto
      <3>2. TypeOK'
        BY <2>1, <3>1 DEF IInv, TypeOK, Places, Opening
      <3>3. MigrationInv'
        BY <2>1, <2>2, <3>1 DEF IInv, TypeOK, MigrationInv, SchemaWhole
      <3>4. QED BY <3>2, <3>3 DEF IInv
    <2>3. CASE ~(upto[p] < LastVersion)
      <3>1. pc' = [pc EXCEPT ![p] = "serve"] /\ ready' = [ready EXCEPT ![p] = TRUE]
        BY <1>3, <2>3 DEF NextMigration, Goto
      <3>2. recorded = LastVersion
        BY <2>1, <2>3
      <3>3. TypeOK'
        BY <2>1, <3>1 DEF IInv, TypeOK, Places
      <3>4. MigrationInv'
        BY <2>1, <3>1, <3>2 DEF IInv, TypeOK, MigrationInv, SchemaWhole
      <3>5. QED BY <3>3, <3>4 DEF IInv
    <2>4. QED BY <2>2, <2>3
  <1>4. QED BY <1>1, <1>2, <1>3

\* Nobody else commits while one process holds the lock.
LEMMA TransactionIInv ==
  ASSUME IInv, NEW p \in Processes, Apply(p) \/ Record(p) \/ Commit(p)
  PROVE  IInv'
  <1>1. CASE Apply(p)
    BY <1>1, StartupAssumption
    DEF IInv, TypeOK, MigrationInv, SchemaWhole, Places, Opening, Goto, Apply
  <1>2. CASE Record(p)
    BY <1>2, StartupAssumption
    DEF IInv, TypeOK, MigrationInv, SchemaWhole, Places, Opening, Goto, Record
  <1>3. CASE Commit(p)
    <2>1. /\ writer = p /\ upto[p] = recorded /\ recorded < LastVersion
          /\ recorded \in Nat /\ meta
      BY <1>3 DEF Commit, IInv, TypeOK, MigrationInv
    <2>2. \A q \in Processes \ {p} : pc[q] # "commit" /\ ~ready[q] /\ pc'[q] = pc[q]
      BY <1>3, <2>1, StartupAssumption DEF Commit, Goto, IInv, TypeOK, MigrationInv
    <2>3. /\ tables' = recorded + 1 /\ recorded' = recorded + 1
          /\ \A q \in Processes : upto'[q] = IF q = p THEN recorded + 1 ELSE upto[q]
          /\ pc'[p] = "next" /\ writer' = NoWriter
          /\ UNCHANGED <<ready, health, done, meta, faults>>
      BY <1>3, <2>1 DEF Commit, Goto, IInv, TypeOK
    <2>4. TypeOK'
      BY <1>3, <2>1, <2>3, StartupAssumption
      DEF IInv, TypeOK, Places, Opening, Commit, Goto
    <2>5. MigrationInv'
      BY <2>1, <2>2, <2>3, StartupAssumption DEF IInv, TypeOK, MigrationInv, SchemaWhole
    <2>6. QED BY <2>4, <2>5 DEF IInv
  <1>4. QED BY <1>1, <1>2, <1>3

\* The invariant is inductive.
LEMMA StepIInv == IInv /\ [Next]_vars => IInv'
  <1> SUFFICES ASSUME IInv, [Next]_vars PROVE IInv'
    OBVIOUS
  <1>1. CASE UNCHANGED vars
    BY <1>1 DEF vars, file, IInv, TypeOK, MigrationInv, SchemaWhole
  <1>2. ASSUME NEW p \in Processes,
               Advance(p) \/ StatementFails(p) \/ RunFails(p) \/ Sigterm(p) \/ Crash(p)
        PROVE  IInv'
    BY <1>2, QuietIInv, StartIInv, RollbackIInv, ReadingIInv, TransactionIInv DEF Advance
  <1>3. QED BY <1>1, <1>2 DEF Next

\* ... and so holds in every reachable state.
LEMMA InvariantIInv == Spec => []IInv
  BY InitIInv, StepIInv, PTL DEF Spec

-----------------------------------------------------------------------------

\* No process gets beyond the last migration, and the file neither.
THEOREM StartupTypeCorrect == Spec => []TypeOK
  <1>1. IInv => TypeOK
    BY DEF IInv
  <1>2. QED BY <1>1, InvariantIInv, PTL

\* Tables and their version are committed together (migrate's transaction),
\* however many processes migrate at once and wherever they crash.
THEOREM SchemaAlwaysWhole == Spec => []SchemaWhole
  <1>1. IInv => SchemaWhole
    BY DEF IInv, MigrationInv
  <1>2. QED BY <1>1, InvariantIInv, PTL

\* onReady is only called on a file that is migrated to the last version, and
\* it stays migrated.
THEOREM ReadyAlwaysMigrated == Spec => []ReadyIsMigrated
  <1>1. IInv => ReadyIsMigrated
    BY DEF IInv, MigrationInv, SchemaWhole, ReadyIsMigrated
  <1>2. QED BY <1>1, InvariantIInv, PTL

-----------------------------------------------------------------------------
(* The lock.                                                                *)

\* A process takes the lock with its first write, on the version it has read,
\* and every end of its transaction gives it back.
LEMMA StepLockInv == IInv /\ LockInv /\ [Next]_vars => LockInv'
  <1> SUFFICES ASSUME IInv, LockInv, [Next]_vars, NEW q \in Processes, writer' = q
               PROVE  pc'[q] \in {"record", "commit"} /\ upto'[q] = recorded'
    BY DEF LockInv
  <1>0. q # NoWriter
    BY StartupAssumption
  <1>1. CASE UNCHANGED vars
    BY <1>1 DEF vars, file, LockInv
  <1>2. ASSUME NEW p \in Processes,
               \/ Start(p) \/ Connect(p) \/ CreateMeta(p) \/ ReadVersion(p) \/ NextMigration(p)
               \/ RunReturns(p) \/ RunFails(p) \/ Stop(p) \/ HealthStops(p) \/ Exit(p)
               \/ Sigterm(p)
        PROVE  pc'[q] \in {"record", "commit"} /\ upto'[q] = recorded'
    <2>1. writer' = writer /\ recorded' = recorded
      BY <1>2 DEF Start, Connect, CreateMeta, ReadVersion, NextMigration, RunReturns, RunFails,
                  Stop, HealthStops, Exit, Sigterm, file
    <2>2. pc[q] \in {"record", "commit"} /\ upto[q] = recorded
      BY <2>1 DEF LockInv
    <2>3. pc'[q] = pc[q] \/ p = q
      BY <1>2 DEF Start, Connect, CreateMeta, ReadVersion, NextMigration, RunReturns, RunFails,
                  Stop, HealthStops, Exit, Sigterm, Goto, IInv, TypeOK
    <2>4. p = q => pc'[q] = pc[q] \/ pc[q] \in {"down", "open", "create", "read", "next", "serve", "leave"}
      BY <1>2 DEF Start, Connect, CreateMeta, ReadVersion, NextMigration, RunReturns, RunFails,
                  Stop, HealthStops, Exit, Sigterm
    <2>5. upto'[q] = upto[q]
      BY <1>2, <2>2 DEF Start, Connect, CreateMeta, ReadVersion, NextMigration, RunReturns,
                  RunFails, Stop, HealthStops, Exit, Sigterm, IInv, TypeOK
    <2>6. QED BY <2>1, <2>2, <2>3, <2>4, <2>5
  <1>3. ASSUME NEW p \in Processes, StatementFails(p) \/ OpeningCancelled(p) \/ Crash(p)
        PROVE  pc'[q] \in {"record", "commit"} /\ upto'[q] = recorded'
    <2>1. p # q /\ writer = q
      BY <1>0, <1>3 DEF StatementFails, OpeningCancelled, Crash, Released
    <2>2. pc'[q] = pc[q] /\ UNCHANGED <<upto, recorded>>
      BY <1>3, <2>1 DEF StatementFails, OpeningCancelled, Crash, Goto, IInv, TypeOK
    <2>3. QED BY <2>1, <2>2 DEF LockInv
  <1>4. ASSUME NEW p \in Processes, Apply(p)
        PROVE  pc'[q] \in {"record", "commit"} /\ upto'[q] = recorded'
    <2>1. pc' = [pc EXCEPT ![p] = "record"] /\ UNCHANGED <<upto, recorded>>
      BY <1>4 DEF Apply, Goto
    <2>2. CASE upto[p] < tables
      BY <1>4, <2>1, <2>2 DEF Apply, LockInv, IInv, TypeOK
    <2>3. CASE ~(upto[p] < tables)
      <3>1. p = q
        BY <1>0, <1>4, <2>3 DEF Apply
      <3>2. upto[p] = recorded
        BY <2>3 DEF IInv, TypeOK, MigrationInv, SchemaWhole
      <3>3. QED BY <2>1, <3>1, <3>2 DEF IInv, TypeOK
    <2>4. QED BY <2>2, <2>3
  <1>5. ASSUME NEW p \in Processes, Record(p)
        PROVE  pc'[q] \in {"record", "commit"} /\ upto'[q] = recorded'
    <2>1. p = q /\ ~(upto[p] < recorded)
      BY <1>0, <1>5 DEF Record
    <2>2. upto[p] = recorded
      BY <2>1 DEF IInv, TypeOK, MigrationInv
    <2>3. pc' = [pc EXCEPT ![p] = "commit"] /\ UNCHANGED <<upto, recorded>>
      BY <1>5, <2>1 DEF Record, Goto
    <2>4. QED BY <2>1, <2>2, <2>3 DEF IInv, TypeOK
  <1>6. ASSUME NEW p \in Processes, Commit(p)
        PROVE  FALSE
    BY <1>0, <1>6 DEF Commit
  <1>7. QED BY <1>1, <1>2, <1>3, <1>4, <1>5, <1>6 DEF Next, Advance

\* The safety core of StartupConverges: whoever holds the write lock needs
\* nothing from anybody to get rid of it, since its INSERT meets no version of
\* another process.  No two processes wait for each other in migrate.
THEOREM LockHolderProceeds == Spec => []LockInv
  <1>1. Init => LockInv
    BY StartupAssumption DEF Init, LockInv
  <1>2. QED BY <1>1, StepLockInv, InvariantIInv, PTL DEF Spec

-----------------------------------------------------------------------------
(* Refinement.                                                              *)

\* Only a commit changes the version, and it commits the next one.
LEMMA CommitIsMigration ==
  ASSUME IInv, NEW p \in Processes, Commit(p)
  PROVE  Volume!Migrate
  <1>1. upto[p] = recorded /\ upto[p] < LastVersion
    BY DEF IInv, MigrationInv, Commit
  <1>2. QED BY <1>1 DEF Commit, Volume!Migrate

\* Only the end of Open makes a process serve, and only its next start ends
\* that; every other step is a stutter.
LEMMA StepImplementsVolume ==
  IInv /\ [Next]_vars => [Volume!Next]_<<recorded, {p \in Processes : ready[p]}>>
  <1> DEFINE serving == {p \in Processes : ready[p]}
  <1> SUFFICES ASSUME IInv, [Next]_vars
               PROVE  Volume!Next \/ UNCHANGED <<recorded, serving>>
    OBVIOUS
  <1>1. CASE UNCHANGED vars
    BY <1>1 DEF vars, file
  <1>2. ASSUME NEW p \in Processes, Commit(p)
        PROVE  Volume!Next
    BY <1>2, CommitIsMigration DEF Volume!Next
  <1>3. ASSUME NEW p \in Processes, Start(p)
        PROVE  Volume!Next
    <2>1. recorded' = recorded /\ ready' = [ready EXCEPT ![p] = FALSE]
      BY <1>3 DEF Start, file
    <2>2. serving' = serving \ {p}
      BY <2>1 DEF IInv, TypeOK
    <2>3. Volume!Restart(p)
      BY <2>1, <2>2 DEF Volume!Restart
    <2>4. QED BY <2>3 DEF Volume!Next
  <1>4. ASSUME NEW p \in Processes, NextMigration(p)
        PROVE  Volume!Next \/ UNCHANGED <<recorded, serving>>
    <2>1. recorded' = recorded
      BY <1>4 DEF NextMigration, file
    <2>2. CASE upto[p] < LastVersion
      BY <1>4, <2>1, <2>2 DEF NextMigration
    <2>3. CASE ~(upto[p] < LastVersion)
      <3>1. ready' = [ready EXCEPT ![p] = TRUE]
        BY <1>4, <2>3 DEF NextMigration
      <3>2. serving' = serving \cup {p}
        BY <3>1 DEF IInv, TypeOK
      <3>3. recorded = LastVersion
        BY <2>3, StartupAssumption DEF IInv, TypeOK, MigrationInv
      <3>4. Volume!Serve(p)
        BY <2>1, <3>2, <3>3 DEF Volume!Serve
      <3>5. QED BY <3>4 DEF Volume!Next
    <2>4. QED BY <2>2, <2>3
  <1>5. ASSUME NEW p \in Processes,
               \/ Connect(p) \/ CreateMeta(p) \/ ReadVersion(p) \/ Apply(p) \/ Record(p)
               \/ OpeningCancelled(p) \/ RunReturns(p) \/ Stop(p) \/ HealthStops(p) \/ Exit(p)
               \/ StatementFails(p) \/ RunFails(p) \/ Sigterm(p) \/ Crash(p)
        PROVE  UNCHANGED <<recorded, serving>>
    BY <1>5 DEF Connect, CreateMeta, ReadVersion, Apply, Record, OpeningCancelled, RunReturns,
                Stop, HealthStops, Exit, StatementFails, RunFails, Sigterm, Crash, file
  <1>6. QED BY <1>1, <1>2, <1>3, <1>4, <1>5 DEF Next, Advance

\* migrate, Open and onReady of any number of processes, with any faults, are
\* one file that is migrated once, version by version, before anyone serves.
THEOREM StartupImplementsMigratedFile == Spec => MigratesInOrder
  <1>1. Init => Volume!Init
    BY DEF Init, Volume!Init
  <1>2. QED BY <1>1, StepImplementsVolume, InvariantIInv, PTL DEF Spec, MigratesInOrder, Volume!Spec

=============================================================================
