---------------------------- MODULE HubPullProofs ----------------------------
(***************************************************************************)
(* Proofs about HubPull for every set of cluster names, every finite set of *)
(* Secrets and any number of events under way.                              *)
(***************************************************************************)
EXTENDS HubPull, ClusterManagerProofs

-----------------------------------------------------------------------------
(* HubPull implements ClusterManager: it adds the events and the table.     *)

\* Every step of the composition is a step of the manager or none.
LEMMA HubStepIsManagerStep == [HubNext]_hubVars => [Next]_vars
  <1> SUFFICES ASSUME [HubNext]_hubVars PROVE [Next]_vars
    OBVIOUS
  <1>1. CASE ApiStep
    BY <1>1 DEF ApiStep, Next
  <1>2. CASE DispatchStep \/ SpawnStep \/ AttachStep \/ PurgeSucceeds \/ PurgeFails
    BY <1>2 DEF DispatchStep, SpawnStep, AttachStep, PurgeSucceeds, PurgeFails, Next, Dispatch
  <1>3. CASE ProcessStep \/ HubEnds
    BY <1>3 DEF ProcessStep, HubEnds, Next, Process
  <1>4. CASE \E w \in watchers : WatcherStops(w)
    BY <1>4 DEF WatcherStops, Next
  <1>5. CASE \/ \E w \in informers : Emit(w) \/ InformersEnd(w)
             \/ \E e \in flight : Apply(e) \/ Drop(e)
    BY <1>5 DEF Emit, InformersEnd, Apply, Drop
  <1>6. CASE UNCHANGED hubVars
    BY <1>6 DEF hubVars
  <1>7. QED BY <1>1, <1>2, <1>3, <1>4, <1>5, <1>6 DEF HubNext, ReliableNext

\* Every step of the hub is a step of the manager or leaves it alone, so what
\* is proved of the manager holds in the composition.
THEOREM HubImplementsManager == HubSpec => Spec
  BY HubStepIsManagerStep, PTL DEF HubSpec, HubInit, Spec

\* No watcher leaks while events, purges and store errors go on around it.
THEOREM HubWatchersNeverLeak == HubSpec => []NoLeakedWatcher
  BY HubImplementsManager, WatchersNeverLeak, PTL

-----------------------------------------------------------------------------
(* The type invariant.                                                      *)

\* Type correctness: the first state ...
LEMMA InitHubTypeOK == HubInit => HubTypeOK
  BY InitTypeOK DEF HubInit, HubTypeOK, Channel!Init

\* The watch about to start.
LEMMA SpawnTask ==
  ASSUME TypeOK, task # NoTask, task.at = "spawn"
  PROVE  /\ task \in [at : {"spawn"}, key : Secrets, entry : Entry]
         /\ WatchOf(task.key, task.entry) \in Watch
  <1>1. task \in [at : {"spawn"}, key : Secrets, entry : Entry]
    BY DEF TypeOK, Task
  <1>2. QED BY <1>1 DEF WatchOf, Watch, Entry

\* ... and every step.
LEMMA StepHubTypeOK == HubTypeOK /\ [HubNext]_hubVars => HubTypeOK'
  <1> SUFFICES ASSUME HubTypeOK, [HubNext]_hubVars PROVE HubTypeOK'
    OBVIOUS
  <1>0. TypeOK'
    BY HubStepIsManagerStep, StepTypeOK DEF HubTypeOK
  <1>w. \A w \in informers : w.cluster \in Names
    BY DEF HubTypeOK, TypeOK, Watch
  <1>1. CASE ApiStep
    BY <1>0, <1>1
    DEF ApiStep, ApiServer, WriteSecret, DeleteSecret, managerVars, eventVars, HubTypeOK
  <1>2. CASE DispatchStep
    BY <1>0, <1>2 DEF DispatchStep, eventVars, HubTypeOK
  <1>s. CASE SpawnStep
    <2>1. WatchOf(task.key, task.entry) \in Watch
      BY <1>s, SpawnTask DEF SpawnStep, Spawn, HubTypeOK
    <2>2. QED BY <1>0, <1>s, <2>1 DEF SpawnStep, HubTypeOK
  <1>3. CASE AttachStep
    <2>1. leftover' \subseteq Names
      BY <1>3 DEF AttachStep, HubTypeOK, TypeOK, ActiveKeys, Entry
    <2>2. QED BY <1>0, <1>3, <2>1 DEF AttachStep, Attach, eventVars, HubTypeOK
  <1>4. CASE PurgeSucceeds \/ PurgeFails
    <2>1. task.cluster \in Names
      BY <1>4 DEF PurgeSucceeds, PurgeFails, Purge, HubTypeOK, TypeOK, Task
    <2>2. QED
      BY <1>0, <1>4, <2>1 DEF PurgeSucceeds, PurgeFails, Purge, eventVars, HubTypeOK
  <1>5. CASE ProcessStep
    BY <1>0, <1>5 DEF ProcessStep, Cancel, StopAll, Start, managerVars, eventVars, HubTypeOK
  <1>6. CASE HubEnds
    BY <1>0, <1>6 DEF HubEnds, HubTypeOK, Stored, Channel!LoseAll
  <1>7. ASSUME NEW w \in informers, Emit(w) PROVE HubTypeOK'
    <2>1. PICK row \in {Report, NoRow} :
             /\ Channel!Send([key |-> w.cluster, row |-> row])
             /\ seenBy' = IF row = Report THEN seenBy \cup {w} ELSE seenBy \ {w}
      BY <1>7 DEF Emit
    <2>2. [key |-> w.cluster, row |-> row] \in Channel!Event
      BY <1>w DEF Channel!Event
    <2>3. flight' \subseteq Channel!Event /\ UNCHANGED table
      BY <2>1, <2>2 DEF Channel!Send, HubTypeOK
    <2>4. seenBy' \subseteq informers
      BY <2>1 DEF HubTypeOK
    <2>5. QED BY <1>0, <1>7, <2>3, <2>4 DEF Emit, HubTypeOK
  <1>8. ASSUME NEW w \in watchers, WatcherStops(w) PROVE HubTypeOK'
    BY <1>0, <1>8 DEF WatcherStops, eventVars, HubTypeOK
  <1>9. ASSUME NEW w \in informers, InformersEnd(w) PROVE HubTypeOK'
    BY <1>0, <1>9 DEF InformersEnd, HubTypeOK
  <1>10. ASSUME NEW e \in flight, Apply(e) \/ Drop(e) PROVE HubTypeOK'
    <2>1. e.key \in Names /\ e.row \in {Report, NoRow}
      BY <1>10 DEF HubTypeOK, Channel!Event
    <2>2. flight' \subseteq Channel!Event
      BY <1>10 DEF Apply, Drop, Channel!Apply, Channel!Lose, HubTypeOK
    <2>3. table' \in [Names -> {Report, NoRow}]
      BY <1>10, <2>1 DEF Apply, Drop, Channel!Apply, Channel!Lose, HubTypeOK
    <2>4. UNCHANGED <<informers, seenBy, leftover>>
      BY <1>10 DEF Apply, Drop
    <2>5. QED BY <1>0, <2>2, <2>3, <2>4 DEF HubTypeOK
  <1>11. CASE UNCHANGED hubVars
    BY <1>0, <1>11 DEF hubVars, eventVars, HubTypeOK
  <1>12. CASE ReliableNext
    <2>1. CASE \/ \E w \in watchers : WatcherStops(w)
               \/ \E w \in informers : Emit(w) \/ InformersEnd(w)
               \/ \E e \in flight : Apply(e)
      BY <1>7, <1>8, <1>9, <1>10, <2>1
    <2>2. QED BY <1>1, <1>2, <1>s, <1>3, <1>4, <1>5, <1>12, <2>1 DEF ReliableNext
  <1>13. QED BY <1>4, <1>6, <1>10, <1>11, <1>12 DEF HubNext

\* Every variable keeps its type: whatever is restarted, purged or cancelled, the
\* events under way carry cluster names (Watcher.emitUpsert, emitDelete), the table
\* has no rows of anything else, and only informers that run have caches.
THEOREM HubTypeCorrect == HubSpec => []HubTypeOK
  BY InitHubTypeOK, StepHubTypeOK, PTL DEF HubSpec

-----------------------------------------------------------------------------
(* Every row has a watcher.                                                 *)

\* The rows: there are none at first ...
LEMMA InitRowsInv == HubInit => RowsInv
  BY DEF HubInit, Init, Channel!Init, RowsInv, UnderWay, Stored

\* The parts of RowsInv at a running manager, one cluster at a time.
LEMMA RunningRowsInv ==
  ASSUME phase' = "running",
         \A c \in Names \ leftover' :
            (c \in Stored' \/ UnderWay(c)') => (Watched(c)' \/ PurgePending(c)'),
         (task' # NoTask /\ task'.at \in {"count", "spawn"}) =>
            active'[task'.key] = task'.entry
  PROVE  RowsInv'
  BY DEF RowsInv

\* While the manager is neither running nor down nothing is claimed.
LEMMA OtherPhaseRowsInv == phase' \notin {"running", "down"} => RowsInv'
  BY DEF RowsInv

\* Nothing of the manager happens in a process that is down.
LEMMA DownIsQuiet ==
  ASSUME HubTypeOK, RowsInv, phase = "down"
  PROVE  task = NoTask /\ informers = {} /\ flight = {}
  BY DEF RowsInv

\* A step that keeps the map, the events, the table, and the task or at least
\* whatever of the task counts here.
LEMMA KeptRowsInv ==
  ASSUME HubTypeOK, RowsInv, phase # "down",
         UNCHANGED <<active, informers, phase, flight, table, leftover>>,
         \A c \in Names : PurgePending(c) => PurgePending(c)',
         (task' # NoTask /\ task'.at \in {"count", "spawn"}) =>
            active[task'.key] = task'.entry
  PROVE  RowsInv'
  <1>1. CASE phase = "running"
    <2>1. \A c \in Names : (UnderWay(c)' <=> UnderWay(c)) /\ (Watched(c)' <=> Watched(c))
      BY DEF UnderWay, Watched, ActiveKeys
    <2>2. QED BY <1>1, <2>1, RunningRowsInv DEF RowsInv, Stored
  <1>2. CASE phase # "running"
    BY <1>2, OtherPhaseRowsInv
  <1>3. QED BY <1>1, <1>2

\* ... a callback that enters or leaves changes no row ...
LEMMA DispatchRowsInv ==
  ASSUME HubTypeOK, RowsInv, DispatchStep, HubTypeOK'
  PROVE  RowsInv'
  <1>0. UNCHANGED <<informers, flight, table, leftover>>
    BY DEF DispatchStep, eventVars
  <1>d. phase # "down"
    BY DownIsQuiet DEF DispatchStep, UpsertCallback, ResyncCallback, RemoveCallback,
                       SkipSecret, ReportCount
  <1>1. ASSUME NEW k \in Secrets, UpsertCallback(k) \/ ResyncCallback(k) PROVE RowsInv'
    <2>1. \A c \in Names : ~PurgePending(c)
      BY <1>1 DEF UpsertCallback, ResyncCallback, PurgePending
    <2>2. task' = NoTask \/ task'.at = "build"
      BY <1>1 DEF UpsertCallback, ResyncCallback, EnterUpsert
    <2>3. UNCHANGED <<active, phase>>
      BY <1>1 DEF UpsertCallback, ResyncCallback
    <2>4. QED BY <1>0, <1>d, <2>1, <2>2, <2>3, KeptRowsInv
  <1>2. CASE SkipSecret
    <2>1. \A c \in Names : ~PurgePending(c)
      BY <1>2 DEF SkipSecret, PurgePending
    <2>2. QED BY <1>0, <1>2, <1>d, <2>1, KeptRowsInv DEF SkipSecret
  <1>3. CASE ReportCount
    <2>1. CASE task.at = "count"
      <3>1. \A c \in Names : ~PurgePending(c)
        BY <2>1 DEF PurgePending
      <3>2. task' = [at |-> "spawn", key |-> task.key, entry |-> task.entry]
        BY <1>3, <2>1 DEF ReportCount
      <3>3. CASE phase = "running"
        <4>1. active[task'.key] = task'.entry
          BY <1>3, <2>1, <3>2, <3>3 DEF ReportCount, RowsInv
        <4>2. QED BY <1>0, <1>3, <1>d, <3>1, <4>1, KeptRowsInv DEF ReportCount
      <3>4. CASE phase # "running"
        BY <1>3, <1>d, <3>4, OtherPhaseRowsInv DEF ReportCount
      <3>5. QED BY <3>3, <3>4
    <2>2. CASE task.at = "countRemoved"
      <3>1. task \in [at : {"countRemoved"}, entry : Entry, count : 0..Cardinality(Secrets)]
        BY <1>3, <2>2 DEF ReportCount, HubTypeOK, TypeOK, Task
      <3>2. task' = [at |-> "purge", cluster |-> task.entry.cluster]
        BY <1>3, <2>2 DEF ReportCount
      <3>3. task' # NoTask
        BY <3>1, <3>2, ManagerAssumption DEF Task, Entry
      <3>4. \A c \in Names : PurgePending(c) => PurgePending(c)'
        BY <2>2, <3>2, <3>3 DEF PurgePending
      <3>5. QED BY <1>0, <1>3, <1>d, <3>2, <3>4, KeptRowsInv DEF ReportCount
    <2>3. QED BY <1>3, <2>1, <2>2 DEF ReportCount
  <1>5. ASSUME NEW k \in Secrets, RemoveCallback(k) PROVE RowsInv'
    <2>1. phase' = phase /\ task = NoTask
      BY <1>5 DEF RemoveCallback
    <2>2. \A c \in Names : ~PurgePending(c) /\ (UnderWay(c)' <=> UnderWay(c))
      BY <1>0, <2>1 DEF PurgePending, UnderWay
    <2>3. \A j \in Secrets : active'[j] = IF j = k THEN Absent ELSE active[j]
      BY <1>5 DEF RemoveCallback, HubTypeOK, TypeOK
    <2>4. \A c \in Names : Watched(c) => Watched(c)' \/ PurgePending(c)'
      <3>1. SUFFICES ASSUME NEW c \in Names, NEW j \in ActiveKeys, active[j].cluster = c,
                            ~Watched(c)'
                     PROVE  PurgePending(c)'
        BY DEF Watched
      <3>2. j = k /\ active[k] # Absent
        BY <2>3, <3>1 DEF Watched, ActiveKeys
      <3>3. task' = [at |-> "countRemoved", entry |-> active[k],
                     count |-> Cardinality(ActiveKeys \ {k})]
        BY <1>5, <3>2 DEF RemoveCallback, RemovedEntry
      <3>4. active[k] \in Entry
        BY <3>2 DEF HubTypeOK, TypeOK
      <3>5. task' # NoTask
        BY <3>3, <3>4, CountFits, ManagerAssumption DEF Task, ActiveKeys
      <3>6. QED BY <3>1, <3>2, <3>3, <3>5 DEF PurgePending
    <2>5. task' = NoTask \/ task'.at = "countRemoved"
      BY <1>5 DEF RemoveCallback
    <2>6. CASE phase = "running"
      BY <1>0, <2>1, <2>2, <2>4, <2>5, <2>6, RunningRowsInv DEF RowsInv, Stored
    <2>7. CASE phase # "running"
      BY <1>d, <2>1, <2>7, OtherPhaseRowsInv
    <2>8. QED BY <2>6, <2>7
  <1>6. QED BY <1>1, <1>2, <1>3, <1>5 DEF DispatchStep

\* The entry that a watcher is started for is in the map.
LEMMA SpawnRowsInv ==
  ASSUME HubTypeOK, RowsInv, SpawnStep
  PROVE  RowsInv'
  <1>0. /\ UNCHANGED <<active, phase, flight, table, leftover>> /\ task' = NoTask
        /\ informers' = informers \cup {WatchOf(task.key, task.entry)}
    BY DEF SpawnStep, Spawn
  <1>1. task # NoTask /\ task \in [at : {"spawn"}, key : Secrets, entry : Entry]
    BY SpawnTask DEF SpawnStep, Spawn, HubTypeOK
  <1>2. CASE phase = "running"
    <2>1. active[task.key] = task.entry
      BY <1>1, <1>2 DEF RowsInv
    <2>2. Watched(task.entry.cluster)
      BY <1>1, <2>1, ManagerAssumption DEF Watched, ActiveKeys
    <2>3. \A c \in Names : ~PurgePending(c)
      BY <1>1 DEF PurgePending
    <2>4. \A c \in Names : UnderWay(c)' => UnderWay(c) \/ c = task.entry.cluster
      BY <1>0 DEF UnderWay, WatchOf
    <2>5. \A c \in Names : Watched(c)' <=> Watched(c)
      BY <1>0 DEF Watched, ActiveKeys
    <2>6. QED
      BY <1>0, <1>2, <2>2, <2>3, <2>4, <2>5, RunningRowsInv DEF RowsInv, Stored
  <1>3. CASE phase # "running"
    BY <1>0, <1>1, <1>3, DownIsQuiet, OtherPhaseRowsInv
  <1>4. QED BY <1>2, <1>3

\* A watcher that is replaced by one of another cluster leaves the old name
\* in leftover; one of the same cluster goes on answering for it.
LEMMA AttachRowsInv ==
  ASSUME HubTypeOK, RowsInv, AttachStep
  PROVE  RowsInv'
  <1> DEFINE k == task.key
             e == [cluster |-> task.obj.name, rv |-> task.obj.rv]
  <1>0. UNCHANGED <<informers, phase, flight, table>>
    BY DEF AttachStep, Attach, eventVars
  <1>1. k \in Secrets /\ e \in Entry /\ task # NoTask /\ task.at = "build"
    BY BuildTask DEF AttachStep, Attach, HubTypeOK
  <1>d. phase # "down"
    BY <1>1, DownIsQuiet
  <1>2. \A c \in Names : ~PurgePending(c) /\ (UnderWay(c)' <=> UnderWay(c))
    BY <1>0, <1>1 DEF PurgePending, UnderWay
  <1>3. \/ task' = NoTask /\ active' = active
        \/ /\ task' = [at |-> "count", key |-> k, entry |-> e,
                       count |-> Cardinality(ActiveKeys \cup {k})]
           /\ active' = [active EXCEPT ![k] = e]
    BY DEF AttachStep, Attach
  <1>4. \A j \in Secrets : active'[j] = active[j] \/ (j = k /\ active'[j] = e)
    BY <1>1, <1>3 DEF HubTypeOK, TypeOK
  <1>5. \A c \in Names \ leftover' : Watched(c) => Watched(c)'
    <2>1. SUFFICES ASSUME NEW c \in Names \ leftover', NEW j \in ActiveKeys,
                          active[j].cluster = c
                   PROVE  active'[j] # Absent /\ active'[j].cluster = c
      BY DEF Watched, ActiveKeys
    <2>2. active'[j] # Absent
      BY <1>1, <1>4, ManagerAssumption DEF ActiveKeys
    <2>3. QED BY <2>1, <2>2 DEF AttachStep
  <1>6. leftover \subseteq leftover'
    BY DEF AttachStep
  <1>7. (task' # NoTask /\ task'.at \in {"count", "spawn"}) => active'[task'.key] = task'.entry
    BY <1>1, <1>3 DEF HubTypeOK, TypeOK
  <1>8. CASE phase = "running"
    <2>1. \A c \in Names \ leftover' :
             (c \in Stored' \/ UnderWay(c)') => Watched(c)'
      BY <1>0, <1>2, <1>5, <1>6, <1>8 DEF RowsInv, Stored
    <2>2. QED BY <1>0, <1>7, <1>8, <2>1, RunningRowsInv
  <1>9. CASE phase # "running"
    BY <1>0, <1>d, <1>9, OtherPhaseRowsInv
  <1>10. QED BY <1>8, <1>9

\* After a purge the cluster has neither rows nor anything under way, or it is
\* in leftover.
LEMMA PurgeRowsInv ==
  ASSUME HubTypeOK, RowsInv, PurgeSucceeds \/ PurgeFails
  PROVE  RowsInv'
  <1>1. /\ task # NoTask /\ task.at = "purge" /\ task' = NoTask
        /\ UNCHANGED <<active, informers, phase, flight>>
    BY DEF PurgeSucceeds, PurgeFails, Purge, eventVars
  <1>d. phase # "down"
    BY <1>1, DownIsQuiet
  <1>2. \A c \in Names : (UnderWay(c)' <=> UnderWay(c)) /\ (Watched(c)' <=> Watched(c))
    BY <1>1 DEF UnderWay, Watched, ActiveKeys
  <1>3. \A c \in Names \ {task.cluster} :
           /\ ~PurgePending(c)
           /\ c \notin leftover' => c \notin leftover
           /\ c \in Stored' => c \in Stored
    BY <1>1 DEF PurgePending, PurgeSucceeds, PurgeFails, eventVars, Stored, HubTypeOK
  <1>4. \/ task.cluster \in leftover'
        \/ task.cluster \notin Stored' /\ ~UnderWay(task.cluster)
    BY DEF PurgeSucceeds, PurgeFails, Stored, HubTypeOK
  <1>5. CASE phase = "running"
    <2>1. ASSUME NEW c \in Names \ leftover', c \in Stored' \/ UnderWay(c)'
          PROVE  Watched(c)'
      <3>1. c # task.cluster
        BY <1>2, <1>4, <2>1
      <3>2. QED BY <1>2, <1>3, <1>5, <2>1, <3>1 DEF RowsInv
    <2>2. QED BY <1>1, <1>5, <2>1, RunningRowsInv
  <1>6. CASE phase # "running"
    BY <1>1, <1>d, <1>6, OtherPhaseRowsInv
  <1>7. QED BY <1>5, <1>6

\* Events carry the cluster of the informer that sent them, and rows that of
\* the event that wrote them.
LEMMA EventRowsInv ==
  ASSUME HubTypeOK, RowsInv,
         \/ \E w \in informers : Emit(w) \/ InformersEnd(w)
         \/ \E e \in flight : Apply(e) \/ Drop(e)
  PROVE  RowsInv'
  <1>1. UNCHANGED <<task, active, phase, leftover>>
    BY DEF Emit, InformersEnd, Apply, Drop, vars, managerVars
  <1>d. phase # "down"
    BY DownIsQuiet DEF Apply
  <1>2. ASSUME NEW c \in Names, c \in Stored' \/ UnderWay(c)'
        PROVE  c \in Stored \/ UnderWay(c)
    <2>1. CASE \E w \in informers : Emit(w)
      <3>1. PICK w \in informers, row \in {Report, NoRow} :
               /\ informers' = informers
               /\ Channel!Send([key |-> w.cluster, row |-> row])
        BY <2>1 DEF Emit
      <3>2. flight' = flight \cup {[key |-> w.cluster, row |-> row]} /\ table' = table
        BY <3>1 DEF Channel!Send
      <3>3. QED BY <1>2, <3>1, <3>2 DEF UnderWay, Stored
    <2>2. CASE \E w \in informers : InformersEnd(w)
      BY <1>2, <2>2 DEF InformersEnd, UnderWay, Stored
    <2>3. CASE \E e \in flight : Apply(e) \/ Drop(e)
      <3>1. PICK e \in flight : Apply(e) \/ Drop(e)
        BY <2>3
      <3>2. informers' = informers /\ flight' \subseteq flight
        BY <3>1 DEF Apply, Drop, Channel!Apply, Channel!Lose
      <3>3. c \in Stored' => c \in Stored \/ c = e.key
        BY <3>1 DEF Apply, Drop, Channel!Apply, Channel!Lose, Stored, HubTypeOK
      <3>4. QED BY <1>2, <3>2, <3>3 DEF UnderWay
    <2>4. QED BY <2>1, <2>2, <2>3
  <1>3. \A c \in Names : (Watched(c)' <=> Watched(c)) /\ (PurgePending(c)' <=> PurgePending(c))
    BY <1>1 DEF Watched, ActiveKeys, PurgePending
  <1>4. CASE phase = "running"
    BY <1>1, <1>2, <1>3, <1>4, RunningRowsInv DEF RowsInv
  <1>5. CASE phase # "running"
    BY <1>1, <1>d, <1>5, OtherPhaseRowsInv
  <1>6. QED BY <1>4, <1>5

\* ... the process starts and stops ...
LEMMA ProcessRowsInv ==
  ASSUME HubTypeOK, RowsInv, ProcessStep \/ HubEnds
  PROVE  RowsInv'
  <1>1. CASE HubEnds
    BY <1>1 DEF HubEnds, ProcessEnds, RowsInv, Channel!LoseAll, Stored
  <1>2. CASE ProcessStep /\ (Cancel \/ StopAll)
    BY <1>2, OtherPhaseRowsInv DEF Cancel, StopAll
  <1>3. CASE ProcessStep /\ Start
    <2>1. phase = "down" /\ phase' = "running"
      BY <1>3 DEF Start
    <2>2. UNCHANGED <<task, informers, flight, table, leftover>>
      BY <1>3 DEF Start, ProcessStep, managerVars, eventVars
    <2>3. task = NoTask /\ informers = {} /\ Stored \subseteq leftover
          /\ flight = {}
      BY <2>1 DEF RowsInv
    <2>4. \A c \in Names \ leftover' : c \notin Stored' /\ ~UnderWay(c)'
      BY <2>2, <2>3 DEF UnderWay, Stored
    <2>5. QED BY <2>1, <2>2, <2>3, <2>4, RunningRowsInv
  <1>4. QED BY <1>1, <1>2, <1>3 DEF ProcessStep

\* ... and so every step keeps the invariant.
LEMMA StepRowsInv ==
  ASSUME HubTypeOK, RowsInv, [HubNext]_hubVars
  PROVE  RowsInv'
  <1>1. CASE UNCHANGED <<task, active, informers, phase, flight, table, leftover>>
    BY <1>1 DEF RowsInv, UnderWay, Stored, Watched, ActiveKeys, PurgePending
  <1>2. CASE ApiStep \/ UNCHANGED hubVars \/ \E w \in watchers : WatcherStops(w)
    BY <1>1, <1>2
    DEF ApiStep, ApiServer, WriteSecret, DeleteSecret, WatcherStops, WatcherReturns,
        hubVars, vars, managerVars, eventVars
  <1>3. CASE DispatchStep
    BY <1>3, DispatchRowsInv, StepHubTypeOK
  <1>s. CASE SpawnStep
    BY <1>s, SpawnRowsInv
  <1>4. CASE AttachStep
    BY <1>4, AttachRowsInv
  <1>5. CASE PurgeSucceeds \/ PurgeFails
    BY <1>5, PurgeRowsInv
  <1>6. CASE \/ \E w \in informers : Emit(w) \/ InformersEnd(w)
             \/ \E e \in flight : Apply(e) \/ Drop(e)
    BY <1>6, EventRowsInv
  <1>7. CASE ProcessStep \/ HubEnds
    BY <1>7, ProcessRowsInv
  <1>8. QED BY <1>2, <1>3, <1>s, <1>4, <1>5, <1>6, <1>7 DEF HubNext, ReliableNext

\* Rows are only there for clusters with a watcher, apart from those that a
\* failed purge, an event or a running informer at the purge, a rename or a
\* restart left behind: remove's purge and upsert's restart of a watcher never
\* lose track of a cluster, though the informers outlive Watcher.Run.
THEOREM RowsAlwaysHaveWatcher == HubSpec => []RowsHaveWatcher
  <1>1. HubTypeOK /\ RowsInv => RowsHaveWatcher
    BY DEF RowsInv, RowsHaveWatcher, PurgePending, Stored
  <1>2. QED
    BY <1>1, InitHubTypeOK, StepHubTypeOK, InitRowsInv, StepRowsInv, PTL DEF HubSpec

-----------------------------------------------------------------------------
(* From the rows back to the Secrets.                                       *)

\* A row that nothing went wrong for belongs to a cluster whose Secret is still
\* there, or whose deletion the informer has yet to report.
RowsHaveSecret ==
  (phase = "running" /\ task = NoTask) =>
      \A c \in Stored \ leftover : \E k \in ActiveKeys :
          active[k].cluster = c /\ (secret[k] # Absent \/ k \in gone)

\* The API server, the informer, the map and the database agree: with the
\* manager's own theorem, a row of a cluster whose Secret is gone, and reported
\* so, is one of the named exceptions (remove, OnPurge).
THEOREM RowsAlwaysHaveSecret == HubSpec => []RowsHaveSecret
  <1>1. RowsHaveWatcher /\ GoneIsRemoved => RowsHaveSecret
    BY DEF RowsHaveWatcher, GoneIsRemoved, RowsHaveSecret, Watched, ActiveKeys
  <1>2. QED BY <1>1, RowsAlwaysHaveWatcher, HubImplementsManager, GoneAreRemoved, PTL

\* The callback that the dispatch goroutine runs has to do with the cluster.
TaskNames(c) ==
  /\ task # NoTask
  /\ \/ task.at = "build" /\ task.obj.name = c
     \/ task.at \in {"count", "countRemoved", "spawn"} /\ task.entry.cluster = c
     \/ task.at = "purge" /\ task.cluster = c

\* No Secret registers the cluster and nothing is at work for it: no callback of
\* the manager, no entry, no informer that still runs, no event.
Forgotten(c) ==
  /\ \A k \in Secrets : /\ secret[k] # Absent => secret[k].name # c
                        /\ cache[k] # Absent => cache[k].name # c
  /\ ~TaskNames(c) /\ ~Watched(c) /\ ~UnderWay(c)

\* Its rows stay as they are until somebody registers it again.  Once purged they
\* do not come back; but those that were left behind no restart, no resync and no
\* purge of another cluster removes (manager.go purges a cluster when it removes
\* its entry and at no other time; UnregisteredIsPurged is refuted by this).
ForgottenStaysForgotten ==
  [][\A c \in Names :
        (Forgotten(c) /\ \A k \in Secrets : ~Registered(k, c)')
            => Forgotten(c)' /\ table'[c] = table[c]]_hubVars

\* The parts of Forgotten that the manager changes: what it does it does for
\* the clusters of cached Secrets, of entries and of the present callback.
LEMMA DispatchForOthers ==
  ASSUME HubTypeOK, NEW c \in Names, Forgotten(c), Dispatch
  PROVE  /\ \A k \in Secrets : cache'[k] # Absent => cache'[k].name # c
         /\ ~TaskNames(c)' /\ ~Watched(c)'
  <1> USE DEF HubTypeOK
  <1>0. /\ \A k \in Secrets : /\ secret[k] # Absent => secret[k].name # c
                              /\ cache[k] # Absent => cache[k].name # c
                              /\ active[k] # Absent => active[k].cluster # c
        /\ ~TaskNames(c)
    BY DEF Forgotten, Watched, ActiveKeys
  <1>1. ASSUME NEW k \in Secrets, UpsertCallback(k) \/ ResyncCallback(k)
        PROVE  /\ \A j \in Secrets : cache'[j] # Absent => cache'[j].name # c
               /\ ~TaskNames(c)' /\ ~Watched(c)'
    <2>1. /\ cache' \in [Secrets -> SecretObject \cup {Absent}]
          /\ \A j \in Secrets : cache'[j] \in {cache[j], secret[j]}
          /\ active' = active
          /\ cache'[k] # Absent
          /\ task' \in {NoTask, [at |-> "build", key |-> k, obj |-> cache'[k]]}
      BY <1>1 DEF UpsertCallback, ResyncCallback, EnterUpsert, TypeOK
    <2>2. cache'[k].name # c
      BY <1>0, <2>1
    <2>3. QED BY <1>0, <2>1, <2>2 DEF TaskNames, Watched, ActiveKeys
  <1>2. ASSUME NEW k \in Secrets, RemoveCallback(k)
        PROVE  /\ \A j \in Secrets : cache'[j] # Absent => cache'[j].name # c
               /\ ~TaskNames(c)' /\ ~Watched(c)'
    <2>1. \A j \in Secrets : /\ cache'[j] \in {cache[j], Absent}
                             /\ active'[j] \in {active[j], Absent}
      BY <1>2 DEF RemoveCallback, TypeOK
    <2>2. active[k] # Absent => task'.at = "countRemoved" /\ task'.entry = active[k]
      BY <1>2 DEF RemoveCallback, RemovedEntry
    <2>3. active[k] = Absent => task' = NoTask
      BY <1>2 DEF RemoveCallback
    <2>4. QED BY <1>0, <2>1, <2>2, <2>3 DEF TaskNames, Watched, ActiveKeys
  <1>3. ASSUME SkipSecret \/ Purge
        PROVE  /\ \A j \in Secrets : cache'[j] # Absent => cache'[j].name # c
               /\ ~TaskNames(c)' /\ ~Watched(c)'
    BY <1>0, <1>3 DEF SkipSecret, Purge, TaskNames, Watched, ActiveKeys
  <1>4. ASSUME Attach
        PROVE  /\ \A j \in Secrets : cache'[j] # Absent => cache'[j].name # c
               /\ ~TaskNames(c)' /\ ~Watched(c)'
    <2> DEFINE e == [cluster |-> task.obj.name, rv |-> task.obj.rv]
    <2>1. e.cluster # c
      BY <1>0, <1>4 DEF Attach, TaskNames
    <2>2. cache' = cache
      BY <1>4 DEF Attach
    <2>3. \A j \in Secrets : active'[j] \in {active[j], e}
      BY <1>4 DEF Attach, TypeOK
    <2>4. task' = NoTask \/ (task'.at = "count" /\ task'.entry = e)
      BY <1>4 DEF Attach
    <2> HIDE DEF e
    <2>5. QED BY <1>0, <2>1, <2>2, <2>3, <2>4 DEF TaskNames, Watched, ActiveKeys
  <1>5. ASSUME ReportCount
        PROVE  /\ \A j \in Secrets : cache'[j] # Absent => cache'[j].name # c
               /\ ~TaskNames(c)' /\ ~Watched(c)'
    <2>1. UNCHANGED <<cache, active>> /\ task.entry.cluster # c
      BY <1>0, <1>5 DEF ReportCount, TaskNames
    <2>2. \/ task'.at = "spawn" /\ task'.entry = task.entry
          \/ task'.at = "purge" /\ task'.cluster = task.entry.cluster
      BY <1>5 DEF ReportCount
    <2>3. QED BY <1>0, <2>1, <2>2 DEF TaskNames, Watched, ActiveKeys
  <1>6. ASSUME Spawn
        PROVE  /\ \A j \in Secrets : cache'[j] # Absent => cache'[j].name # c
               /\ ~TaskNames(c)' /\ ~Watched(c)'
    BY <1>0, <1>6 DEF Spawn, TaskNames, Watched, ActiveKeys
  <1>7. QED BY <1>1, <1>2, <1>3, <1>4, <1>5, <1>6 DEF Dispatch

\* Nothing happens to its rows.
LEMMA StepOfForgotten ==
  ASSUME HubTypeOK, [HubNext]_hubVars, NEW c \in Names, Forgotten(c),
         \A k \in Secrets : ~Registered(k, c)'
  PROVE  Forgotten(c)' /\ table'[c] = table[c]
  <1> USE DEF HubTypeOK
  <1>0. \A k \in Secrets : secret'[k] # Absent => secret'[k].name # c
    BY DEF Registered
  <1>1. ASSUME UNCHANGED <<cache, task, active, informers, flight, table>>
        PROVE  Forgotten(c)' /\ table'[c] = table[c]
    BY <1>0, <1>1 DEF Forgotten, TaskNames, Watched, ActiveKeys, UnderWay
  <1>2. CASE ApiStep \/ UNCHANGED hubVars \/ \E w \in watchers : WatcherStops(w)
    BY <1>1, <1>2 DEF ApiStep, ApiServer, WriteSecret, DeleteSecret, WatcherStops,
                      WatcherReturns, hubVars, vars, managerVars, eventVars
  <1>3. CASE DispatchStep \/ SpawnStep \/ AttachStep \/ PurgeSucceeds \/ PurgeFails
    <2>1. Dispatch
      BY <1>3 DEF DispatchStep, SpawnStep, AttachStep, PurgeSucceeds, PurgeFails, Dispatch
    <2>2. ~UnderWay(c)'
      <3>1. CASE SpawnStep
        <4>1. task.entry.cluster # c
          BY <3>1 DEF SpawnStep, Spawn, Forgotten, TaskNames
        <4>2. QED BY <3>1, <4>1 DEF SpawnStep, WatchOf, Forgotten, UnderWay
      <3>2. CASE ~SpawnStep
        BY <1>3, <3>2 DEF DispatchStep, AttachStep, PurgeSucceeds, PurgeFails, eventVars,
                          Forgotten, UnderWay
      <3>3. QED BY <3>1, <3>2
    <2>3. table'[c] = table[c]
      <3>1. PurgeSucceeds => task # NoTask /\ task.at = "purge" /\ task.cluster # c
        BY DEF PurgeSucceeds, Purge, Forgotten, TaskNames
      <3>2. QED BY <1>3, <3>1 DEF DispatchStep, SpawnStep, AttachStep, PurgeSucceeds,
                                  PurgeFails, eventVars
    <2>4. QED BY <1>0, <2>1, <2>2, <2>3, DispatchForOthers DEF Forgotten
  <1>4. CASE ProcessStep \/ HubEnds
    <2>1. /\ \A k \in Secrets : cache'[k] \in {cache[k], Absent} /\ active'[k] \in {active[k], Absent}
          /\ task' \in {task, NoTask} /\ informers' \subseteq informers
          /\ flight' \subseteq flight /\ table' = table
      BY <1>4 DEF ProcessStep, HubEnds, Cancel, StopAll, Start, ProcessEnds, NoSecrets,
                  managerVars, eventVars, Channel!LoseAll
    <2>2. QED BY <1>0, <2>1 DEF Forgotten, TaskNames, Watched, ActiveKeys, UnderWay
  <1>5. ASSUME NEW w \in informers, Emit(w)
        PROVE  Forgotten(c)' /\ table'[c] = table[c]
    <2>1. PICK row \in {Report, NoRow} : Channel!Send([key |-> w.cluster, row |-> row])
      BY <1>5 DEF Emit
    <2>2. UNCHANGED <<cache, task, active, informers, table>>
      BY <1>5, <2>1 DEF Emit, vars, managerVars, Channel!Send
    <2>3. w.cluster # c
      BY DEF Forgotten, UnderWay
    <2>4. QED BY <1>0, <2>1, <2>2, <2>3
              DEF Channel!Send, Forgotten, TaskNames, Watched, ActiveKeys, UnderWay
  <1>6. ASSUME NEW w \in informers, InformersEnd(w)
        PROVE  Forgotten(c)' /\ table'[c] = table[c]
    BY <1>0, <1>6 DEF InformersEnd, vars, managerVars, Forgotten, TaskNames, Watched,
                      ActiveKeys, UnderWay
  <1>7. ASSUME NEW e \in flight, Apply(e) \/ Drop(e)
        PROVE  Forgotten(c)' /\ table'[c] = table[c]
    <2>1. UNCHANGED <<cache, task, active, informers>> /\ flight' \subseteq flight
      BY <1>7 DEF Apply, Drop, vars, managerVars, Channel!Apply, Channel!Lose
    <2>2. table'[c] = table[c]
      <3>1. e.key # c
        BY DEF Forgotten, UnderWay
      <3>2. QED BY <1>7, <3>1 DEF Apply, Drop, Channel!Apply, Channel!Lose
    <2>3. QED BY <1>0, <2>1, <2>2
              DEF Forgotten, TaskNames, Watched, ActiveKeys, UnderWay
  <1>8. QED BY <1>2, <1>3, <1>4, <1>5, <1>6, <1>7 DEF HubNext, ReliableNext

\* A purge that left nothing behind is final; what a failed purge, a late event, a
\* renamed cluster or a Secret deleted while the hub is down leaves behind is
\* never cleaned up.
THEOREM ForgottenClustersStay == HubSpec => ForgottenStaysForgotten
  <1> DEFINE Stays == \A c \in Names :
        (Forgotten(c) /\ \A k \in Secrets : ~Registered(k, c)')
            => Forgotten(c)' /\ table'[c] = table[c]
  <1>1. HubTypeOK /\ [HubNext]_hubVars => [Stays]_hubVars
    BY StepOfForgotten
  <1>2. QED BY <1>1, HubTypeCorrect, PTL DEF HubSpec, ForgottenStaysForgotten

=============================================================================
