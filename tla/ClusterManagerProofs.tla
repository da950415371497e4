------------------------ MODULE ClusterManagerProofs ------------------------
(***************************************************************************)
(* Proofs about ClusterManager for every finite set of Secrets, every set   *)
(* of cluster names and every number of resource versions.                  *)
(***************************************************************************)
EXTENDS ClusterManager, FiniteSetTheorems, TLAPS

-----------------------------------------------------------------------------
(* The type invariant.                                                      *)

\* The number of keys in any part of the map fits the gauge.
LEMMA CountFits ==
  ASSUME NEW S \in SUBSET Secrets
  PROVE  Cardinality(S) \in 0..Cardinality(Secrets)
  <1>1. IsFiniteSet(Secrets)
    BY ManagerAssumption
  <1>2. IsFiniteSet(S) /\ Cardinality(S) <= Cardinality(Secrets)
    BY <1>1, FS_Subset
  <1>3. Cardinality(S) \in Nat /\ Cardinality(Secrets) \in Nat
    BY <1>1, <1>2, FS_CardinalityType
  <1>4. QED BY <1>2, <1>3

\* A Secret being handled is a Secret: the entry it makes is an entry, and
\* its watch a watch.
LEMMA BuildTask ==
  ASSUME TypeOK, task # NoTask, task.at = "build"
  PROVE  /\ task.key \in Secrets
         /\ task.obj \in SecretObject
         /\ task.obj.name # Unparsable =>
               /\ [cluster |-> task.obj.name, rv |-> task.obj.rv] \in Entry
               /\ WatchOf(task.key, [cluster |-> task.obj.name, rv |-> task.obj.rv]) \in Watch
  <1>1. task \in [at : {"build"}, key : Secrets, obj : SecretObject]
    BY DEF TypeOK, Task
  <1>2. QED BY <1>1 DEF SecretObject, Entry, Watch, WatchOf

\* A callback hands the dispatch goroutine a task or leaves it idle.
LEMMA EnterUpsertTask ==
  ASSUME NEW k \in Secrets, NEW s \in SecretObject, EnterUpsert(k, s)
  PROVE  task' \in Task \cup {NoTask}
  BY DEF EnterUpsert, Task

\* Type correctness, step by step: the first state ...
LEMMA InitTypeOK == Init => TypeOK
  <1>1. 0 \in 0..Cardinality(Secrets)
    BY ManagerAssumption, FS_CardinalityType
  <1>2. QED BY <1>1, ManagerAssumption DEF Init, TypeOK, NoSecrets

\* ... the critical section of upsert ...
LEMMA AttachTypeOK == TypeOK /\ Attach => TypeOK'
  <1> SUFFICES ASSUME TypeOK, Attach PROVE TypeOK'
    OBVIOUS
  <1> DEFINE k == task.key
             e == [cluster |-> task.obj.name, rv |-> task.obj.rv]
  <1>1. k \in Secrets /\ e \in Entry /\ WatchOf(k, e) \in Watch
    BY BuildTask DEF Attach
  <1>2. CASE active[k] # Absent /\ active[k].rv = e.rv
    <2>1. task' = NoTask /\ UNCHANGED <<active, uncancelled>>
      BY <1>2 DEF Attach
    <2>2. QED BY <2>1 DEF TypeOK, Attach, apiVars
  <1>3. CASE ~(active[k] # Absent /\ active[k].rv = e.rv)
    <2>1. /\ active' = [active EXCEPT ![k] = e]
          /\ uncancelled' = {w \in uncancelled : w.key # k} \cup {WatchOf(k, e)}
          /\ task' = [at |-> "count", key |-> k, entry |-> e,
                      count |-> Cardinality(ActiveKeys \cup {k})]
      BY <1>3 DEF Attach
    <2>2. Cardinality(ActiveKeys \cup {k}) \in 0..Cardinality(Secrets)
      BY <1>1, CountFits DEF ActiveKeys
    <2>3. task' \in Task
      BY <1>1, <2>1, <2>2 DEF Task
    <2>4. active' \in [Secrets -> Entry \cup {Absent}]
      BY <1>1, <2>1 DEF TypeOK
    <2>5. uncancelled' \subseteq Watch
      BY <1>1, <2>1 DEF TypeOK
    <2>6. QED BY <2>3, <2>4, <2>5 DEF TypeOK, Attach, apiVars
  <1>4. QED BY <1>2, <1>3

\* ... remove ...
LEMMA RemoveTypeOK ==
  ASSUME TypeOK, NEW k \in Secrets, RemoveCallback(k)
  PROVE  TypeOK'
  <1>1. gone' \subseteq {j \in Secrets : cache'[j] # Absent}
    BY DEF TypeOK, RemoveCallback
  <1>2. active' \in [Secrets -> Entry \cup {Absent}]
    BY DEF TypeOK, RemoveCallback
  <1>3. task' \in Task \cup {NoTask}
    <2>1. CASE active[k] = Absent
      BY <2>1 DEF RemoveCallback
    <2>2. CASE active[k] # Absent
      <3>1. active[k] \in Entry
        BY <2>2 DEF TypeOK
      <3>2. Cardinality(ActiveKeys \ {k}) \in 0..Cardinality(Secrets)
        BY CountFits DEF ActiveKeys
      <3>3. task' = [at |-> "countRemoved", entry |-> active[k],
                     count |-> Cardinality(ActiveKeys \ {k})]
        BY <2>2 DEF RemoveCallback, RemovedEntry
      <3>4. QED BY <3>1, <3>2, <3>3 DEF Task
    <2>3. QED BY <2>1, <2>2
  <1>4. QED BY <1>1, <1>2, <1>3 DEF TypeOK, RemoveCallback

\* ... and every step.
LEMMA StepTypeOK == TypeOK /\ [Next]_vars => TypeOK'
  <1> SUFFICES ASSUME TypeOK, [Next]_vars PROVE TypeOK'
    OBVIOUS
  <1>1. CASE ApiServer
    <2>1. ASSUME NEW k \in Secrets, WriteSecret(k) PROVE TypeOK'
      <3>1. revision' \in 1..MaxRevision
        BY <2>1, ManagerAssumption DEF WriteSecret, TypeOK
      <3>2. secret' \in [Secrets -> SecretObject \cup {Absent}]
        BY <2>1, <3>1 DEF WriteSecret, TypeOK, SecretObject
      <3>3. QED BY <2>1, <3>1, <3>2 DEF WriteSecret, TypeOK, managerVars
    <2>2. ASSUME NEW k \in Secrets, DeleteSecret(k) PROVE TypeOK'
      BY <2>2 DEF DeleteSecret, TypeOK, managerVars
    <2>3. QED BY <1>1, <2>1, <2>2 DEF ApiServer
  <1>2. CASE Dispatch
    <2>1. ASSUME NEW k \in Secrets, UpsertCallback(k) PROVE TypeOK'
      <3>1. secret[k] \in SecretObject
        BY <2>1 DEF UpsertCallback, TypeOK
      <3>2. task' \in Task \cup {NoTask}
        BY <2>1, <3>1, EnterUpsertTask DEF UpsertCallback
      <3>3. /\ cache' \in [Secrets -> SecretObject \cup {Absent}]
            /\ gone' \subseteq {j \in Secrets : cache'[j] # Absent}
        BY <2>1, <3>1 DEF UpsertCallback, TypeOK
      <3>4. QED BY <2>1, <3>2, <3>3 DEF UpsertCallback, TypeOK
    <2>2. ASSUME NEW k \in Secrets, ResyncCallback(k) PROVE TypeOK'
      <3>1. cache[k] \in SecretObject
        BY <2>2 DEF ResyncCallback, TypeOK
      <3>2. task' \in Task \cup {NoTask}
        BY <2>2, <3>1, EnterUpsertTask DEF ResyncCallback
      <3>3. QED BY <2>2, <3>2 DEF ResyncCallback, TypeOK, apiVars
    <2>3. ASSUME NEW k \in Secrets, RemoveCallback(k) PROVE TypeOK'
      BY <2>3, RemoveTypeOK
    <2>4. CASE SkipSecret
      BY <2>4 DEF SkipSecret, TypeOK, apiVars
    <2>5. CASE Attach
      BY <2>5, AttachTypeOK
    <2>6. CASE ReportCount
      <3>1. task \in [at : {"count"}, key : Secrets, entry : Entry, count : 0..Cardinality(Secrets)]
               \cup [at : {"countRemoved"}, entry : Entry, count : 0..Cardinality(Secrets)]
        BY <2>6 DEF ReportCount, TypeOK, Task
      <3>2. task' \in Task
        BY <2>6, <3>1 DEF ReportCount, Task, Entry
      <3>3. gauge' \in 0..Cardinality(Secrets)
        BY <2>6, <3>1 DEF ReportCount
      <3>4. QED BY <2>6, <3>2, <3>3 DEF ReportCount, TypeOK, apiVars
    <2>7. CASE Spawn
      <3>1. task \in [at : {"spawn"}, key : Secrets, entry : Entry]
        BY <2>7 DEF Spawn, TypeOK, Task
      <3>2. WatchOf(task.key, task.entry) \in Watch
        BY <3>1 DEF WatchOf, Watch, Entry
      <3>3. QED BY <2>7, <3>2 DEF Spawn, TypeOK, apiVars
    <2>8. CASE Purge
      BY <2>8 DEF Purge, TypeOK, apiVars
    <2>9. QED
      BY <1>2, <2>1, <2>2, <2>3, <2>4, <2>5, <2>6, <2>7, <2>8 DEF Dispatch
  <1>3. ASSUME NEW w \in watchers, WatcherReturns(w) PROVE TypeOK'
    BY <1>3 DEF WatcherReturns, TypeOK, apiVars
  <1>4. CASE Process
    <2>0. 0 \in 0..Cardinality(Secrets)
      BY ManagerAssumption, FS_CardinalityType
    <2>1. CASE Cancel
      BY <2>1 DEF Cancel, TypeOK, apiVars, managerVars
    <2>2. CASE StopAll
      BY <2>0, <2>2 DEF StopAll, TypeOK, apiVars, NoSecrets
    <2>3. CASE ProcessEnds
      BY <2>0, <2>3 DEF ProcessEnds, TypeOK, NoSecrets
    <2>4. CASE Start
      BY <2>4 DEF Start, TypeOK, apiVars, managerVars
    <2>5. QED BY <1>4, <2>1, <2>2, <2>3, <2>4 DEF Process
  <1>5. CASE UNCHANGED vars
    BY <1>5 DEF vars, apiVars, managerVars, TypeOK
  <1>6. QED BY <1>1, <1>2, <1>3, <1>4, <1>5 DEF Next

\* Every variable keeps its type: what the manager holds are Secrets, entries
\* and counts that fit.
THEOREM ManagerTypeCorrect == Spec => []TypeOK
  BY InitTypeOK, StepTypeOK, PTL DEF Spec

-----------------------------------------------------------------------------
(* No watcher leaks.                                                        *)

\* No watcher context outlives its entry: the first state ...
LEMMA InitNoLeakedWatcher == Init => NoLeakedWatcher
  BY DEF Init, NoLeakedWatcher, ActiveKeys, NoSecrets

\* Attaching cancels the watch it replaces, and only that one.
LEMMA AttachNoLeakedWatcher ==
  ASSUME TypeOK, NoLeakedWatcher, Attach
  PROVE  NoLeakedWatcher'
  <1> DEFINE k == task.key
             e == [cluster |-> task.obj.name, rv |-> task.obj.rv]
  <1>1. k \in Secrets /\ e \in Entry
    BY BuildTask DEF Attach
  <1>2. CASE active[k] # Absent /\ active[k].rv = e.rv
    <2>1. UNCHANGED <<active, uncancelled>>
      BY <1>2 DEF Attach
    <2>2. QED BY <2>1 DEF NoLeakedWatcher, ActiveKeys, WatchOf
  <1>3. CASE ~(active[k] # Absent /\ active[k].rv = e.rv)
    <2>1. /\ active' = [active EXCEPT ![k] = e]
          /\ uncancelled' = {w \in uncancelled : w.key # k} \cup {WatchOf(k, e)}
      BY <1>3 DEF Attach
    <2>2. /\ active'[k] = e
          /\ \A j \in Secrets \ {k} : active'[j] = active[j]
      BY <1>1, <2>1 DEF TypeOK
    <2>3. ActiveKeys' = ActiveKeys \cup {k}
      BY <1>1, <2>2, ManagerAssumption DEF ActiveKeys
    <2>4. {w \in uncancelled : w.key # k} = {WatchOf(j, active[j]) : j \in ActiveKeys \ {k}}
      BY DEF NoLeakedWatcher, WatchOf
    <2>5. {WatchOf(j, active[j]) : j \in ActiveKeys \ {k}}
             = {WatchOf(j, active'[j]) : j \in ActiveKeys \ {k}}
      BY <2>2 DEF ActiveKeys
    <2>6. QED BY <2>1, <2>2, <2>3, <2>4, <2>5 DEF NoLeakedWatcher
  <1>4. QED BY <1>2, <1>3

\* A removed Secret takes its watch along, and only that one.
LEMMA RemoveNoLeakedWatcher ==
  ASSUME TypeOK, NoLeakedWatcher, NEW k \in Secrets, RemoveCallback(k)
  PROVE  NoLeakedWatcher'
  <1>1. /\ active' = [active EXCEPT ![k] = Absent]
        /\ uncancelled' = {w \in uncancelled : w.key # k}
    BY DEF RemoveCallback
  <1>2. \A j \in Secrets : active'[j] = IF j = k THEN Absent ELSE active[j]
    BY <1>1 DEF TypeOK
  <1>3. ActiveKeys' = ActiveKeys \ {k}
    BY <1>2 DEF ActiveKeys
  <1>4. {w \in uncancelled : w.key # k} = {WatchOf(j, active[j]) : j \in ActiveKeys \ {k}}
    BY DEF NoLeakedWatcher, WatchOf
  <1>5. {WatchOf(j, active[j]) : j \in ActiveKeys \ {k}}
           = {WatchOf(j, active'[j]) : j \in ActiveKeys \ {k}}
    BY <1>2 DEF ActiveKeys
  <1>6. QED BY <1>1, <1>3, <1>4, <1>5 DEF NoLeakedWatcher

\* ... and no other step loses one.
LEMMA StepNoLeakedWatcher ==
  ASSUME TypeOK, NoLeakedWatcher, [Next]_vars
  PROVE  NoLeakedWatcher'
  <1>1. CASE UNCHANGED <<active, uncancelled>>
    BY <1>1 DEF NoLeakedWatcher, ActiveKeys, WatchOf
  <1>2. CASE Attach
    BY <1>2, AttachNoLeakedWatcher
  <1>3. ASSUME NEW k \in Secrets, RemoveCallback(k) PROVE NoLeakedWatcher'
    BY <1>3, RemoveNoLeakedWatcher
  <1>4. CASE StopAll
    <2>1. active' = NoSecrets /\ uncancelled' = {w \in uncancelled : active[w.key] = Absent}
      BY <1>4 DEF StopAll
    <2>2. uncancelled' = {}
      BY <2>1 DEF NoLeakedWatcher, ActiveKeys, WatchOf
    <2>3. ActiveKeys' = {}
      BY <2>1 DEF ActiveKeys, NoSecrets
    <2>4. QED BY <2>2, <2>3 DEF NoLeakedWatcher
  <1>5. CASE ProcessEnds
    BY <1>5 DEF ProcessEnds, NoLeakedWatcher, ActiveKeys, NoSecrets
  <1>6. CASE ApiServer
    BY <1>1, <1>6 DEF ApiServer, WriteSecret, DeleteSecret, managerVars
  <1>7. CASE (\E k \in Secrets : UpsertCallback(k) \/ ResyncCallback(k))
             \/ SkipSecret \/ ReportCount \/ Spawn \/ Purge
    BY <1>1, <1>7
    DEF UpsertCallback, ResyncCallback, SkipSecret, ReportCount, Spawn, Purge
  <1>8. CASE \E w \in watchers : WatcherReturns(w)
    BY <1>1, <1>8 DEF WatcherReturns
  <1>9. CASE Cancel \/ Start
    BY <1>1, <1>9 DEF Cancel, Start, managerVars
  <1>10. CASE UNCHANGED vars
    BY <1>1, <1>10 DEF vars, managerVars
  <1>11. QED
    BY <1>2, <1>3, <1>4, <1>5, <1>6, <1>7, <1>8, <1>9, <1>10 DEF Next, Dispatch, Process

\* Whatever the order of Secret events, failures and restarts, the contexts
\* nobody cancelled are those of the active map (upsert, remove, stopAll).
THEOREM WatchersNeverLeak == Spec => []NoLeakedWatcher
  BY InitTypeOK, StepTypeOK, InitNoLeakedWatcher, StepNoLeakedWatcher, PTL DEF Spec

-----------------------------------------------------------------------------
(* The gauge.                                                               *)

\* The gauge: the first state ...
LEMMA InitGaugeInv == Init => GaugeInv
  <1>1. ASSUME Init PROVE ActiveKeys = {}
    BY <1>1 DEF Init, ActiveKeys, NoSecrets
  <1>2. QED BY <1>1, FS_EmptySet DEF Init, GaugeInv, ActiveCount, NoSecrets

\* Attach leaves the count of the map it made with the callback.
LEMMA AttachGaugeInv ==
  ASSUME TypeOK, GaugeInv, Attach
  PROVE  GaugeInv'
  <1> DEFINE k == task.key
             e == [cluster |-> task.obj.name, rv |-> task.obj.rv]
  <1>0. phase # "down" /\ phase' = phase
    BY DEF GaugeInv, Attach
  <1>1. k \in Secrets /\ e \in Entry
    BY BuildTask DEF Attach
  <1>2. CASE active[k] # Absent /\ active[k].rv = e.rv
    <2>1. task' = NoTask /\ UNCHANGED <<active, gauge>>
      BY <1>2 DEF Attach
    <2>2. ActiveCount' = ActiveCount
      BY <2>1 DEF ActiveCount, ActiveKeys
    <2>3. phase = "running" => gauge = ActiveCount
      BY DEF GaugeInv, Attach
    <2>4. QED BY <1>0, <2>1, <2>2, <2>3 DEF GaugeInv
  <1>3. CASE ~(active[k] # Absent /\ active[k].rv = e.rv)
    <2>1. /\ active' = [active EXCEPT ![k] = e]
          /\ task' = [at |-> "count", key |-> k, entry |-> e,
                      count |-> Cardinality(ActiveKeys \cup {k})]
      BY <1>3 DEF Attach
    <2>2. \A j \in Secrets : active'[j] = IF j = k THEN e ELSE active[j]
      BY <1>1, <2>1 DEF TypeOK
    <2>3. ActiveKeys' = ActiveKeys \cup {k}
      BY <1>1, <2>2, ManagerAssumption DEF ActiveKeys
    <2>4. task'.count = ActiveCount' /\ task'.at = "count"
      BY <2>1, <2>3 DEF ActiveCount
    <2>5. task' # NoTask
      <3>1. task' \in Task
        BY <1>1, <2>1, CountFits DEF Task, ActiveKeys
      <3>2. QED BY <3>1, ManagerAssumption
    <2>6. QED BY <1>0, <2>4, <2>5 DEF GaugeInv
  <1>4. QED BY <1>2, <1>3

\* So does remove, unless the Secret had no entry.
LEMMA RemoveGaugeInv ==
  ASSUME TypeOK, GaugeInv, NEW k \in Secrets, RemoveCallback(k)
  PROVE  GaugeInv'
  <1>0. phase # "down" /\ phase' = phase
    BY DEF RemoveCallback
  <1>1. \A j \in Secrets : active'[j] = IF j = k THEN Absent ELSE active[j]
    BY DEF RemoveCallback, TypeOK
  <1>2. ActiveKeys' = ActiveKeys \ {k}
    BY <1>1 DEF ActiveKeys
  <1>3. CASE active[k] = Absent
    <2>1. task' = NoTask /\ gauge' = gauge
      BY <1>3 DEF RemoveCallback
    <2>2. ActiveCount' = ActiveCount
      BY <1>2, <1>3 DEF ActiveCount, ActiveKeys
    <2>3. phase = "running" => gauge = ActiveCount
      BY DEF GaugeInv, RemoveCallback
    <2>4. QED BY <1>0, <2>1, <2>2, <2>3 DEF GaugeInv
  <1>4. CASE active[k] # Absent
    <2>1. task' = [at |-> "countRemoved", entry |-> active[k],
                   count |-> Cardinality(ActiveKeys \ {k})]
      BY <1>4 DEF RemoveCallback, RemovedEntry
    <2>2. task'.count = ActiveCount' /\ task'.at = "countRemoved"
      BY <1>2, <2>1 DEF ActiveCount
    <2>3. active[k] \in Entry
      BY <1>4 DEF TypeOK
    <2>4. task' # NoTask
      <3>1. task' \in Task
        BY <2>1, <2>3, CountFits DEF Task, ActiveKeys
      <3>2. QED BY <3>1, ManagerAssumption
    <2>5. QED BY <1>0, <2>2, <2>4 DEF GaugeInv
  <1>5. QED BY <1>3, <1>4

\* A step that leaves the map and the gauge alone, and takes the dispatch
\* goroutine from one task that is not about to report to another.
LEMMA QuietGaugeInv ==
  ASSUME GaugeInv, UNCHANGED <<active, gauge, phase>>, phase # "down",
         task = NoTask \/ task.at \notin {"count", "countRemoved"},
         task' = NoTask \/ task'.at \notin {"count", "countRemoved"}
  PROVE  GaugeInv'
  BY DEF GaugeInv, ActiveCount, ActiveKeys

\* ... and so every step does.
LEMMA StepGaugeInv ==
  ASSUME TypeOK, GaugeInv, [Next]_vars
  PROVE  GaugeInv'
  <1>1. CASE UNCHANGED <<task, active, gauge, phase>>
    BY <1>1 DEF GaugeInv, ActiveCount, ActiveKeys
  <1>2. CASE Attach
    BY <1>2, AttachGaugeInv
  <1>3. ASSUME NEW k \in Secrets, RemoveCallback(k) PROVE GaugeInv'
    BY <1>3, RemoveGaugeInv
  <1>4. ASSUME NEW k \in Secrets, UpsertCallback(k) \/ ResyncCallback(k) PROVE GaugeInv'
    BY <1>4, QuietGaugeInv DEF UpsertCallback, ResyncCallback, EnterUpsert, apiVars
  <1>5. CASE SkipSecret \/ Spawn \/ Purge
    <2>1. phase # "down"
      BY <1>5 DEF GaugeInv, SkipSecret, Spawn, Purge
    <2>2. QED BY <1>5, <2>1, QuietGaugeInv DEF SkipSecret, Spawn, Purge
  <1>6. CASE ReportCount
    <2>1. phase # "down" /\ phase' = phase /\ active' = active
      BY <1>6 DEF GaugeInv, ReportCount
    <2>2. task' = NoTask \/ task'.at \notin {"count", "countRemoved"}
      BY <1>6 DEF ReportCount
    <2>3. phase = "running" => gauge' = ActiveCount
      BY <1>6 DEF ReportCount, GaugeInv
    <2>4. ActiveCount' = ActiveCount
      BY <2>1 DEF ActiveCount, ActiveKeys
    <2>5. QED BY <2>1, <2>2, <2>3, <2>4 DEF GaugeInv
  <1>7. CASE Cancel \/ StopAll
    BY <1>7 DEF Cancel, StopAll, GaugeInv
  <1>8. CASE ProcessEnds
    BY <1>8 DEF ProcessEnds, GaugeInv
  <1>9. CASE Start
    <2>1. active = NoSecrets /\ task = NoTask /\ gauge = 0 /\ UNCHANGED <<active, task, gauge>>
      BY <1>9 DEF Start, GaugeInv, managerVars
    <2>2. ActiveKeys' = {}
      BY <2>1 DEF ActiveKeys, NoSecrets
    <2>3. QED BY <1>9, <2>1, <2>2, FS_EmptySet DEF Start, GaugeInv, ActiveCount
  <1>10. CASE ApiServer
    BY <1>1, <1>10 DEF ApiServer, WriteSecret, DeleteSecret, managerVars
  <1>11. CASE \E w \in watchers : WatcherReturns(w)
    BY <1>1, <1>11 DEF WatcherReturns
  <1>12. CASE UNCHANGED vars
    BY <1>1, <1>12 DEF vars, managerVars
  <1>13. QED
    BY <1>2, <1>3, <1>4, <1>5, <1>6, <1>7, <1>8, <1>9, <1>10, <1>11, <1>12
    DEF Next, Dispatch, Process

\* The gauge settles on the size of the map although reportCount runs outside
\* the mutex: nothing else changes the map until the callback has reported.
THEOREM GaugeSettles == Spec => []GaugeIsActiveCount
  <1>1. GaugeInv => GaugeIsActiveCount
    BY DEF GaugeInv, GaugeIsActiveCount
  <1>2. QED
    BY <1>1, InitTypeOK, StepTypeOK, InitGaugeInv, StepGaugeInv, PTL DEF Spec

-----------------------------------------------------------------------------
(* What an entry of the map stands for.                                      *)

\* The informer's cache lags behind the API server and is never ahead of it; of
\* a Secret that is gone the informer still has the deletion to deliver.
CacheInv ==
    \A k \in Secrets :
        /\ secret[k] # Absent => secret[k].rv <= revision
        /\ cache[k] # Absent =>
              /\ cache[k].rv <= revision
              /\ secret[k] = Absent => k \in gone
              /\ secret[k] # Absent =>
                    /\ cache[k].rv <= secret[k].rv
                    /\ cache[k].rv = secret[k].rv => cache[k] = secret[k]

\* An entry is made from the cached Secret, or from one that it was before; the
\* callback in progress works on what is cached.
EntryInv ==
    /\ \A k \in Secrets : active[k] # Absent =>
          /\ cache[k] # Absent
          /\ active[k].rv <= cache[k].rv
          /\ active[k].rv = cache[k].rv => active[k].cluster = cache[k].name
    /\ task # NoTask /\ task.at = "build" => cache[task.key] = task.obj

\* While the manager runs, an entry has its goroutine, or the callback that made
\* it is about to start it.
ServedInv ==
    phase = "running" => \A k \in Secrets : active[k] # Absent =>
        \/ WatchOf(k, active[k]) \in watchers
        \/ /\ task # NoTask /\ task.at \in {"count", "spawn"}
           /\ task.key = k /\ task.entry = active[k]

\* A process that does not run has nothing.
DownInv ==
    phase = "down" =>
        active = NoSecrets /\ cache = NoSecrets /\ gone = {} /\ task = NoTask /\ watchers = {}

EntriesInv == TypeOK /\ NoLeakedWatcher /\ CacheInv /\ EntryInv /\ ServedInv /\ DownInv

\* Between callbacks of a running manager, the watchers that go on are those of
\* the entries of the map: none is missing, none is left over, none runs twice
\* (upsert, remove).
LiveWatchersAreEntries ==
    (task = NoTask /\ phase = "running") =>
        {w \in watchers : ~Cancelled(w)} = {WatchOf(k, active[k]) : k \in ActiveKeys}

\* The early return of upsert is right: an entry with the resource version of the
\* cached Secret watches the cluster of that Secret, and it does so already.
SameRevisionIsWatched ==
    (task = NoTask /\ phase = "running") =>
        \A k \in Secrets :
            (active[k] # Absent /\ active[k].rv = cache[k].rv) =>
                WatchOf(k, [cluster |-> cache[k].name, rv |-> cache[k].rv]) \in watchers

\* What a manager still watches although its Secret is gone, the informer is about
\* to have removed: no deletion is lost between the cache and the map.
GoneIsRemoved ==
    \A k \in Secrets : (active[k] # Absent /\ secret[k] = Absent) => k \in gone

\* The informer has delivered all there is about a Secret.
Delivered(k) == cache[k] = secret[k] /\ k \notin gone

\* A cluster that is watched as its Secret registers it stays so, whatever
\* happens to the other Secrets, until the Secret changes or the manager stops.
WatchedStaysWatched ==
    [][\A k \in Secrets :
          /\ Delivered(k) /\ WatchedAsRegistered(k)
          /\ secret'[k] = secret[k] /\ phase = "running" /\ phase' = "running"
          => Delivered(k)' /\ WatchedAsRegistered(k)']_vars

\* Versions are numbers, and no entry, Secret or task is taken for none.
LEMMA EntryFacts ==
  ASSUME TypeOK
  PROVE  /\ revision \in Nat
         /\ \A k \in Secrets : secret[k] # Absent => secret[k] \in SecretObject /\ secret[k].rv \in Nat
         /\ \A k \in Secrets : cache[k] # Absent => cache[k] \in SecretObject /\ cache[k].rv \in Nat
         /\ \A k \in Secrets : active[k] # Absent => active[k] \in Entry /\ active[k].rv \in Nat
  BY ManagerAssumption DEF TypeOK, SecretObject, Entry

LEMMA InitEntries == Init => EntriesInv
  <1> SUFFICES ASSUME Init PROVE EntriesInv
    OBVIOUS
  <1>1. TypeOK /\ NoLeakedWatcher
    BY InitTypeOK, InitNoLeakedWatcher
  <1>2. CacheInv /\ EntryInv /\ ServedInv /\ DownInv
    BY DEF Init, NoSecrets, CacheInv, EntryInv, ServedInv, DownInv
  <1>3. QED BY <1>1, <1>2 DEF EntriesInv

\* A Secret is written, at a version newer than any, or deleted.
LEMMA ApiKeepsEntries ==
  ASSUME EntriesInv, ApiServer
  PROVE  CacheInv' /\ EntryInv' /\ ServedInv' /\ DownInv'
  <1> USE DEF EntriesInv
  <1>1. UNCHANGED <<managerVars, phase>>
    BY DEF ApiServer, WriteSecret, DeleteSecret
  <1>2. EntryInv' /\ ServedInv'
    BY <1>1 DEF EntryInv, ServedInv, managerVars, WatchOf
  <1>3. ASSUME NEW k \in Secrets, WriteSecret(k) PROVE CacheInv' /\ DownInv'
    <2>1. /\ revision' = revision + 1 /\ secret'[k].rv = revision + 1
          /\ \A j \in Secrets \ {k} : secret'[j] = secret[j]
          /\ UNCHANGED gone
      BY <1>3 DEF WriteSecret, TypeOK
    <2>2. secret'[k] # Absent
      <3>1. secret'[k] \in SecretObject
        <4>1. PICK n \in Names \cup {Unparsable} : secret' = [secret EXCEPT ![k] = [name |-> n, rv |-> revision']]
          BY <1>3 DEF WriteSecret
        <4>2. revision' \in 1..MaxRevision
          BY <1>3, ManagerAssumption DEF WriteSecret, TypeOK
        <4>3. QED BY <4>1, <4>2 DEF TypeOK, SecretObject
      <3>2. QED BY <3>1, ManagerAssumption
    <2>3. cache' = cache
      BY <1>1 DEF managerVars
    <2>4. CacheInv'
      <3> SUFFICES ASSUME NEW j \in Secrets
                   PROVE  /\ secret'[j] # Absent => secret'[j].rv <= revision'
                          /\ cache'[j] # Absent =>
                                /\ cache'[j].rv <= revision'
                                /\ secret'[j] = Absent => j \in gone'
                                /\ secret'[j] # Absent =>
                                      /\ cache'[j].rv <= secret'[j].rv
                                      /\ cache'[j].rv = secret'[j].rv => cache'[j] = secret'[j]
        BY DEF CacheInv
      <3>1. CASE j = k
        BY <2>1, <2>2, <2>3, <3>1, EntryFacts DEF CacheInv
      <3>2. CASE j # k
        BY <2>1, <2>3, <3>2, EntryFacts DEF CacheInv
      <3>3. QED BY <3>1, <3>2
    <2>5. QED BY <1>1, <2>1, <2>4 DEF DownInv, managerVars
  <1>4. ASSUME NEW k \in Secrets, DeleteSecret(k) PROVE CacheInv' /\ DownInv'
    <2>1. /\ secret'[k] = Absent /\ \A j \in Secrets \ {k} : secret'[j] = secret[j]
          /\ gone' = (IF cache[k] = Absent THEN gone ELSE gone \cup {k})
          /\ UNCHANGED <<revision, cache, active, task, watchers, phase>>
      BY <1>4 DEF DeleteSecret, TypeOK, managerVars
    <2>2. CacheInv'
      BY <2>1 DEF CacheInv
    <2>3. DownInv'
      BY <2>1 DEF DownInv, NoSecrets
    <2>4. QED BY <2>2, <2>3
  <1>5. QED BY <1>2, <1>3, <1>4 DEF ApiServer

\* A callback begins: what the cache has of the Secret is that version, or newer.
LEMMA UpsertKeepsEntries ==
  ASSUME EntriesInv, NEW k \in Secrets, UpsertCallback(k) \/ ResyncCallback(k)
  PROVE  CacheInv' /\ EntryInv' /\ ServedInv' /\ DownInv'
  <1> USE DEF EntriesInv
  <1>1. /\ UNCHANGED <<secret, revision, active, watchers, phase>>
        /\ phase # "down" /\ task = NoTask
    BY DEF UpsertCallback, ResyncCallback, apiVars
  <1>2. /\ cache'[k] # Absent /\ EnterUpsert(k, cache'[k])
        /\ \A j \in Secrets \ {k} : cache'[j] = cache[j] /\ (j \in gone <=> j \in gone')
        /\ \/ cache'[k] = cache[k] /\ (k \in gone <=> k \in gone')
           \/ cache'[k] = secret[k] /\ secret[k] # cache[k]
    BY DEF UpsertCallback, ResyncCallback, apiVars, TypeOK
  <1>3. cache[k] # Absent => cache[k].rv <= cache'[k].rv /\ (cache[k].rv = cache'[k].rv => cache'[k] = cache[k])
    BY <1>2, EntryFacts DEF CacheInv
  <1>4. CacheInv'
    BY <1>1, <1>2, EntryFacts DEF CacheInv
  <1>5. task' \in {NoTask, [at |-> "build", key |-> k, obj |-> cache'[k]]}
    BY <1>2 DEF EnterUpsert
  <1>6. EntryInv'
    <2>1. cache'[k] # Absent => cache'[k].rv \in Nat
      BY <1>2, EntryFacts
    <2>2. ASSUME NEW j \in Secrets, active'[j] # Absent
          PROVE  /\ cache'[j] # Absent
                 /\ active'[j].rv <= cache'[j].rv
                 /\ active'[j].rv = cache'[j].rv => active'[j].cluster = cache'[j].name
      BY <1>1, <1>2, <1>3, <2>1, <2>2, EntryFacts DEF EntryInv
    <2>3. task' # NoTask /\ task'.at = "build" => cache'[task'.key] = task'.obj
      BY <1>5
    <2>4. QED BY <2>2, <2>3 DEF EntryInv
  <1>7. ServedInv'
    BY <1>1 DEF ServedInv, WatchOf
  <1>8. QED BY <1>1, <1>4, <1>6, <1>7 DEF DownInv

\* A deletion is delivered, and takes the entry along.
LEMMA RemoveKeepsEntries ==
  ASSUME EntriesInv, NEW k \in Secrets, RemoveCallback(k)
  PROVE  CacheInv' /\ EntryInv' /\ ServedInv' /\ DownInv'
  <1> USE DEF EntriesInv
  <1>1. /\ UNCHANGED <<secret, revision, watchers, phase>>
        /\ phase # "down" /\ task = NoTask /\ gone' = gone \ {k}
        /\ cache'[k] = Absent /\ active'[k] = Absent
        /\ \A j \in Secrets \ {k} : cache'[j] = cache[j] /\ active'[j] = active[j]
    BY DEF RemoveCallback, TypeOK
  <1>2. CacheInv'
    BY <1>1 DEF CacheInv
  <1>3. task' # NoTask => task'.at = "countRemoved"
    BY DEF RemoveCallback
  <1>4. EntryInv'
    BY <1>1, <1>3 DEF EntryInv
  <1>5. ServedInv'
    BY <1>1 DEF ServedInv, WatchOf
  <1>6. QED BY <1>1, <1>2, <1>4, <1>5 DEF DownInv

\* The critical section of upsert makes the entry of the cached Secret.
LEMMA AttachKeepsEntries ==
  ASSUME EntriesInv, Attach
  PROVE  CacheInv' /\ EntryInv' /\ ServedInv' /\ DownInv'
  <1> USE DEF EntriesInv
  <1> DEFINE k == task.key
             e == [cluster |-> task.obj.name, rv |-> task.obj.rv]
  <1>1. k \in Secrets /\ e \in Entry /\ cache[k] = task.obj
    BY BuildTask DEF Attach, EntryInv
  <1>2. UNCHANGED <<secret, revision, gone, cache, watchers, phase>> /\ task # NoTask /\ task.at = "build"
    BY DEF Attach, apiVars
  <1>3. CacheInv'
    BY <1>2 DEF CacheInv
  <1>4. phase # "down"
    BY <1>2 DEF DownInv
  <1>5. CASE active[k] # Absent /\ active[k].rv = e.rv
    <2>1. task' = NoTask /\ UNCHANGED active
      BY <1>5 DEF Attach
    <2>2. EntryInv'
      BY <1>2, <2>1 DEF EntryInv
    <2>3. ServedInv'
      BY <1>2, <2>1 DEF ServedInv, WatchOf
    <2>4. QED BY <1>2, <1>3, <1>4, <2>2, <2>3 DEF DownInv
  <1>6. CASE ~(active[k] # Absent /\ active[k].rv = e.rv)
    <2>1. /\ active' = [active EXCEPT ![k] = e]
          /\ task' = [at |-> "count", key |-> k, entry |-> e,
                      count |-> Cardinality(ActiveKeys \cup {k})]
      BY <1>6 DEF Attach
    <2>2. active'[k] = e /\ \A j \in Secrets \ {k} : active'[j] = active[j]
      BY <1>1, <2>1 DEF TypeOK
    <2>3. task'.at = "count" /\ task'.key = k /\ task'.entry = e
      BY <2>1
    <2>4. task' # NoTask
      <3>1. task' \in Task
        BY <1>1, <2>1, CountFits DEF Task, ActiveKeys
      <3>2. QED BY <3>1, ManagerAssumption
    <2>5. cache[k] # Absent /\ e.rv = cache[k].rv /\ e.cluster = cache[k].name /\ e.rv \in Nat
      <3>1. task.obj \in SecretObject
        BY <1>2, BuildTask
      <3>2. QED BY <1>1, <3>1, ManagerAssumption DEF SecretObject
    <2> HIDE DEF k, e
    <2>6. EntryInv'
      BY <1>2, <2>2, <2>3, <2>5 DEF EntryInv
    <2>7. ServedInv'
      BY <1>2, <2>2, <2>3, <2>4 DEF ServedInv, WatchOf
    <2>8. QED BY <1>2, <1>3, <1>4, <2>6, <2>7 DEF DownInv
  <1>7. QED BY <1>5, <1>6

\* The rest of a callback: the count is reported, the goroutine is started.
LEMMA CallbackKeepsEntries ==
  ASSUME EntriesInv, SkipSecret \/ ReportCount \/ Spawn \/ Purge
  PROVE  CacheInv' /\ EntryInv' /\ ServedInv' /\ DownInv'
  <1> USE DEF EntriesInv
  <1>1. UNCHANGED <<secret, revision, gone, cache, active, phase>> /\ task # NoTask
    BY DEF SkipSecret, ReportCount, Spawn, Purge, apiVars
  <1>2. phase # "down"
    BY <1>1 DEF DownInv
  <1>3. CacheInv'
    BY <1>1 DEF CacheInv
  <1>4. task' # NoTask => task'.at # "build"
    BY DEF SkipSecret, ReportCount, Spawn, Purge
  <1>5. EntryInv'
    BY <1>1, <1>4 DEF EntryInv
  <1>6. ServedInv'
    <2>1. CASE SkipSecret \/ Purge
      BY <1>1, <2>1 DEF SkipSecret, Purge, ServedInv, WatchOf
    <2>2. CASE ReportCount
      <3>1. watchers' = watchers
        BY <2>2 DEF ReportCount
      <3>2. task.at = "count" => /\ task'.at = "spawn" /\ task'.key = task.key /\ task'.entry = task.entry
                                 /\ task' # NoTask
        <4>1. task.at = "count" => task \in [at : {"count"}, key : Secrets, entry : Entry, count : 0..Cardinality(Secrets)]
          BY <1>1 DEF TypeOK, Task
        <4>2. task.at = "count" => task' = [at |-> "spawn", key |-> task.key, entry |-> task.entry]
          BY <2>2 DEF ReportCount
        <4>3. task.at = "count" => task' \in Task
          BY <4>1, <4>2 DEF Task
        <4>4. QED BY <4>2, <4>3, ManagerAssumption
      <3>3. task.at \in {"count", "countRemoved"}
        BY <2>2 DEF ReportCount
      <3>4. QED BY <1>1, <3>1, <3>2, <3>3 DEF ServedInv, WatchOf
    <2>3. CASE Spawn
      <3>1. watchers' = watchers \cup {WatchOf(task.key, task.entry)} /\ task.at = "spawn"
        BY <2>3 DEF Spawn
      <3>2. QED BY <1>1, <3>1 DEF ServedInv, WatchOf
    <2>4. QED BY <2>1, <2>2, <2>3
  <1>7. QED BY <1>1, <1>2, <1>3, <1>5, <1>6 DEF DownInv

\* A watcher that returns was cancelled: while the manager runs it belongs to no
\* entry.
LEMMA ReturnKeepsEntries ==
  ASSUME EntriesInv, NEW w \in watchers, WatcherReturns(w)
  PROVE  CacheInv' /\ EntryInv' /\ ServedInv' /\ DownInv'
  <1> USE DEF EntriesInv
  <1>1. /\ UNCHANGED <<secret, revision, gone, cache, task, active, phase>>
        /\ watchers' = watchers \ {w} /\ Cancelled(w)
    BY DEF WatcherReturns, apiVars
  <1>2. CacheInv' /\ EntryInv'
    BY <1>1 DEF CacheInv, EntryInv
  <1>3. phase = "running" => \A k \in Secrets : active[k] # Absent => WatchOf(k, active[k]) # w
    BY <1>1 DEF Cancelled, NoLeakedWatcher, ActiveKeys
  <1>4. ServedInv'
    BY <1>1, <1>3 DEF ServedInv, WatchOf
  <1>5. DownInv'
    BY <1>1 DEF DownInv
  <1>6. QED BY <1>2, <1>4, <1>5

LEMMA ProcessKeepsEntries ==
  ASSUME EntriesInv, Process
  PROVE  CacheInv' /\ EntryInv' /\ ServedInv' /\ DownInv'
  <1> USE DEF EntriesInv
  <1>1. CASE Cancel
    BY <1>1 DEF Cancel, apiVars, managerVars, CacheInv, EntryInv, ServedInv, DownInv
  <1>2. CASE StopAll
    BY <1>2 DEF StopAll, apiVars, NoSecrets, CacheInv, EntryInv, ServedInv, DownInv
  <1>3. CASE ProcessEnds
    BY <1>3 DEF ProcessEnds, NoSecrets, CacheInv, EntryInv, ServedInv, DownInv
  <1>4. CASE Start
    BY <1>4 DEF Start, apiVars, managerVars, NoSecrets, CacheInv, EntryInv, ServedInv, DownInv
  <1>5. QED BY <1>1, <1>2, <1>3, <1>4 DEF Process

LEMMA StepEntries == EntriesInv /\ [Next]_vars => EntriesInv'
  <1> SUFFICES ASSUME EntriesInv, [Next]_vars PROVE EntriesInv'
    OBVIOUS
  <1>1. TypeOK' /\ NoLeakedWatcher'
    BY StepTypeOK, StepNoLeakedWatcher DEF EntriesInv
  <1>2. CASE UNCHANGED vars
    BY <1>1, <1>2
    DEF vars, apiVars, managerVars, EntriesInv, CacheInv, EntryInv, ServedInv, DownInv, WatchOf
  <1>3. CASE Next
    <2>1. CacheInv' /\ EntryInv' /\ ServedInv' /\ DownInv'
      BY <1>3, ApiKeepsEntries, UpsertKeepsEntries, RemoveKeepsEntries, AttachKeepsEntries,
         CallbackKeepsEntries, ReturnKeepsEntries, ProcessKeepsEntries
      DEF Next, Dispatch
    <2>2. QED BY <1>1, <2>1 DEF EntriesInv
  <1>4. QED BY <1>2, <1>3

LEMMA EntriesInvariant == Spec => []EntriesInv
  BY InitEntries, StepEntries, PTL DEF Spec

\* Whatever the order of Secret events, failures, resyncs and restarts: between
\* callbacks the goroutines that go on are exactly those of the map (upsert,
\* remove, and the goroutine that upsert starts outside the mutex).
THEOREM LiveWatchersAreThoseOfEntries == Spec => []LiveWatchersAreEntries
  <1>1. EntriesInv => LiveWatchersAreEntries
    BY DEF EntriesInv, ServedInv, NoLeakedWatcher, LiveWatchersAreEntries, Cancelled, ActiveKeys
  <1>2. QED BY <1>1, EntriesInvariant, PTL

\* upsert may skip a Secret whose resource version it has an entry for: what it
\* would start runs already.
THEOREM UpToDateIsWatched == Spec => []SameRevisionIsWatched
  <1>1. EntriesInv => SameRevisionIsWatched
    <2> SUFFICES ASSUME EntriesInv, task = NoTask, phase = "running",
                        NEW k \in Secrets, active[k] # Absent, active[k].rv = cache[k].rv
                 PROVE  WatchOf(k, [cluster |-> cache[k].name, rv |-> cache[k].rv]) \in watchers
      BY DEF SameRevisionIsWatched
    <2>1. WatchOf(k, active[k]) \in watchers
      BY DEF EntriesInv, ServedInv
    <2>2. active[k].cluster = cache[k].name
      BY DEF EntriesInv, EntryInv
    <2>3. QED BY <2>1, <2>2 DEF WatchOf
  <1>2. QED BY <1>1, EntriesInvariant, PTL

\* No deletion is lost on its way from the API server to the map.
THEOREM GoneAreRemoved == Spec => []GoneIsRemoved
  <1>1. EntriesInv => GoneIsRemoved
    BY DEF EntriesInv, EntryInv, CacheInv, GoneIsRemoved
  <1>2. QED BY <1>1, EntriesInvariant, PTL

\* The half of RegisteredIsWatched that needs no fairness: once a cluster is
\* watched as its Secret registers it, only that Secret or the end of the manager
\* changes this.
THEOREM WatchedStays == Spec => WatchedStaysWatched
  <1> DEFINE Stays(k) ==
        /\ Delivered(k) /\ WatchedAsRegistered(k)
        /\ secret'[k] = secret[k] /\ phase = "running" /\ phase' = "running"
        => Delivered(k)' /\ WatchedAsRegistered(k)'
  <1>1. EntriesInv /\ [Next]_vars => [\A k \in Secrets : Stays(k)]_vars
    <2> SUFFICES ASSUME EntriesInv, Next, NEW k \in Secrets,
                        Delivered(k), WatchedAsRegistered(k),
                        secret'[k] = secret[k], phase = "running", phase' = "running"
                 PROVE  Delivered(k)' /\ WatchedAsRegistered(k)'
      BY DEF Delivered
    <2> USE DEF EntriesInv
    <2>1. /\ cache[k] = secret[k] /\ k \notin gone /\ secret[k] # Absent /\ active[k] # Absent
          /\ active[k] = [cluster |-> secret[k].name, rv |-> secret[k].rv]
          /\ WatchOf(k, active[k]) \in watchers
      BY DEF Delivered, WatchedAsRegistered
    <2>2. SUFFICES /\ cache'[k] = cache[k] /\ k \notin gone'
                   /\ active'[k] = active[k] /\ WatchOf(k, active[k]) \in watchers'
      BY <2>1, <2>2 DEF Delivered, WatchedAsRegistered, WatchOf
    <2>3. CASE ApiServer
      <3>1. UNCHANGED managerVars
        BY <2>3 DEF ApiServer, WriteSecret, DeleteSecret
      <3>2. k \notin gone'
        <4>1. ASSUME NEW j \in Secrets, DeleteSecret(j) PROVE j # k /\ gone' \subseteq gone \cup {j}
          BY <2>1, <4>1 DEF DeleteSecret, TypeOK
        <4>2. ASSUME NEW j \in Secrets, WriteSecret(j) PROVE gone' = gone
          BY <4>2 DEF WriteSecret
        <4>3. QED BY <2>1, <2>3, <4>1, <4>2 DEF ApiServer
      <3>3. QED BY <2>1, <3>1, <3>2 DEF managerVars
    <2>4. ASSUME NEW j \in Secrets, UpsertCallback(j) \/ ResyncCallback(j)
          PROVE  /\ cache'[k] = cache[k] /\ k \notin gone'
                 /\ active'[k] = active[k] /\ WatchOf(k, active[k]) \in watchers'
      BY <2>1, <2>4 DEF UpsertCallback, ResyncCallback, TypeOK, apiVars
    <2>5. ASSUME NEW j \in Secrets, RemoveCallback(j)
          PROVE  /\ cache'[k] = cache[k] /\ k \notin gone'
                 /\ active'[k] = active[k] /\ WatchOf(k, active[k]) \in watchers'
      BY <2>1, <2>5 DEF RemoveCallback, TypeOK
    <2>6. CASE Attach
      <3>1. task.key \in Secrets /\ cache[task.key] = task.obj
        BY <2>6, BuildTask DEF Attach, EntryInv
      <3>2. CASE task.key = k
        <4>1. UNCHANGED active
          BY <2>1, <2>6, <3>1, <3>2 DEF Attach
        <4>2. QED BY <2>1, <2>6, <4>1 DEF Attach, apiVars
      <3>3. CASE task.key # k
        <4>1. active'[k] = active[k]
          BY <2>6, <3>1, <3>3 DEF Attach, TypeOK
        <4>2. QED BY <2>1, <2>6, <4>1 DEF Attach, apiVars
      <3>4. QED BY <3>2, <3>3
    <2>7. CASE SkipSecret \/ ReportCount \/ Spawn \/ Purge
      BY <2>1, <2>7 DEF SkipSecret, ReportCount, Spawn, Purge, apiVars
    <2>8. ASSUME NEW w \in watchers, WatcherReturns(w)
          PROVE  /\ cache'[k] = cache[k] /\ k \notin gone'
                 /\ active'[k] = active[k] /\ WatchOf(k, active[k]) \in watchers'
      <3>1. Cancelled(w) /\ watchers' = watchers \ {w} /\ UNCHANGED <<gone, cache, active>>
        BY <2>8 DEF WatcherReturns, apiVars
      <3>2. WatchOf(k, active[k]) \in uncancelled
        BY <2>1 DEF NoLeakedWatcher, ActiveKeys
      <3>3. w # WatchOf(k, active[k])
        BY <3>1, <3>2 DEF Cancelled
      <3>4. QED BY <2>1, <3>1, <3>3
    <2>9. CASE Process
      BY <2>9 DEF Process, Cancel, StopAll, ProcessEnds, Start
    <2>10. QED BY <2>3, <2>4, <2>5, <2>6, <2>7, <2>8, <2>9 DEF Next, Dispatch
  <1>2. QED BY <1>1, EntriesInvariant, PTL DEF Spec, WatchedStaysWatched

=============================================================================
