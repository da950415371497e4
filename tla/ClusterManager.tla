---------------------------- MODULE ClusterManager ----------------------------
(***************************************************************************)
(* The Secret-driven manager of scraper mode (internal/hub/manager.go): one *)
(* watcher per cluster-registration Secret.  Secret events are delivered    *)
(* one at a time by the dispatch goroutine; stopAll runs beside it on the   *)
(* goroutine of Run.  A callback holds the mutex in sections, so a step     *)
(* below is one section, or what runs between two of them.                  *)
(***************************************************************************)
EXTENDS Naturals, FiniteSets

CONSTANTS
    Secrets,       \* keys namespace/name of registration Secrets
    Names,         \* cluster names
    Unparsable,    \* the data of a Secret that ParseClusterSecret rejects
    MaxRevision,   \* bound: resource versions the API server hands out
    Absent,        \* no Secret, no entry
    NoTask         \* the dispatch goroutine is between callbacks

\* A Secret as an informer sees it: the cluster name its data parses to.
SecretObject == [name : Names \cup {Unparsable}, rv : 1..MaxRevision]

\* clusterWatch, an entry of the active map.
Entry == [cluster : Names, rv : 1..MaxRevision]

\* How far a callback of the dispatch goroutine is.
Task ==
    [at : {"build"}, key : Secrets, obj : SecretObject]
        \cup [at : {"count"}, key : Secrets, entry : Entry, count : 0..Cardinality(Secrets)]
        \cup [at : {"countRemoved"}, entry : Entry, count : 0..Cardinality(Secrets)]
        \cup [at : {"spawn"}, key : Secrets, entry : Entry]
        \cup [at : {"purge"}, cluster : Names]

ASSUME ManagerAssumption ==
    /\ IsFiniteSet(Secrets)
    /\ MaxRevision \in Nat
    /\ Unparsable \notin Names
    /\ Absent \notin SecretObject \cup Entry
    /\ NoTask \notin Task

VARIABLES
    secret,      \* the Secrets as the API server has them
    revision,    \* the last resource version handed out
    gone,        \* the keys deleted since their last callback
    cache,       \* the Secret informer's cache: each key at its last callback
    task,        \* the callback the dispatch goroutine runs, and how far it is
    active,      \* Manager.active
    uncancelled, \* the watches whose own cancel function was never called
    watchers,    \* the watcher goroutines that have started and not returned
    gauge,       \* the watched-clusters gauge
    phase        \* "running", "stopping" (ctx done), "stopped" (Run returned), "down"

managerVars == <<cache, task, active, uncancelled, watchers, gauge>>
apiVars == <<secret, revision, gone>>
vars == <<apiVars, managerVars, phase>>

-----------------------------------------------------------------------------

\* A watch: the context and the goroutine that one Attach makes.
Watch == [key : Secrets, cluster : Names, rv : 1..MaxRevision]

\* Mutant: the purge goes by the data of the deleted Secret.
RemovedEntryByData(k) ==
    [active[k] EXCEPT !.cluster =
        IF cache[k].name = Unparsable THEN @ ELSE cache[k].name]

\* remove works on the entry of the active map, not on the deleted Secret.
RemovedEntry(k) == active[k]

\* The watch an entry of the active map stands for.
WatchOf(k, e) == [key |-> k, cluster |-> e.cluster, rv |-> e.rv]

ActiveKeys == {k \in Secrets : active[k] # Absent}
ActiveCount == Cardinality(ActiveKeys)

NoSecrets == [k \in Secrets |-> Absent]

Init ==
    /\ secret = NoSecrets
    /\ revision = 0
    /\ gone = {}
    /\ cache = NoSecrets
    /\ task = NoTask
    /\ active = NoSecrets
    /\ uncancelled = {}
    /\ watchers = {}
    /\ gauge = 0
    /\ phase = "running"

-----------------------------------------------------------------------------
(* The API server (external): Secrets are created, edited and deleted.      *)

WriteSecret(k) ==
    /\ revision < MaxRevision
    /\ revision' = revision + 1
    /\ \E n \in Names \cup {Unparsable} :
          secret' = [secret EXCEPT ![k] = [name |-> n, rv |-> revision']]
    /\ UNCHANGED <<gone, managerVars, phase>>

DeleteSecret(k) ==
    /\ secret[k] # Absent
    /\ secret' = [secret EXCEPT ![k] = Absent]
    /\ gone' = IF cache[k] = Absent THEN gone ELSE gone \cup {k}
    /\ UNCHANGED <<revision, managerVars, phase>>

(***************************************************************************)
(* The dispatch goroutine.                                                  *)
(***************************************************************************)

\* Mutant: a Secret that has a watcher is taken for up to date.
EnterUpsertOnce(k, s) ==
    task' = IF active[k] # Absent THEN NoTask ELSE [at |-> "build", key |-> k, obj |-> s]

\* upsert, up to the end of its first section: an entry with the Secret's
\* resource version is up to date.
EnterUpsert(k, s) ==
    task' = IF active[k] # Absent /\ active[k].rv = s.rv
            THEN NoTask
            ELSE [at |-> "build", key |-> k, obj |-> s]

\* AddFunc or UpdateFunc for a Secret added or changed.  A deletion and a new
\* Secret in a gap of the watch look like a change.
UpsertCallback(k) ==
    /\ phase # "down" /\ task = NoTask
    /\ secret[k] \notin {Absent, cache[k]}
    /\ cache' = [cache EXCEPT ![k] = secret[k]]
    /\ gone' = gone \ {k}
    /\ EnterUpsert(k, secret[k])
    /\ UNCHANGED <<secret, revision, active, uncancelled, watchers, gauge, phase>>

\* The ten-minute resync calls UpdateFunc for every cached Secret.
ResyncCallback(k) ==
    /\ phase # "down" /\ task = NoTask
    /\ cache[k] # Absent
    /\ EnterUpsert(k, cache[k])
    /\ UNCHANGED <<apiVars, cache, active, uncancelled, watchers, gauge, phase>>

\* upsert gives up: the Secret does not parse or its client cannot be built.
\* A watcher of an older revision stays.
SkipSecret ==
    /\ task # NoTask /\ task.at = "build"
    /\ task' = NoTask
    /\ UNCHANGED <<apiVars, cache, active, uncancelled, watchers, gauge, phase>>

\* Mutant: the watcher of the old revision is replaced but not cancelled.
AttachForgetsCancel ==
    /\ task # NoTask /\ task.at = "build" /\ task.obj.name # Unparsable
    /\ LET k == task.key
           e == [cluster |-> task.obj.name, rv |-> task.obj.rv]
       IN  /\ active' = [active EXCEPT ![k] = e]
           /\ uncancelled' = uncancelled \cup {WatchOf(k, e)}
           /\ task' = [at |-> "count", key |-> k, entry |-> e,
                       count |-> Cardinality(ActiveKeys \cup {k})]
    /\ UNCHANGED <<apiVars, cache, watchers, gauge, phase>>

\* Mutant: the count is taken before the new entry is in the map.
AttachCountsFirst ==
    /\ task # NoTask /\ task.at = "build" /\ task.obj.name # Unparsable
    /\ LET k == task.key
           e == [cluster |-> task.obj.name, rv |-> task.obj.rv]
       IN  /\ active' = [active EXCEPT ![k] = e]
           /\ uncancelled' = {w \in uncancelled : w.key # k} \cup {WatchOf(k, e)}
           /\ task' = [at |-> "count", key |-> k, entry |-> e, count |-> ActiveCount]
    /\ UNCHANGED <<apiVars, cache, watchers, gauge, phase>>

\* Mutant: a Secret that does not parse is logged and attached all the same.
AttachUnparsed ==
    /\ task # NoTask /\ task.at = "build"
    /\ LET k == task.key
           e == [cluster |-> task.obj.name, rv |-> task.obj.rv]
       IN  /\ active' = [active EXCEPT ![k] = e]
           /\ uncancelled' = {w \in uncancelled : w.key # k} \cup {WatchOf(k, e)}
           /\ task' = [at |-> "count", key |-> k, entry |-> e,
                       count |-> Cardinality(ActiveKeys \cup {k})]
    /\ UNCHANGED <<apiVars, cache, watchers, gauge, phase>>

\* upsert, second section: the old entry is cancelled and replaced.  Only an
\* entry of another revision can be there: stopAll removes entries, and
\* nothing else runs beside the dispatch goroutine.
Attach ==
    /\ task # NoTask /\ task.at = "build" /\ task.obj.name # Unparsable
    /\ LET k == task.key
           e == [cluster |-> task.obj.name, rv |-> task.obj.rv]
           current == active[k] # Absent /\ active[k].rv = e.rv
       IN  IF current
           THEN task' = NoTask /\ UNCHANGED <<active, uncancelled>>
           ELSE /\ active' = [active EXCEPT ![k] = e]
                /\ uncancelled' = {w \in uncancelled : w.key # k} \cup {WatchOf(k, e)}
                /\ task' = [at |-> "count", key |-> k, entry |-> e,
                            count |-> Cardinality(ActiveKeys \cup {k})]
    /\ UNCHANGED <<apiVars, cache, watchers, gauge, phase>>

\* reportCount, outside the mutex, with the count read inside it.
ReportCount ==
    /\ task # NoTask /\ task.at \in {"count", "countRemoved"}
    /\ gauge' = task.count
    /\ task' = IF task.at = "count"
               THEN [at |-> "spawn", key |-> task.key, entry |-> task.entry]
               ELSE [at |-> "purge", cluster |-> task.entry.cluster]
    /\ UNCHANGED <<apiVars, cache, active, uncancelled, watchers, phase>>

\* The watcher goroutine starts.
Spawn ==
    /\ task # NoTask /\ task.at = "spawn"
    /\ watchers' = watchers \cup {WatchOf(task.key, task.entry)}
    /\ task' = NoTask
    /\ UNCHANGED <<apiVars, cache, active, uncancelled, gauge, phase>>

\* Mutant: the deleted Secret's entry leaves the map, its watcher goes on.
RemoveForgetsCancel(k) ==
    /\ phase # "down" /\ task = NoTask
    /\ k \in gone
    /\ gone' = gone \ {k}
    /\ cache' = [cache EXCEPT ![k] = Absent]
    /\ active' = [active EXCEPT ![k] = Absent]
    /\ task' = IF active[k] = Absent THEN NoTask
               ELSE [at |-> "countRemoved", entry |-> RemovedEntry(k),
                     count |-> Cardinality(ActiveKeys \ {k})]
    /\ UNCHANGED <<secret, revision, uncancelled, watchers, gauge, phase>>

\* A Secret was deleted: remove, up to the end of its section.
RemoveCallback(k) ==
    /\ phase # "down" /\ task = NoTask
    /\ k \in gone
    /\ gone' = gone \ {k}
    /\ cache' = [cache EXCEPT ![k] = Absent]
    /\ active' = [active EXCEPT ![k] = Absent]
    /\ uncancelled' = {w \in uncancelled : w.key # k}
    /\ task' = IF active[k] = Absent THEN NoTask
               ELSE [at |-> "countRemoved", entry |-> RemovedEntry(k),
                     count |-> Cardinality(ActiveKeys \ {k})]
    /\ UNCHANGED <<secret, revision, watchers, gauge, phase>>

\* OnPurge returns (its effect on the store is HubPull's).
Purge ==
    /\ task # NoTask /\ task.at = "purge"
    /\ task' = NoTask
    /\ UNCHANGED <<apiVars, cache, active, uncancelled, watchers, gauge, phase>>

Dispatch ==
    \/ \E k \in Secrets : UpsertCallback(k) \/ ResyncCallback(k) \/ RemoveCallback(k)
    \/ SkipSecret \/ Attach \/ ReportCount \/ Spawn \/ Purge

(***************************************************************************)
(* The other goroutines.                                                    *)
(***************************************************************************)

\* Mutant: the context of a watch derives from the background context.
CancelledByNameOnly(w) == w \notin uncancelled

\* The context of a watch is done: it was cancelled, or the manager's was.
Cancelled(w) == w \notin uncancelled \/ phase # "running"

\* Watcher.Run returns once its context is done.
WatcherReturns(w) ==
    /\ w \in watchers
    /\ Cancelled(w)
    /\ watchers' = watchers \ {w}
    /\ UNCHANGED <<apiVars, cache, task, active, uncancelled, gauge, phase>>

\* SIGTERM.
Cancel ==
    /\ phase = "running"
    /\ phase' = "stopping"
    /\ UNCHANGED <<apiVars, managerVars>>

\* stopAll, under the mutex, and the return of Run.
StopAll ==
    /\ phase = "stopping"
    /\ phase' = "stopped"
    /\ active' = NoSecrets
    /\ uncancelled' = {w \in uncancelled : active[w.key] = Absent}
    /\ gauge' = 0
    /\ UNCHANGED <<apiVars, cache, task, watchers>>

\* The process ends at any point; the next one lists the Secrets afresh.
ProcessEnds ==
    /\ phase # "down"
    /\ phase' = "down"
    /\ gone' = {}
    /\ cache' = NoSecrets
    /\ task' = NoTask
    /\ active' = NoSecrets
    /\ uncancelled' = {}
    /\ watchers' = {}
    /\ gauge' = 0
    /\ UNCHANGED <<secret, revision>>

Start ==
    /\ phase = "down"
    /\ phase' = "running"
    /\ UNCHANGED <<apiVars, managerVars>>

-----------------------------------------------------------------------------

ApiServer == \E k \in Secrets : WriteSecret(k) \/ DeleteSecret(k)
Process == Cancel \/ StopAll \/ ProcessEnds \/ Start

Next ==
    \/ ApiServer
    \/ Dispatch
    \/ \E w \in watchers : WatcherReturns(w)
    \/ Process

Spec == Init /\ [][Next]_vars

\* An attempt to attach the Secret k with its present data succeeds.
AttachSucceeds(k) == Attach /\ task.key = k

(***************************************************************************)
(* Goroutines are scheduled; the informer delivers every change and resyncs *)
(* every key, so callbacks of a key keep coming (SF, since the dispatch     *)
(* goroutine is shared); building a client does not fail for ever; the pod  *)
(* is restarted.                                                            *)
(***************************************************************************)
Fairness ==
    /\ WF_vars(Dispatch)
    /\ \A k \in Secrets :
          /\ SF_vars(UpsertCallback(k)) /\ SF_vars(ResyncCallback(k))
          /\ SF_vars(RemoveCallback(k)) /\ SF_vars(AttachSucceeds(k))
    /\ \A w \in Watch : WF_vars(WatcherReturns(w))
    /\ WF_vars(StopAll) /\ WF_vars(Start)

FairSpec == Spec /\ Fairness

-----------------------------------------------------------------------------

\* Every variable has its type.
TypeOK ==
    /\ secret \in [Secrets -> SecretObject \cup {Absent}]
    /\ revision \in 0..MaxRevision
    /\ gone \subseteq {k \in Secrets : cache[k] # Absent}
    /\ cache \in [Secrets -> SecretObject \cup {Absent}]
    /\ task \in Task \cup {NoTask}
    /\ active \in [Secrets -> Entry \cup {Absent}]
    /\ uncancelled \subseteq Watch
    /\ watchers \subseteq Watch
    /\ gauge \in 0..Cardinality(Secrets)
    /\ phase \in {"running", "stopping", "stopped", "down"}

\* No watcher leaks: the contexts that nobody cancelled are exactly those of
\* the entries in the active map, at most one for each Secret, through every
\* restart for a new revision, removal and stopAll.
NoLeakedWatcher == uncancelled = {WatchOf(k, active[k]) : k \in ActiveKeys}

\* Between callbacks of a running manager the gauge is the number of entries,
\* though it is written outside the mutex from a count read inside it.
GaugeIsActiveCount == (task = NoTask /\ phase = "running") => gauge = ActiveCount

\* The inductive invariant behind it: while the count is on its way the
\* callback holds the right one, and a process starts with everything empty.
GaugeInv ==
    /\ phase = "running" =>
          IF task # NoTask /\ task.at \in {"count", "countRemoved"}
          THEN task.count = ActiveCount
          ELSE gauge = ActiveCount
    /\ phase = "down" => active = NoSecrets /\ task = NoTask /\ gauge = 0

Registered(k, n) == secret[k] # Absent /\ secret[k].name = n

WatchedAsRegistered(k) ==
    /\ secret[k] # Absent /\ active[k] # Absent
    /\ active[k] = [cluster |-> secret[k].name, rv |-> secret[k].rv]
    /\ WatchOf(k, active[k]) \in watchers

\* A registration that stays as it is ends up watched at that revision and
\* stays so, whatever failed before: the resync tries again.
RegisteredIsWatched ==
    \A k \in Secrets : \A n \in Names :
        <>[](phase = "running" /\ Registered(k, n)) => <>[]WatchedAsRegistered(k)

\* The watchers of a Secret that is gone for good end, all of them.
UnregisteredIsUnwatched ==
    \A k \in Secrets :
        <>[](phase = "running" /\ secret[k] = Absent)
            => <>[](active[k] = Absent /\ \A w \in watchers : w.key # k)

\* After cancellation Run returns and every watcher goroutine ends, also one
\* that a callback in progress spawns after stopAll has emptied the map.
RunStopsWatchers ==
    <>[](phase \in {"stopping", "stopped"}) => <>[](phase = "stopped" /\ watchers = {})

=============================================================================
