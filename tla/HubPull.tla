------------------------------- MODULE HubPull -------------------------------
(***************************************************************************)
(* Hub-pull as a whole: registration Secrets, the manager that attaches a   *)
(* watcher to each (ClusterManager), the events of those watchers on their  *)
(* way to the store, and the purge of a cluster whose Secret is deleted.    *)
(* One report stands for the reports of a cluster.  Handler, channel and    *)
(* workers are an EventChannel, which is what EventPipeline shows of them.  *)
(***************************************************************************)
EXTENDS ClusterManager

CONSTANTS
    Report,     \* the row of a cluster's report
    NoRow       \* no report, no row

ASSUME HubAssumption == Report # NoRow

VARIABLES
    informers,  \* the watches whose informers run
    seenBy,     \* those whose informers have the report in their cache
    flight,     \* the events under way
    table,      \* each cluster's row in the reports table
    leftover    \* history: clusters that may have rows nobody answers for

eventVars == <<informers, seenBy, flight, table>>
hubVars == <<vars, eventVars, leftover>>

-----------------------------------------------------------------------------

Channel == INSTANCE EventChannel WITH Keys <- Names, Rows <- {Report}

\* The clusters that have rows.
Stored == {c \in Names : table[c] # NoRow}

\* Somebody may still send an event of the cluster, or has sent one.
UnderWay(c) ==
    \/ \E w \in informers : w.cluster = c
    \/ \E e \in flight : e.key = c

Watched(c) == \E k \in ActiveKeys : active[k].cluster = c

HubInit ==
    /\ Init
    /\ Channel!Init
    /\ informers = {}
    /\ seenBy = {}
    /\ leftover = {}

-----------------------------------------------------------------------------
(***************************************************************************)
(* Events.  Every event carries the cluster name of the watch that emits    *)
(* it; the handler takes the pipeline's context, not the watch's.  The      *)
(* informers run in goroutines of their own, which Run does not wait for.   *)
(***************************************************************************)

\* Mutant: the event names the Secret instead of the cluster.
EmitTagsKey(w) ==
    /\ w \in informers
    /\ \E row \in {Report, NoRow} :
          /\ row = NoRow => w \in seenBy
          /\ Channel!Send([key |-> w.key, row |-> row])
          /\ seenBy' = IF row = Report THEN seenBy \cup {w} ELSE seenBy \ {w}
    /\ UNCHANGED <<vars, informers, leftover>>

\* A callback of a running informer, be its watch cancelled and Run returned
\* or not: the report is there (new, changed or resynced), or one of the cache
\* is gone.  Reports come and go at the cluster as they like.
Emit(w) ==
    /\ w \in informers
    /\ \E row \in {Report, NoRow} :
          /\ row = NoRow => w \in seenBy
          /\ Channel!Send([key |-> w.cluster, row |-> row])
          /\ seenBy' = IF row = Report THEN seenBy \cup {w} ELSE seenBy \ {w}
    /\ UNCHANGED <<vars, informers, leftover>>

\* The informers of a cancelled watch end, with the callback they are in.
InformersEnd(w) ==
    /\ w \in informers
    /\ Cancelled(w)
    /\ informers' = informers \ {w}
    /\ seenBy' = seenBy \ {w}
    /\ UNCHANGED <<vars, flight, table, leftover>>

\* A worker writes the event to the store.
Apply(e) ==
    /\ phase # "down"
    /\ Channel!Apply(e)
    /\ UNCHANGED <<vars, informers, seenBy, leftover>>

\* The event is lost: a store error, or cancellation.
Drop(e) ==
    /\ Channel!Lose(e)
    /\ UNCHANGED <<vars, informers, seenBy, leftover>>

(***************************************************************************)
(* Steps of the manager that reach the events and the table.                *)
(***************************************************************************)

\* OnPurge: DeleteByCluster succeeds.  Events of the cluster that are under
\* way, or that an informer still running sends, come after it.
PurgeSucceeds ==
    /\ phase = "running"
    /\ Purge
    /\ table' = [table EXCEPT ![task.cluster] = NoRow]
    /\ leftover' = IF UnderWay(task.cluster) THEN leftover \cup {task.cluster}
                   ELSE leftover \ {task.cluster}
    /\ UNCHANGED <<informers, seenBy, flight>>

\* OnPurge: DeleteByCluster fails, as it does once the context is cancelled;
\* the error is logged and nothing retries.
PurgeFails ==
    /\ Purge
    /\ leftover' = leftover \cup {task.cluster}
    /\ UNCHANGED eventVars

\* A Secret that changes its cluster name takes its watcher along and leaves
\* the rows of the old name.
AttachStep ==
    /\ Attach
    /\ leftover' = leftover \cup
          {active[k].cluster : k \in {j \in ActiveKeys :
              active'[j] # Absent /\ active'[j].cluster # active[j].cluster}}
    /\ UNCHANGED eventVars

\* A watcher goroutine starts, and Run starts its informers.
SpawnStep ==
    /\ Spawn
    /\ informers' = informers \cup {WatchOf(task.key, task.entry)}
    /\ UNCHANGED <<seenBy, flight, table, leftover>>

\* Run returns; nothing stops or joins the informers but the context.
WatcherStops(w) ==
    /\ WatcherReturns(w)
    /\ UNCHANGED <<eventVars, leftover>>

\* The next process attaches whoever is registered then and purges nothing.
HubEnds ==
    /\ ProcessEnds
    /\ Channel!LoseAll
    /\ informers' = {}
    /\ seenBy' = {}
    /\ leftover' = leftover \cup Stored

\* The other steps of the dispatch goroutine.
DispatchStep ==
    /\ \/ \E k \in Secrets :
             UpsertCallback(k) \/ ResyncCallback(k) \/ RemoveCallback(k)
       \/ SkipSecret \/ ReportCount
    /\ UNCHANGED <<eventVars, leftover>>

ProcessStep == (Cancel \/ StopAll \/ Start) /\ UNCHANGED <<eventVars, leftover>>

ApiStep == ApiServer /\ UNCHANGED <<eventVars, leftover>>

-----------------------------------------------------------------------------

\* Steps of a hub whose process lives on and whose store takes every write.
ReliableNext ==
    \/ ApiStep
    \/ DispatchStep \/ SpawnStep \/ AttachStep \/ PurgeSucceeds
    \/ ProcessStep
    \/ \E w \in watchers : WatcherStops(w)
    \/ \E w \in informers : Emit(w) \/ InformersEnd(w)
    \/ \E e \in flight : Apply(e)

HubNext ==
    \/ ReliableNext
    \/ PurgeFails
    \/ HubEnds
    \/ \E e \in flight : Drop(e)

HubSpec == HubInit /\ [][HubNext]_hubVars

(***************************************************************************)
(* The dispatch goroutine, the watchers, the informers and the workers are  *)
(* scheduled: an event that stays under way is stored, and finally so.      *)
(***************************************************************************)
ReliableFairness ==
    /\ WF_hubVars(DispatchStep \/ SpawnStep \/ AttachStep \/ PurgeSucceeds)
    /\ \A k \in Secrets : SF_hubVars(RemoveCallback(k) /\ UNCHANGED <<eventVars, leftover>>)
    /\ \A w \in Watch : WF_hubVars(WatcherStops(w)) /\ WF_hubVars(InformersEnd(w))
    /\ \A e \in Channel!Event : SF_hubVars(Apply(e) /\ e \notin flight')

ReliableSpec == HubInit /\ [][ReliableNext]_hubVars /\ ReliableFairness

-----------------------------------------------------------------------------

\* Every variable has its type.
HubTypeOK ==
    /\ TypeOK
    /\ informers \subseteq Watch
    /\ seenBy \subseteq informers
    /\ flight \subseteq Channel!Event
    /\ table \in [Names -> {Report, NoRow}]
    /\ leftover \subseteq Names

\* While the manager is running and between callbacks, every row belongs to a
\* cluster that has a watcher.  The exceptions are the causes listed with
\* leftover: a failed purge, events or informers under way at it, a renamed
\* cluster, an earlier process.
RowsHaveWatcher ==
    (phase = "running" /\ task = NoTask) =>
        \A c \in Stored \ leftover : Watched(c)

\* A purge of the cluster is on its way: remove has taken its entry out.
PurgePending(c) ==
    /\ task # NoTask
    /\ \/ task.at = "countRemoved" /\ task.entry.cluster = c
       \/ task.at = "purge" /\ task.cluster = c

\* The inductive invariant behind it: as long as nothing went wrong for a
\* cluster, its rows, its events and its informers are answered for by an entry
\* of the active map or by a purge on its way.
RowsInv ==
    /\ phase = "running" =>
          /\ \A c \in Names \ leftover :
                (c \in Stored \/ UnderWay(c)) => (Watched(c) \/ PurgePending(c))
          /\ (task # NoTask /\ task.at \in {"count", "spawn"}) =>
                active[task.key] = task.entry
    /\ phase = "down" =>
          /\ task = NoTask /\ active = NoSecrets
          /\ informers = {} /\ flight = {}
          /\ Stored \subseteq leftover

\* What the comments say of a deleted Secret (manager.go:23-25, "stops the
\* watcher and purges that cluster's reports"): once no Secret registers the
\* cluster any more, its rows go and stay away.
UnregisteredIsPurged ==
    \A c \in Names :
        <>[](phase = "running" /\ \A k \in Secrets : ~Registered(k, c))
            => <>[](c \notin Stored)

=============================================================================
