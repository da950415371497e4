---------------------------- MODULE EventPipeline ----------------------------
(***************************************************************************)
(* The event pipeline of scraper mode: informer callbacks of the watchers   *)
(* (internal/watcher) feed a bounded channel, a fixed pool of workers       *)
(* drains it into the report store (internal/scraper), and the store keeps  *)
(* one row per report key (internal/storage).                               *)
(*                                                                         *)
(* One life of the process goes "running" -> "stopping" -> "down"; the      *)
(* table and the clusters outlive it, everything else is rebuilt at Start.  *)
(***************************************************************************)
EXTENDS Naturals, Sequences

CONSTANTS
    Keys,        \* natural keys of reports: (cluster, namespace, name, type)
    Versions,    \* contents a report object can have at its cluster
    Malformed,   \* the contents Normalize rejects
    Informers,   \* one per watched (cluster, namespace, report type)
    InformerOf,  \* the informer that sees a key
    Workers,     \* the worker pool (workerCount)
    BufferSize,  \* capacity of the events channel (eventBuffer)
    NoRow,       \* the report does not exist
    NoEvent      \* no event in hand

ASSUME PipelineAssumption ==
    /\ Malformed \subseteq Versions
    /\ InformerOf \in [Keys -> Informers]
    /\ BufferSize \in Nat \ {0}
    /\ NoRow \notin Versions
    /\ NoEvent \notin [key : Keys, row : Versions \cup {NoRow}]

VARIABLES
    resource,   \* the report objects as they are at the watched clusters
    seen,       \* the informers' caches: what each key was at its last callback
    callback,   \* the event a handler call holds, per informer; NoEvent if idle
    queue,      \* pipeline.events
    holding,    \* the event each worker is processing
    exited,     \* the workers that have returned
    table,      \* the rows of the reports table
    phase,      \* "running", "stopping" (ctx cancelled) or "down" (no process)
    disturbed   \* history: the keys whose last event met an overlap or a loss

inMemory == <<seen, callback, queue, holding, exited>>
vars == <<resource, inMemory, table, phase, disturbed>>

-----------------------------------------------------------------------------

Contents == Versions \cup {NoRow}
Storable == (Versions \ Malformed) \cup {NoRow}

\* watcher.Event: an upsert carries the normalized report, a delete only the
\* key; the row an event leaves behind stands for both (NoRow for a delete).
Event == [key : Keys, row : Storable]

Queued(k)  == \E n \in 1..Len(queue) : queue[n].key = k
Held(k)    == \E w \in Workers : holding[w] # NoEvent /\ holding[w].key = k
Calling(k) == callback[InformerOf[k]] # NoEvent /\ callback[InformerOf[k]].key = k

Idle(w) == w \notin exited /\ holding[w] = NoEvent

\* What a new process starts from: empty informer caches, idle callbacks.
EmptyCaches   == [k \in Keys |-> NoRow]
IdleCallbacks == [i \in Informers |-> NoEvent]
IdleWorkers   == [w \in Workers |-> NoEvent]

Init ==
    /\ resource \in [Keys -> Contents]
    /\ table = [k \in Keys |-> NoRow]
    /\ seen = EmptyCaches
    /\ callback = IdleCallbacks
    /\ queue = <<>>
    /\ holding = IdleWorkers
    /\ exited = {}
    /\ phase = "running"
    /\ disturbed = {}

-----------------------------------------------------------------------------
(* The watched clusters (external): a report is created, changed, deleted.  *)

EdgeChange(k) ==
    /\ \E c \in Contents \ {resource[k]} : resource' = [resource EXCEPT ![k] = c]
    /\ UNCHANGED <<inMemory, table, phase, disturbed>>

(***************************************************************************)
(* Informer callbacks.  An informer runs its callbacks one at a time; each  *)
(* one ends in a handler call that blocks until the channel has room.       *)
(***************************************************************************)

\* emitUpsert / emitDelete: the callback enters the handler with the event of
\* row c, unless Normalize rejected the object: then nothing is sent.
Emit(k, c) ==
    /\ callback[InformerOf[k]] = NoEvent
    /\ phase # "down"
    /\ \/ /\ c \in Storable
          /\ callback' = [callback EXCEPT ![InformerOf[k]] = [key |-> k, row |-> c]]
          /\ disturbed' = IF Queued(k) \/ Held(k) THEN disturbed ELSE disturbed \ {k}
       \/ /\ c \in Malformed
          /\ disturbed' = disturbed \cup {k}
          /\ UNCHANGED callback
    /\ UNCHANGED <<resource, queue, holding, exited, table, phase>>

\* Mutant: UpdateFunc passes the old object on.
NotifyOldObject(k) ==
    /\ resource[k] # seen[k]
    /\ seen' = [seen EXCEPT ![k] = resource[k]]
    /\ Emit(k, IF NoRow \in {seen[k], resource[k]} THEN resource[k] ELSE seen[k])

\* AddFunc, UpdateFunc or DeleteFunc: the cache moves to the cluster's object.
Notify(k) ==
    /\ resource[k] # seen[k]
    /\ seen' = [seen EXCEPT ![k] = resource[k]]
    /\ Emit(k, resource[k])

\* Mutant: informers built without a resync period.
NoResync(k) == FALSE

\* The ten-minute resync calls UpdateFunc again for every cached object.
Resync(k) ==
    /\ seen[k] # NoRow
    /\ Emit(k, seen[k])
    /\ UNCHANGED seen

\* Mutant: a channel without a capacity.
SendUnbounded(i) ==
    /\ callback[i] # NoEvent
    /\ queue' = Append(queue, callback[i])
    /\ callback' = [callback EXCEPT ![i] = NoEvent]
    /\ UNCHANGED <<resource, seen, holding, exited, table, phase, disturbed>>

\* Mutant: a default case in the select drops the event when the channel is full.
SendOrDrop(i) ==
    /\ callback[i] # NoEvent
    /\ queue' = IF Len(queue) < BufferSize THEN Append(queue, callback[i]) ELSE queue
    /\ callback' = [callback EXCEPT ![i] = NoEvent]
    /\ UNCHANGED <<resource, seen, holding, exited, table, phase, disturbed>>

\* pipeline.handler, first case of the select: the event enters the channel.
Send(i) ==
    /\ callback[i] # NoEvent
    /\ Len(queue) < BufferSize
    /\ queue' = Append(queue, callback[i])
    /\ callback' = [callback EXCEPT ![i] = NoEvent]
    /\ UNCHANGED <<resource, seen, holding, exited, table, phase, disturbed>>

\* Mutant: the handler sends without the ctx.Done case.
AbandonNever(i) == FALSE

\* pipeline.handler, second case: ctx is done and the event is abandoned.
Abandon(i) ==
    /\ phase = "stopping"
    /\ callback[i] # NoEvent
    /\ callback' = [callback EXCEPT ![i] = NoEvent]
    /\ disturbed' = disturbed \cup {callback[i].key}
    /\ UNCHANGED <<resource, seen, queue, holding, exited, table, phase>>

(***************************************************************************)
(* The worker pool.                                                         *)
(***************************************************************************)

\* worker receives an event.  If another worker holds an event of the same
\* key, the store may see the two in either order from now on.
Take(w) ==
    /\ phase = "running"
    /\ Idle(w)
    /\ queue # <<>>
    /\ holding' = [holding EXCEPT ![w] = Head(queue)]
    /\ queue' = Tail(queue)
    /\ disturbed' = IF Held(Head(queue).key)
                    THEN disturbed \cup {Head(queue).key} ELSE disturbed
    /\ UNCHANGED <<resource, seen, callback, exited, table, phase>>

\* After cancellation the select may still pick the channel; the store call
\* on the cancelled context fails before it reaches the database.
TakeAfterCancel(w) ==
    /\ phase = "stopping"
    /\ Idle(w)
    /\ queue # <<>>
    /\ queue' = Tail(queue)
    /\ disturbed' = disturbed \cup {Head(queue).key}
    /\ UNCHANGED <<resource, seen, callback, holding, exited, table, phase>>

\* Mutant: process without its EventDelete case.
StoreUpsertsOnly(w) ==
    /\ phase # "down"
    /\ holding[w] # NoEvent
    /\ table' = [table EXCEPT ![holding[w].key] =
                   IF holding[w].row = NoRow THEN @ ELSE holding[w].row]
    /\ holding' = [holding EXCEPT ![w] = NoEvent]
    /\ UNCHANGED <<resource, seen, callback, queue, exited, phase, disturbed>>

\* process: UpsertReport or DeleteReport commits.
Store(w) ==
    /\ phase # "down"
    /\ holding[w] # NoEvent
    /\ table' = [table EXCEPT ![holding[w].key] = holding[w].row]
    /\ holding' = [holding EXCEPT ![w] = NoEvent]
    /\ UNCHANGED <<resource, seen, callback, queue, exited, phase, disturbed>>

\* process: the store returns an error; it is logged and the event is gone.
StoreFails(w) ==
    /\ phase # "down"
    /\ holding[w] # NoEvent
    /\ holding' = [holding EXCEPT ![w] = NoEvent]
    /\ disturbed' = disturbed \cup {holding[w].key}
    /\ UNCHANGED <<resource, seen, callback, queue, exited, table, phase>>

\* Mutant: the worker ranges over the channel, which nobody closes.
WorkerExitsOnClose(w) == FALSE

\* worker: ctx is done.
WorkerExits(w) ==
    /\ phase = "stopping"
    /\ Idle(w)
    /\ exited' = exited \cup {w}
    /\ UNCHANGED <<resource, seen, callback, queue, holding, table, phase, disturbed>>

(***************************************************************************)
(* The process.                                                             *)
(***************************************************************************)

\* SIGTERM cancels the context of every part.
Cancel ==
    /\ phase = "running"
    /\ phase' = "stopping"
    /\ UNCHANGED <<resource, inMemory, table, disturbed>>

\* The process ends, at any point (crash, kill) or once p.wait() returned:
\* the events in memory are gone and only the table stays.
ProcessEnds ==
    /\ phase # "down"
    /\ phase' = "down"
    /\ seen' = EmptyCaches
    /\ callback' = IdleCallbacks
    /\ queue' = <<>>
    /\ holding' = IdleWorkers
    /\ exited' = {}
    /\ disturbed' = {k \in Keys : table[k] # NoRow}
    /\ UNCHANGED <<resource, table>>

\* Mutant: every pod gets a volume of its own.
StartOnNewVolume ==
    /\ phase = "down"
    /\ phase' = "running"
    /\ table' = [k \in Keys |-> NoRow]
    /\ UNCHANGED <<resource, inMemory, disturbed>>

\* The next pod runs storage.Open and scraper.Run on the same volume.
Start ==
    /\ phase = "down"
    /\ phase' = "running"
    /\ UNCHANGED <<resource, inMemory, table, disturbed>>

-----------------------------------------------------------------------------

Informer(i) == Send(i) \/ Abandon(i)

Worker(w) ==
    Take(w) \/ TakeAfterCancel(w) \/ Store(w) \/ StoreFails(w) \/ WorkerExits(w)

Process == Cancel \/ ProcessEnds \/ Start

Next ==
    \/ \E k \in Keys : EdgeChange(k) \/ Notify(k) \/ Resync(k)
    \/ \E i \in Informers : Informer(i)
    \/ \E w \in Workers : Worker(w)
    \/ Process

Spec == Init /\ [][Next]_vars

\* A store call for k by some worker that succeeds.
Stores(k) == \E w \in Workers : Store(w) /\ holding[w].key = k

(***************************************************************************)
(* Goroutines are scheduled, a select with a ready case returns, a receiver *)
(* or sender blocked on the channel is served in FIFO order by the runtime  *)
(* (hence SF on Send), informers deliver every change and resync every key  *)
(* (SF, since callbacks of one informer exclude each other), and the        *)
(* supervisor restarts the pod.  Store errors are transient: no key fails   *)
(* for ever.  Nothing forces a cluster to change or a process to end.       *)
(***************************************************************************)
Fairness ==
    /\ \A k \in Keys : SF_vars(Notify(k)) /\ SF_vars(Resync(k)) /\ SF_vars(Stores(k))
    /\ \A i \in Informers : SF_vars(Send(i)) /\ WF_vars(Informer(i))
    /\ \A w \in Workers : WF_vars(Worker(w)) /\ SF_vars(WorkerExits(w))
    /\ WF_vars(Start)

FairSpec == Spec /\ Fairness

-----------------------------------------------------------------------------

\* Every variable has its type and the channel never exceeds its capacity.
TypeOK ==
    /\ resource \in [Keys -> Contents]
    /\ seen \in [Keys -> Contents]
    /\ callback \in [Informers -> Event \cup {NoEvent}]
    /\ \A k \in Keys : \A i \in Informers :
          (callback[i] # NoEvent /\ callback[i].key = k) => i = InformerOf[k]
    /\ queue \in Seq(Event)
    /\ Len(queue) <= BufferSize
    /\ holding \in [Workers -> Event \cup {NoEvent}]
    /\ exited \subseteq Workers
    /\ table \in [Keys -> Storable]
    /\ phase \in {"running", "stopping", "down"}
    /\ disturbed \subseteq Keys

\* No event of the key is in a handler call, in the channel or at a worker.
Settled(k) == ~Calling(k) /\ ~Queued(k) /\ ~Held(k)

\* The latest event of an undisturbed key agrees with the informer's cache,
\* wherever it is: in the handler call, else last of its key in the channel,
\* else at a worker, else already in the table.
LatestAgrees(k) ==
    /\ Calling(k) => callback[InformerOf[k]].row = seen[k]
    /\ ~Calling(k) => \A n \in 1..Len(queue) :
          (queue[n].key = k /\ \A m \in (n + 1)..Len(queue) : queue[m].key # k)
             => queue[n].row = seen[k]
    /\ ~Calling(k) /\ ~Queued(k) => \A w \in Workers :
          (holding[w] # NoEvent /\ holding[w].key = k) => holding[w].row = seen[k]
    /\ Settled(k) => table[k] = seen[k]

SoleHolder(k) == \A w1, w2 \in Workers :
    (/\ holding[w1] # NoEvent /\ holding[w1].key = k
     /\ holding[w2] # NoEvent /\ holding[w2].key = k) => w1 = w2

\* The inductive invariant: until two workers overlap on a key or one of its
\* events is lost, the pipeline carries the key's events in order, so the
\* latest one is what the informer last saw.
InOrderInv == \A k \in Keys \ disturbed : LatestAgrees(k) /\ SoleHolder(k)

\* A row differs from the informer's cache only while one of its events is
\* under way, after two workers overlapped on the key, or after an event was
\* lost to a store error, a malformed report, a shutdown or a restart.  This
\* is what the blocking handler, the FIFO channel and process() (scraper.go)
\* owe to the table.
SettledRowIsSeen ==
    \A k \in Keys \ disturbed : Settled(k) => table[k] = seen[k]

\* The events under way, wherever they are.
InFlight ==
    {callback[i] : i \in {j \in Informers : callback[j] # NoEvent}}
        \cup {queue[n] : n \in 1..Len(queue)}
        \cup {holding[w] : w \in {x \in Workers : holding[x] # NoEvent}}

Channel == INSTANCE EventChannel WITH Rows <- Versions \ Malformed, flight <- InFlight

\* Handler, channel, workers and restarts together are an event channel: the
\* table only ever changes by an event that a callback sent and that is still
\* under way, and it outlives the process.
ImplementsChannel == Channel!Spec

\* The initial list and the resync repair whatever happened before: a report
\* that stays at the cluster ends up in the table as it is there, whatever
\* errors, overlaps and restarts came earlier (scraper.go, comment in Run).
ExistingReportsAppear ==
    \A k \in Keys : \A v \in Versions \ Malformed :
        <>[](resource[k] = v /\ phase = "running") => <>[](table[k] = v)

\* The row of a report deleted at the cluster goes away, provided that its
\* delete event is neither lost nor overtaken: nothing sends it again.
DeletedReportsVanish ==
    \A k \in Keys :
        <>[](resource[k] = NoRow /\ phase = "running" /\ k \notin disturbed)
            => <>[](table[k] = NoRow)

\* After cancellation p.wait() returns: every worker leaves, with any number
\* of events still buffered.
WorkersLeave == (phase = "stopping") ~> (exited = Workers \/ phase = "down")

\* After cancellation no informer callback stays blocked in the handler, even
\* when the channel is full and every worker has left.
LateCallbacksReturn ==
    \A i \in Informers :
        (phase = "stopping" /\ callback[i] # NoEvent) ~> (callback[i] = NoEvent)

\* Cancellation has come and the delete event of k is still buffered.
DeleteBuffered(k) ==
    phase = "stopping" /\ \E n \in 1..Len(queue) : queue[n] = [key |-> k, row |-> NoRow]

\* What the comment at scraper.go:114-116 promises: dropping the buffered
\* events is harmless because the next start rebuilds the table from the
\* clusters.  For a buffered delete: the row of the report goes away later.
NextStartRepopulates ==
    \A k \in Keys :
        (<>DeleteBuffered(k) /\ <>[](resource[k] = NoRow /\ phase = "running"))
            => <>[](table[k] = NoRow)

=============================================================================
