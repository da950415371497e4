------------------------- MODULE EventPipelineProofs -------------------------
(***************************************************************************)
(* Proofs about EventPipeline for every set of keys, contents, informers    *)
(* and workers and every channel capacity.                                  *)
(***************************************************************************)
EXTENDS EventPipeline, SequenceTheorems, TLAPS

-----------------------------------------------------------------------------
(* Facts about the channel's events.                                        *)

\* An event of a key is never the mark of an idle handler or worker.
LEMMA EventIsNotNoEvent == NoEvent \notin Event
  BY PipelineAssumption DEF Event, Storable

\* Receiving from the channel yields an event and leaves a shorter channel
\* whose events are the old ones, one place further on.
LEMMA Receive ==
  ASSUME NEW q \in Seq(Event), q # <<>>
  PROVE  /\ Head(q) \in Event
         /\ Head(q) = q[1]
         /\ Tail(q) \in Seq(Event)
         /\ Len(q) \in Nat \ {0}
         /\ Len(Tail(q)) = Len(q) - 1
         /\ \A n \in 1..Len(Tail(q)) : Tail(q)[n] = q[n + 1]
  <1>1. Len(q) \in Nat /\ Len(q) # 0
    BY EmptySeq, LenProperties
  <1>2. /\ Head(q) \in Event
        /\ Tail(q) \in Seq(Event)
        /\ Head(q) = q[1]
        /\ Len(Tail(q)) = Len(q) - 1
    BY HeadTailProperties
  <1>3. \A n \in 1..Len(Tail(q)) : Tail(q)[n] = q[n + 1]
    BY <1>1, <1>2
  <1>4. QED BY <1>1, <1>2, <1>3

-----------------------------------------------------------------------------
(* The type invariant.                                                      *)

\* Type correctness: the first state ...
LEMMA InitTypeOK == Init => TypeOK
  BY PipelineAssumption
  DEF Init, TypeOK, EmptyCaches, IdleCallbacks, IdleWorkers, Contents, Storable

\* A callback stores an event of its own informer, or none at all.
LEMMA EmitTypeOK ==
  ASSUME TypeOK, NEW k \in Keys, NEW c \in Contents, Emit(k, c),
         seen' \in [Keys -> Contents]
  PROVE  TypeOK'
  <1>1. InformerOf[k] \in Informers
    BY PipelineAssumption
  <1>2. CASE /\ c \in Storable
             /\ callback' = [callback EXCEPT ![InformerOf[k]] = [key |-> k, row |-> c]]
             /\ disturbed' = IF Queued(k) \/ Held(k) THEN disturbed ELSE disturbed \ {k}
    <2>1. [key |-> k, row |-> c] \in Event
      BY <1>2 DEF Event
    <2>2. callback' \in [Informers -> Event \cup {NoEvent}]
      BY <1>1, <1>2, <2>1 DEF TypeOK
    <2>3. \A k1 \in Keys : \A i \in Informers :
             (callback'[i] # NoEvent /\ callback'[i].key = k1) => i = InformerOf[k1]
      BY <1>1, <1>2 DEF TypeOK
    <2>4. QED BY <1>2, <2>2, <2>3 DEF TypeOK, Emit
  <1>3. CASE /\ c \in Malformed
             /\ disturbed' = disturbed \cup {k}
             /\ UNCHANGED callback
    BY <1>3 DEF TypeOK, Emit
  <1>4. QED BY <1>2, <1>3 DEF Emit

\* ... and every step.
LEMMA NextTypeOK == TypeOK /\ [Next]_vars => TypeOK'
  <1> SUFFICES ASSUME TypeOK, [Next]_vars PROVE TypeOK'
    OBVIOUS
  <1>1. ASSUME NEW k \in Keys, EdgeChange(k) PROVE TypeOK'
    BY <1>1 DEF EdgeChange, TypeOK, inMemory
  <1>2. ASSUME NEW k \in Keys, Notify(k) PROVE TypeOK'
    <2>1. resource[k] \in Contents /\ seen' \in [Keys -> Contents]
      BY <1>2 DEF Notify, TypeOK
    <2>2. QED BY <1>2, <2>1, EmitTypeOK DEF Notify
  <1>3. ASSUME NEW k \in Keys, Resync(k) PROVE TypeOK'
    <2>1. seen[k] \in Contents /\ seen' \in [Keys -> Contents]
      BY <1>3 DEF Resync, TypeOK
    <2>2. QED BY <1>3, <2>1, EmitTypeOK DEF Resync
  <1>4. ASSUME NEW i \in Informers, Send(i) PROVE TypeOK'
    <2>1. callback[i] \in Event
      BY <1>4 DEF Send, TypeOK
    <2>2. queue' \in Seq(Event) /\ Len(queue') = Len(queue) + 1
      BY <1>4, <2>1, AppendProperties DEF Send, TypeOK
    <2>3. Len(queue') <= BufferSize
      BY <1>4, <2>2, PipelineAssumption, LenProperties DEF Send, TypeOK
    <2>4. QED BY <1>4, <2>2, <2>3 DEF Send, TypeOK
  <1>5. ASSUME NEW i \in Informers, Abandon(i) PROVE TypeOK'
    <2>1. callback[i].key \in Keys
      BY <1>5 DEF Abandon, TypeOK, Event
    <2>2. QED BY <1>5, <2>1 DEF Abandon, TypeOK
  <1>6. ASSUME NEW w \in Workers, Take(w) PROVE TypeOK'
    <2>1. /\ Head(queue) \in Event
          /\ queue' \in Seq(Event)
          /\ Len(queue') <= BufferSize
      BY <1>6, Receive, PipelineAssumption DEF Take, TypeOK
    <2>2. Head(queue).key \in Keys
      BY <2>1 DEF Event
    <2>3. QED BY <1>6, <2>1, <2>2 DEF Take, TypeOK
  <1>7. ASSUME NEW w \in Workers, TakeAfterCancel(w) PROVE TypeOK'
    <2>1. /\ Head(queue) \in Event
          /\ queue' \in Seq(Event)
          /\ Len(queue') <= BufferSize
      BY <1>7, Receive, PipelineAssumption DEF TakeAfterCancel, TypeOK
    <2>2. Head(queue).key \in Keys
      BY <2>1 DEF Event
    <2>3. QED BY <1>7, <2>1, <2>2 DEF TakeAfterCancel, TypeOK
  <1>8. ASSUME NEW w \in Workers, Store(w) PROVE TypeOK'
    <2>1. holding[w].key \in Keys /\ holding[w].row \in Storable
      BY <1>8 DEF Store, TypeOK, Event
    <2>2. QED BY <1>8, <2>1 DEF Store, TypeOK
  <1>9. ASSUME NEW w \in Workers, StoreFails(w) PROVE TypeOK'
    <2>1. holding[w].key \in Keys
      BY <1>9 DEF StoreFails, TypeOK, Event
    <2>2. QED BY <1>9, <2>1 DEF StoreFails, TypeOK
  <1>10. ASSUME NEW w \in Workers, WorkerExits(w) PROVE TypeOK'
    BY <1>10 DEF WorkerExits, TypeOK
  <1>11. CASE Cancel
    BY <1>11 DEF Cancel, TypeOK, inMemory
  <1>12. CASE ProcessEnds
    BY <1>12, PipelineAssumption
    DEF ProcessEnds, TypeOK, EmptyCaches, IdleCallbacks, IdleWorkers, Contents
  <1>13. CASE Start
    BY <1>13 DEF Start, TypeOK, inMemory
  <1>14. CASE UNCHANGED vars
    BY <1>14 DEF vars, inMemory, TypeOK
  <1>15. QED
    BY <1>1, <1>2, <1>3, <1>4, <1>5, <1>6, <1>7, <1>8, <1>9, <1>10, <1>11, <1>12, <1>13, <1>14
    DEF Next, Informer, Worker, Process

\* Every variable keeps its type, and the channel its capacity, whatever the
\* clusters, informers, workers and restarts do (scraper.go, startPipeline).
THEOREM TypeCorrect == Spec => []TypeOK
  <1>1. QED BY InitTypeOK, NextTypeOK, PTL DEF Spec

-----------------------------------------------------------------------------
(* The order invariant.                                                     *)

InOrder(k) == LatestAgrees(k) /\ SoleHolder(k)

\* Nothing is under way and neither caches nor table hold anything of k.
LEMMA NothingUnderWay ==
  ASSUME seen = EmptyCaches, callback = IdleCallbacks, queue = <<>>,
         holding = IdleWorkers,
         NEW k \in Keys, table[k] = NoRow
  PROVE  InOrder(k)
  <1>1. ~Calling(k) /\ ~Held(k) /\ SoleHolder(k)
    BY PipelineAssumption DEF Calling, Held, SoleHolder, IdleCallbacks, IdleWorkers
  <1>2. Len(queue) = 0
    OBVIOUS
  <1>3. ~Queued(k)
    BY <1>2 DEF Queued
  <1>4. \A n \in 1..Len(queue) : FALSE
    BY <1>2
  <1>5. seen[k] = NoRow
    BY DEF EmptyCaches
  <1>6. QED BY <1>1, <1>3, <1>4, <1>5 DEF InOrder, LatestAgrees, Settled, Held

\* The order of events per report: the first state ...
LEMMA InitInOrder == Init => InOrderInv
  BY NothingUnderWay DEF Init, InOrderInv, InOrder

\* A callback for k itself starts the order afresh when nothing of k is under
\* way, and otherwise becomes the latest event; one for another key does not
\* touch k.
LEMMA EmitInOrder ==
  ASSUME TypeOK, InOrderInv, NEW k \in Keys, NEW c \in Contents, Emit(k, c),
         seen' = [seen EXCEPT ![k] = c],
         NEW x \in Keys, x \notin disturbed'
  PROVE  InOrder(x)'
  <1> USE DEF TypeOK
  <1>0. InformerOf[k] \in Informers /\ InformerOf[x] \in Informers
    BY PipelineAssumption
  <1>1. UNCHANGED <<queue, holding, table>>
    BY DEF Emit
  <1>2. ASSUME x # k PROVE InOrder(x)'
    <2>1. InOrder(x)
      BY <1>2 DEF Emit, InOrderInv, InOrder
    <2>2. seen'[x] = seen[x]
      BY <1>2
    <2>3. Calling(x)' <=> Calling(x)
      BY <1>0, <1>2, EventIsNotNoEvent DEF Emit, Calling
    <2>4. Calling(x) => callback'[InformerOf[x]] = callback[InformerOf[x]]
      BY <1>0, <1>2 DEF Emit, Calling
    <2>5. (Queued(x)' <=> Queued(x)) /\ (Held(x)' <=> Held(x))
      BY <1>1 DEF Queued, Held
    <2>6. SoleHolder(x)'
      BY <2>1, <1>1 DEF InOrder, SoleHolder
    <2>7. LatestAgrees(x)'
      BY <2>1, <2>2, <2>3, <2>4, <2>5, <1>1 DEF InOrder, LatestAgrees, Settled
    <2>8. QED BY <2>6, <2>7 DEF InOrder
  <1>3. ASSUME x = k PROVE InOrder(x)'
    <2>1. /\ c \in Storable
          /\ callback' = [callback EXCEPT ![InformerOf[k]] = [key |-> k, row |-> c]]
          /\ disturbed' = IF Queued(k) \/ Held(k) THEN disturbed ELSE disturbed \ {k}
      BY <1>3 DEF Emit
    <2>2. [key |-> k, row |-> c] \in Event
      BY <2>1 DEF Event
    <2>3. callback'[InformerOf[k]] = [key |-> k, row |-> c]
      BY <1>0, <2>1
    <2>4. Calling(k)' /\ callback'[InformerOf[k]].row = seen'[k]
      BY <2>2, <2>3, EventIsNotNoEvent DEF Calling
    <2>5. LatestAgrees(k)'
      BY <2>4 DEF LatestAgrees, Settled
    <2>6. SoleHolder(k)
      BY <1>3, <2>1 DEF InOrderInv, Held, SoleHolder
    <2>7. SoleHolder(k)'
      BY <2>6, <1>1 DEF SoleHolder
    <2>8. QED BY <1>3, <2>5, <2>7 DEF InOrder
  <1>4. QED BY <1>2, <1>3

\* The handler's event becomes the last of the channel.
LEMMA SendInOrder ==
  ASSUME TypeOK, InOrderInv, NEW i \in Informers, Send(i),
         NEW x \in Keys, x \notin disturbed'
  PROVE  InOrder(x)'
  <1> USE DEF TypeOK
  <1>0. InformerOf[x] \in Informers
    BY PipelineAssumption
  <1>1. InOrder(x)
    BY DEF Send, InOrderInv, InOrder
  <1>2. callback[i] \in Event /\ callback[i].key \in Keys
    BY DEF Send, Event
  <1>3. /\ Len(queue) \in Nat
        /\ queue' \in Seq(Event)
        /\ Len(queue') = Len(queue) + 1
        /\ \A n \in 1..Len(queue) : queue'[n] = queue[n]
        /\ queue'[Len(queue) + 1] = callback[i]
    BY <1>2, AppendProperties, LenProperties DEF Send
  <1>4. UNCHANGED <<seen, holding, table>>
    BY DEF Send
  <1>5. SoleHolder(x)'
    BY <1>1, <1>4 DEF InOrder, SoleHolder
  <1>6. ASSUME callback[i].key = x PROVE LatestAgrees(x)'
    <2>1. Calling(x) /\ callback[i].row = seen[x]
      BY <1>1, <1>6 DEF Send, Calling, InOrder, LatestAgrees
    <2>2. Queued(x)'
      BY <1>3, <1>6 DEF Queued
    <2>3. ~Calling(x)'
      BY <1>0, <1>6 DEF Send, Calling
    <2>4. ASSUME NEW n \in 1..Len(queue'), queue'[n].key = x,
                 \A m \in (n + 1)..Len(queue') : queue'[m].key # x
          PROVE  queue'[n].row = seen'[x]
      <3>1. n = Len(queue) + 1
        BY <1>3, <1>6, <2>4
      <3>2. QED BY <1>3, <1>4, <2>1, <3>1
    <2>5. QED BY <2>2, <2>3, <2>4 DEF LatestAgrees, Settled
  <1>7. ASSUME callback[i].key # x PROVE LatestAgrees(x)'
    <2>1. Calling(x)' <=> Calling(x)
      BY <1>0, <1>7 DEF Send, Calling
    <2>2. Calling(x) => callback'[InformerOf[x]] = callback[InformerOf[x]]
      BY <1>0, <1>7 DEF Send, Calling
    <2>3. Queued(x)' <=> Queued(x)
      <3>1. ASSUME NEW n \in 1..Len(queue), queue[n].key = x PROVE Queued(x)'
        BY <1>3, <3>1 DEF Queued
      <3>2. ASSUME NEW n \in 1..Len(queue'), queue'[n].key = x PROVE Queued(x)
        BY <1>3, <1>7, <3>2 DEF Queued
      <3>3. QED BY <3>1, <3>2 DEF Queued
    <2>4. Held(x)' <=> Held(x)
      BY <1>4 DEF Held
    <2>5. ASSUME ~Calling(x),
                 NEW n \in 1..Len(queue'), queue'[n].key = x,
                 \A m \in (n + 1)..Len(queue') : queue'[m].key # x
          PROVE  queue'[n].row = seen'[x]
      <3>1. n \in 1..Len(queue) /\ queue[n].key = x /\ queue'[n] = queue[n]
        BY <1>3, <1>7, <2>5
      <3>2. \A m \in (n + 1)..Len(queue) : queue[m].key # x
        BY <1>3, <2>5, <3>1
      <3>3. queue[n].row = seen[x]
        BY <1>1, <2>5, <3>1, <3>2 DEF InOrder, LatestAgrees
      <3>4. QED BY <1>4, <3>1, <3>3
    <2>6. QED
      BY <1>1, <1>4, <2>1, <2>2, <2>3, <2>4, <2>5 DEF InOrder, LatestAgrees, Settled
  <1>8. QED BY <1>5, <1>6, <1>7 DEF InOrder

\* A worker that takes the oldest event of the channel keeps the order unless
\* another worker holds an event of the same key, which disturbs the key.
LEMMA TakeInOrder ==
  ASSUME TypeOK, InOrderInv, NEW w \in Workers, Take(w),
         NEW x \in Keys, x \notin disturbed'
  PROVE  InOrder(x)'
  <1> USE DEF TypeOK
  <1>1. InOrder(x)
    BY DEF Take, InOrderInv, InOrder
  <1>2. /\ Head(queue) \in Event
        /\ Head(queue) = queue[1]
        /\ Len(queue) \in Nat \ {0}
        /\ Len(queue') = Len(queue) - 1
        /\ \A n \in 1..Len(queue') : queue'[n] = queue[n + 1]
    BY Receive DEF Take
  <1>3. UNCHANGED <<seen, callback, table>> /\ (Calling(x)' <=> Calling(x))
    BY DEF Take, Calling
  <1>4. /\ holding[w] = NoEvent
        /\ holding'[w] = Head(queue)
        /\ \A w1 \in Workers \ {w} : holding'[w1] = holding[w1]
    BY DEF Take, Idle
  <1>5. \A n \in 1..Len(queue') : \A m \in (n + 2)..Len(queue) :
           m - 1 \in (n + 1)..Len(queue') /\ queue'[m - 1] = queue[m]
    BY <1>2
  <1>6. ASSUME NEW n \in 1..Len(queue'), queue'[n].key = x,
               \A m \in (n + 1)..Len(queue') : queue'[m].key # x
        PROVE  ~Calling(x) => queue'[n].row = seen'[x]
    <2>1. n + 1 \in 1..Len(queue) /\ queue[n + 1].key = x
      BY <1>2, <1>6
    <2>2. \A m \in (n + 2)..Len(queue) : queue[m].key # x
      BY <1>2, <1>5, <1>6
    <2>3. ~Calling(x) => queue[n + 1].row = seen[x]
      BY <1>1, <1>2, <2>1, <2>2 DEF InOrder, LatestAgrees
    <2>4. QED BY <1>2, <1>3, <2>3
  <1>7. ASSUME Head(queue).key = x PROVE InOrder(x)'
    <2>1. ~Held(x)
      BY <1>7 DEF Take
    <2>2. SoleHolder(x)'
      BY <1>4, <2>1 DEF Held, SoleHolder
    <2>3. Held(x)'
      BY <1>2, <1>4, <1>7, EventIsNotNoEvent DEF Held
    <2>4. ASSUME ~Calling(x), ~Queued(x)' PROVE Head(queue).row = seen[x]
      <3>1. \A m \in 2..Len(queue) : queue[m].key # x
        <4>1. \A m \in 2..Len(queue) : m - 1 \in 1..Len(queue') /\ queue'[m - 1] = queue[m]
          BY <1>2
        <4>2. QED BY <2>4, <4>1 DEF Queued
      <3>2. 1 \in 1..Len(queue) /\ queue[1].key = x
        BY <1>2, <1>7
      <3>3. QED BY <1>1, <1>2, <2>4, <3>1, <3>2 DEF InOrder, LatestAgrees
    <2>5. ASSUME NEW w1 \in Workers, holding'[w1] # NoEvent, holding'[w1].key = x
          PROVE  holding'[w1] = Head(queue)
      BY <1>4, <2>1, <2>5 DEF Held
    <2>6. Calling(x) => callback[InformerOf[x]].row = seen[x]
      BY <1>1 DEF InOrder, LatestAgrees
    <2>7. LatestAgrees(x)'
      BY <1>3, <1>6, <2>3, <2>4, <2>5, <2>6 DEF LatestAgrees, Settled
    <2>8. QED BY <2>2, <2>7 DEF InOrder
  <1>8. ASSUME Head(queue).key # x PROVE InOrder(x)'
    <2>1. Held(x)' <=> Held(x)
      BY <1>4, <1>8 DEF Held
    <2>2. Queued(x)' <=> Queued(x)
      <3>1. ASSUME NEW n \in 1..Len(queue), queue[n].key = x PROVE Queued(x)'
        <4>1. n - 1 \in 1..Len(queue') /\ queue'[n - 1] = queue[n]
          BY <1>2, <1>8, <3>1
        <4>2. QED BY <3>1, <4>1 DEF Queued
      <3>2. ASSUME NEW n \in 1..Len(queue'), queue'[n].key = x PROVE Queued(x)
        <4>1. n + 1 \in 1..Len(queue) /\ queue[n + 1] = queue'[n]
          BY <1>2
        <4>2. QED BY <3>2, <4>1 DEF Queued
      <3>3. QED BY <3>1, <3>2 DEF Queued
    <2>3. SoleHolder(x)'
      BY <1>1, <1>4, <1>8 DEF InOrder, SoleHolder
    <2>4. ASSUME NEW w1 \in Workers, holding'[w1] # NoEvent, holding'[w1].key = x
          PROVE  holding'[w1] = holding[w1]
      BY <1>4, <1>8, <2>4
    <2>5. LatestAgrees(x)'
      BY <1>1, <1>3, <1>6, <2>1, <2>2, <2>4 DEF InOrder, LatestAgrees, Settled
    <2>6. QED BY <2>3, <2>5 DEF InOrder
  <1>9. QED BY <1>7, <1>8

\* The event a cancelled worker takes is lost, which disturbs its key; the
\* other keys only move up in the channel.
LEMMA TakeAfterCancelInOrder ==
  ASSUME TypeOK, InOrderInv, NEW w \in Workers, TakeAfterCancel(w),
         NEW x \in Keys, x \notin disturbed'
  PROVE  InOrder(x)'
  <1> USE DEF TypeOK
  <1>1. InOrder(x) /\ Head(queue).key # x
    BY DEF TakeAfterCancel, InOrderInv, InOrder
  <1>2. /\ Head(queue) = queue[1]
        /\ Len(queue) \in Nat \ {0}
        /\ Len(queue') = Len(queue) - 1
        /\ \A n \in 1..Len(queue') : queue'[n] = queue[n + 1]
    BY Receive DEF TakeAfterCancel
  <1>3. UNCHANGED <<seen, callback, holding, table>>
    BY DEF TakeAfterCancel
  <1>4. (Calling(x)' <=> Calling(x)) /\ (Held(x)' <=> Held(x)) /\ SoleHolder(x)'
    BY <1>1, <1>3 DEF Calling, Held, InOrder, SoleHolder
  <1>5. \A n \in 1..Len(queue') : \A m \in (n + 2)..Len(queue) :
           m - 1 \in (n + 1)..Len(queue') /\ queue'[m - 1] = queue[m]
    BY <1>2
  <1>6. ASSUME NEW n \in 1..Len(queue'), queue'[n].key = x,
               \A m \in (n + 1)..Len(queue') : queue'[m].key # x
        PROVE  ~Calling(x) => queue'[n].row = seen'[x]
    <2>1. n + 1 \in 1..Len(queue) /\ queue[n + 1].key = x
      BY <1>2, <1>6
    <2>2. \A m \in (n + 2)..Len(queue) : queue[m].key # x
      BY <1>2, <1>5, <1>6
    <2>3. ~Calling(x) => queue[n + 1].row = seen[x]
      BY <1>1, <1>2, <2>1, <2>2 DEF InOrder, LatestAgrees
    <2>4. QED BY <1>2, <1>3, <2>3
  <1>7. Queued(x)' <=> Queued(x)
    <2>1. ASSUME NEW n \in 1..Len(queue), queue[n].key = x PROVE Queued(x)'
      <3>1. n - 1 \in 1..Len(queue') /\ queue'[n - 1] = queue[n]
        BY <1>1, <1>2, <2>1
      <3>2. QED BY <2>1, <3>1 DEF Queued
    <2>2. ASSUME NEW n \in 1..Len(queue'), queue'[n].key = x PROVE Queued(x)
      <3>1. n + 1 \in 1..Len(queue) /\ queue[n + 1] = queue'[n]
        BY <1>2
      <3>2. QED BY <2>2, <3>1 DEF Queued
    <2>3. QED BY <2>1, <2>2 DEF Queued
  <1>8. LatestAgrees(x)'
    BY <1>1, <1>3, <1>4, <1>6, <1>7 DEF InOrder, LatestAgrees, Settled
  <1>9. QED BY <1>4, <1>8 DEF InOrder

\* The sole holder of an undisturbed key writes the informer's content, unless
\* a later event of the key is still to come.
LEMMA StoreInOrder ==
  ASSUME TypeOK, InOrderInv, NEW w \in Workers, Store(w),
         NEW x \in Keys, x \notin disturbed'
  PROVE  InOrder(x)'
  <1> USE DEF TypeOK
  <1>1. InOrder(x)
    BY DEF Store, InOrderInv, InOrder
  <1>2. UNCHANGED <<seen, callback, queue>>
    BY DEF Store
  <1>3. /\ holding[w] # NoEvent
        /\ holding'[w] = NoEvent
        /\ \A w1 \in Workers \ {w} : holding'[w1] = holding[w1]
        /\ holding[w].key \in Keys
    BY DEF Store, Event
  <1>4. (Calling(x)' <=> Calling(x)) /\ (Queued(x)' <=> Queued(x))
    BY <1>2 DEF Calling, Queued
  <1>5. SoleHolder(x)'
    BY <1>1, <1>3 DEF InOrder, SoleHolder
  <1>6. ASSUME NEW w1 \in Workers, holding'[w1] # NoEvent
        PROVE  holding'[w1] = holding[w1]
    BY <1>3, <1>6
  <1>7. CASE holding[w].key = x
    <2>1. Held(x)
      BY <1>3, <1>7 DEF Held
    <2>2. table'[x] = holding[w].row
      BY <1>3, <1>7 DEF Store
    <2>3. ~Calling(x) /\ ~Queued(x) => holding[w].row = seen[x]
      BY <1>1, <1>3, <1>7 DEF InOrder, LatestAgrees
    <2>4. LatestAgrees(x)'
      BY <1>1, <1>2, <1>4, <1>6, <2>2, <2>3 DEF InOrder, LatestAgrees, Settled
    <2>5. QED BY <1>5, <2>4 DEF InOrder
  <1>8. CASE holding[w].key # x
    <2>1. Held(x)' <=> Held(x)
      BY <1>3, <1>8 DEF Held
    <2>2. table'[x] = table[x]
      BY <1>3, <1>8 DEF Store
    <2>3. LatestAgrees(x)'
      BY <1>1, <1>2, <1>4, <1>6, <2>1, <2>2 DEF InOrder, LatestAgrees, Settled
    <2>4. QED BY <1>5, <2>3 DEF InOrder
  <1>9. QED BY <1>7, <1>8

\* A failed store call disturbs its key and leaves the others alone.
LEMMA StoreFailsInOrder ==
  ASSUME TypeOK, InOrderInv, NEW w \in Workers, StoreFails(w),
         NEW x \in Keys, x \notin disturbed'
  PROVE  InOrder(x)'
  <1> USE DEF TypeOK
  <1>1. InOrder(x) /\ holding[w].key # x
    BY DEF StoreFails, InOrderInv, InOrder
  <1>2. UNCHANGED <<seen, callback, queue, table>>
    BY DEF StoreFails
  <1>3. holding'[w] = NoEvent /\ \A w1 \in Workers \ {w} : holding'[w1] = holding[w1]
    BY DEF StoreFails
  <1>4. /\ Calling(x)' <=> Calling(x)
        /\ Queued(x)' <=> Queued(x)
        /\ Held(x)' <=> Held(x)
    BY <1>1, <1>2, <1>3 DEF Calling, Queued, Held
  <1>5. SoleHolder(x)'
    BY <1>1, <1>3 DEF InOrder, SoleHolder
  <1>6. ASSUME NEW w1 \in Workers, holding'[w1] # NoEvent
        PROVE  holding'[w1] = holding[w1]
    BY <1>3, <1>6
  <1>7. LatestAgrees(x)'
    BY <1>1, <1>2, <1>4, <1>6 DEF InOrder, LatestAgrees, Settled
  <1>8. QED BY <1>5, <1>7 DEF InOrder

\* Giving up a handler call disturbs its key and leaves the others alone.
LEMMA AbandonInOrder ==
  ASSUME TypeOK, InOrderInv, NEW i \in Informers, Abandon(i),
         NEW x \in Keys, x \notin disturbed'
  PROVE  InOrder(x)'
  <1> USE DEF TypeOK
  <1>0. InformerOf[x] \in Informers
    BY PipelineAssumption
  <1>1. InOrder(x) /\ callback[i].key # x
    BY DEF Abandon, InOrderInv, InOrder
  <1>2. UNCHANGED <<seen, queue, holding, table>>
    BY DEF Abandon
  <1>3. /\ Calling(x)' <=> Calling(x)
        /\ Calling(x) => callback'[InformerOf[x]] = callback[InformerOf[x]]
    BY <1>0, <1>1 DEF Abandon, Calling
  <1>4. (Queued(x)' <=> Queued(x)) /\ (Held(x)' <=> Held(x)) /\ SoleHolder(x)'
    BY <1>1, <1>2 DEF Queued, Held, InOrder, SoleHolder
  <1>5. LatestAgrees(x)'
    BY <1>1, <1>2, <1>3, <1>4 DEF InOrder, LatestAgrees, Settled
  <1>6. QED BY <1>4, <1>5 DEF InOrder

\* What only the caches, the channel, the workers and the table decide does
\* not change when they do not.
LEMMA UnchangedInOrder ==
  ASSUME InOrderInv, UNCHANGED <<inMemory, table, disturbed>>
         \/ UNCHANGED <<seen, callback, queue, holding, table, disturbed>>
  PROVE  InOrderInv'
  BY DEF InOrderInv, LatestAgrees, SoleHolder, Settled, Calling, Queued, Held, inMemory

\* ... so every step keeps the order or records why not.
LEMMA NextInOrder == TypeOK /\ InOrderInv /\ [Next]_vars => InOrderInv'
  <1> SUFFICES ASSUME TypeOK, InOrderInv, [Next]_vars PROVE InOrderInv'
    OBVIOUS
  <1>1. ASSUME NEW k \in Keys, EdgeChange(k) PROVE InOrderInv'
    BY <1>1, UnchangedInOrder DEF EdgeChange
  <1>2. ASSUME NEW k \in Keys, Notify(k) PROVE InOrderInv'
    <2>1. resource[k] \in Contents
      BY DEF TypeOK
    <2>2. QED
      BY <1>2, <2>1, EmitInOrder DEF Notify, InOrderInv, InOrder
  <1>3. ASSUME NEW k \in Keys, Resync(k) PROVE InOrderInv'
    <2>1. seen[k] \in Contents /\ seen' = [seen EXCEPT ![k] = seen[k]]
      BY <1>3 DEF Resync, TypeOK
    <2>2. QED
      BY <1>3, <2>1, EmitInOrder DEF Resync, InOrderInv, InOrder
  <1>4. ASSUME NEW i \in Informers, Send(i) PROVE InOrderInv'
    BY <1>4, SendInOrder DEF InOrderInv, InOrder
  <1>5. ASSUME NEW i \in Informers, Abandon(i) PROVE InOrderInv'
    BY <1>5, AbandonInOrder DEF InOrderInv, InOrder
  <1>6. ASSUME NEW w \in Workers, Take(w) PROVE InOrderInv'
    BY <1>6, TakeInOrder DEF InOrderInv, InOrder
  <1>7. ASSUME NEW w \in Workers, TakeAfterCancel(w) PROVE InOrderInv'
    BY <1>7, TakeAfterCancelInOrder DEF InOrderInv, InOrder
  <1>8. ASSUME NEW w \in Workers, Store(w) PROVE InOrderInv'
    BY <1>8, StoreInOrder DEF InOrderInv, InOrder
  <1>9. ASSUME NEW w \in Workers, StoreFails(w) PROVE InOrderInv'
    BY <1>9, StoreFailsInOrder DEF InOrderInv, InOrder
  <1>10. ASSUME NEW w \in Workers, WorkerExits(w) PROVE InOrderInv'
    BY <1>10, UnchangedInOrder DEF WorkerExits
  <1>11. CASE Cancel
    BY <1>11, UnchangedInOrder DEF Cancel
  <1>12. CASE ProcessEnds
    <2>1. ASSUME NEW x \in Keys, x \notin disturbed' PROVE InOrder(x)'
      <3>1. table'[x] = NoRow
        BY <1>12, <2>1 DEF ProcessEnds
      <3>2. /\ seen' = EmptyCaches
            /\ callback' = IdleCallbacks
            /\ queue' = <<>>
            /\ holding' = IdleWorkers
        BY <1>12 DEF ProcessEnds
      <3>3. (~Calling(x) /\ ~Held(x) /\ SoleHolder(x))'
        BY <3>2, PipelineAssumption
        DEF Calling, Held, SoleHolder, IdleCallbacks, IdleWorkers
      <3>4. Len(queue') = 0
        BY <3>2
      <3>5. ~Queued(x)'
        BY <3>4 DEF Queued
      <3>6. \A n \in 1..Len(queue') : FALSE
        BY <3>4
      <3>7. seen'[x] = NoRow
        BY <3>2 DEF EmptyCaches
      <3>8. QED
        BY <3>1, <3>3, <3>5, <3>6, <3>7 DEF InOrder, LatestAgrees, Settled, Held
    <2>2. QED BY <2>1 DEF InOrderInv, InOrder
  <1>13. CASE Start
    BY <1>13, UnchangedInOrder DEF Start
  <1>14. CASE UNCHANGED vars
    BY <1>14, UnchangedInOrder DEF vars
  <1>15. QED
    BY <1>1, <1>2, <1>3, <1>4, <1>5, <1>6, <1>7, <1>8, <1>9, <1>10, <1>11, <1>12, <1>13, <1>14
    DEF Next, Informer, Worker, Process

\* Until two workers overlap on a key or one of its events is lost, the latest
\* event of the key is what the informer last saw, wherever it is on its way
\* (handler, channel and process in scraper.go).
THEOREM PipelineInOrder == Spec => []InOrderInv
  <1>1. QED BY TypeCorrect, InitInOrder, NextInOrder, PTL DEF Spec

\* A row with no event under way differs from the informer's cache only after
\* an overlap or a loss, for any number of reports, informers and workers and
\* any capacity of the channel.
THEOREM SettledRowsAreSeen == Spec => []SettledRowIsSeen
  <1>1. InOrderInv => SettledRowIsSeen
    BY DEF InOrderInv, LatestAgrees, SettledRowIsSeen
  <1>2. QED BY <1>1, PipelineInOrder, PTL

-----------------------------------------------------------------------------
(* The pipeline implements EventChannel.                                    *)

\* The events of a channel are its first one and those behind it.
LEMMA EventsOfTail ==
  ASSUME NEW q \in Seq(Event), q # <<>>
  PROVE  {q[n] : n \in 1..Len(q)} = {Head(q)} \cup {Tail(q)[n] : n \in 1..Len(Tail(q))}
  <1>1. /\ Head(q) = q[1]
        /\ Len(q) \in Nat \ {0} /\ Len(Tail(q)) = Len(q) - 1
        /\ \A n \in 1..Len(Tail(q)) : Tail(q)[n] = q[n + 1]
    BY Receive
  <1>2. ASSUME NEW n \in 1..Len(q)
        PROVE  q[n] \in {Head(q)} \cup {Tail(q)[m] : m \in 1..Len(Tail(q))}
    <2>1. CASE n = 1
      BY <1>1, <2>1
    <2>2. CASE n # 1
      <3>1. n - 1 \in 1..Len(Tail(q)) /\ (n - 1) + 1 = n
        BY <1>1, <2>2
      <3>2. Tail(q)[n - 1] = q[n]
        BY <1>1, <3>1
      <3>3. QED BY <3>1, <3>2
    <2>3. QED BY <2>1, <2>2
  <1>3. ASSUME NEW m \in 1..Len(Tail(q))
        PROVE  Tail(q)[m] \in {q[n] : n \in 1..Len(q)}
    <2>1. m + 1 \in 1..Len(q) /\ Tail(q)[m] = q[m + 1]
      BY <1>1
    <2>2. QED BY <2>1
  <1>4. Head(q) \in {q[n] : n \in 1..Len(q)}
    BY <1>1
  <1>5. QED BY <1>2, <1>3, <1>4

\* An event appended to a channel is one more of its events.
LEMMA EventsOfAppend ==
  ASSUME NEW q \in Seq(Event), NEW e \in Event
  PROVE  {Append(q, e)[n] : n \in 1..Len(Append(q, e))} = {q[n] : n \in 1..Len(q)} \cup {e}
  <1>1. /\ Len(q) \in Nat /\ Len(Append(q, e)) = Len(q) + 1
        /\ \A n \in 1..Len(q) : Append(q, e)[n] = q[n]
        /\ Append(q, e)[Len(q) + 1] = e
    BY AppendProperties, LenProperties
  <1>2. 1..(Len(q) + 1) = (1..Len(q)) \cup {Len(q) + 1}
    BY <1>1
  <1>3. QED BY <1>1, <1>2

\* The events under way are those of the handler calls, the channel and the
\* workers.
LEMMA InFlightParts ==
  \A e : e \in InFlight <=>
     \/ \E i \in Informers : callback[i] # NoEvent /\ callback[i] = e
     \/ e \in {queue[n] : n \in 1..Len(queue)}
     \/ \E w \in Workers : holding[w] # NoEvent /\ holding[w] = e
  BY DEF InFlight

\* A callback sends its event, or nothing.
LEMMA EmitIsSend ==
  ASSUME TypeOK, NEW k \in Keys, NEW c \in Contents, Emit(k, c)
  PROVE  UNCHANGED <<InFlight, table>> \/ \E e \in Event : Channel!Send(e)
  <1>1. UNCHANGED <<queue, holding, table>>
    BY DEF Emit
  <1>2. CASE UNCHANGED callback
    BY <1>1, <1>2 DEF InFlight
  <1>3. CASE /\ c \in Storable
             /\ callback' = [callback EXCEPT ![InformerOf[k]] = [key |-> k, row |-> c]]
    <2> DEFINE e == [key |-> k, row |-> c]
    <2>1. e \in Event /\ e # NoEvent
      BY <1>3, EventIsNotNoEvent DEF Event
    <2>2. InformerOf[k] \in Informers /\ callback[InformerOf[k]] = NoEvent
      BY PipelineAssumption DEF Emit
    <2>3. \A i \in Informers :
             callback'[i] = IF i = InformerOf[k] THEN e ELSE callback[i]
      BY <1>3 DEF TypeOK
    <2>4. InFlight' = InFlight \cup {e}
      BY <1>1, <2>1, <2>2, <2>3 DEF InFlight
    <2>5. QED BY <1>1, <2>1, <2>4 DEF Channel!Send
  <1>4. QED BY <1>2, <1>3 DEF Emit

\* From the handler into the channel an event stays under way.
LEMMA SendKeepsInFlight ==
  ASSUME TypeOK, NEW i \in Informers, Send(i)
  PROVE  UNCHANGED <<InFlight, table>>
  <1> DEFINE e == callback[i]
  <1>1. e \in Event /\ e # NoEvent /\ queue \in Seq(Event)
    BY DEF Send, TypeOK
  <1>2. {queue'[n] : n \in 1..Len(queue')} = {queue[n] : n \in 1..Len(queue)} \cup {e}
    BY <1>1, EventsOfAppend DEF Send
  <1>3. \A j \in Informers : callback'[j] = IF j = i THEN NoEvent ELSE callback[j]
    BY DEF Send, TypeOK
  <1>4. UNCHANGED <<holding, table>>
    BY DEF Send
  <1>5. InFlight' = InFlight
    BY <1>1, <1>2, <1>3, <1>4 DEF InFlight
  <1>6. QED BY <1>4, <1>5

\* From the channel to a worker an event stays under way.
LEMMA TakeKeepsInFlight ==
  ASSUME TypeOK, NEW w \in Workers, Take(w)
  PROVE  UNCHANGED <<InFlight, table>>
  <1> DEFINE e == Head(queue)
  <1>1. queue \in Seq(Event) /\ queue # <<>>
    BY DEF Take, TypeOK
  <1>2. e \in Event /\ e # NoEvent
    BY <1>1, Receive, EventIsNotNoEvent
  <1>3. {queue[n] : n \in 1..Len(queue)} = {e} \cup {queue'[n] : n \in 1..Len(queue')}
    BY <1>1, EventsOfTail DEF Take
  <1>4. holding[w] = NoEvent
        /\ \A x \in Workers : holding'[x] = IF x = w THEN e ELSE holding[x]
    BY DEF Take, Idle, TypeOK
  <1>5. UNCHANGED <<callback, table>>
    BY DEF Take
  <1>6. InFlight' = InFlight
    BY <1>2, <1>3, <1>4, <1>5 DEF InFlight
  <1>7. QED BY <1>5, <1>6

\* An event that leaves its place is no longer under way, unless an equal one
\* is.
LEMMA LeavingInFlight ==
  ASSUME TypeOK,
         NEW e \in InFlight,
         \/ \E i \in Informers :
               /\ callback[i] = e /\ callback' = [callback EXCEPT ![i] = NoEvent]
               /\ UNCHANGED <<queue, holding>>
         \/ \E w \in Workers :
               /\ holding[w] = e /\ holding' = [holding EXCEPT ![w] = NoEvent]
               /\ UNCHANGED <<queue, callback>>
         \/ /\ queue # <<>> /\ Head(queue) = e /\ queue' = Tail(queue)
            /\ UNCHANGED <<holding, callback>>
  PROVE  InFlight' \in {InFlight, InFlight \ {e}}
  <1>1. InFlight' \subseteq InFlight /\ InFlight \ {e} \subseteq InFlight'
    <2>1. CASE \E i \in Informers :
                  /\ callback[i] = e /\ callback' = [callback EXCEPT ![i] = NoEvent]
                  /\ UNCHANGED <<queue, holding>>
      BY <2>1 DEF InFlight, TypeOK
    <2>2. CASE \E w \in Workers :
                  /\ holding[w] = e /\ holding' = [holding EXCEPT ![w] = NoEvent]
                  /\ UNCHANGED <<queue, callback>>
      BY <2>2 DEF InFlight, TypeOK
    <2>3. CASE /\ queue # <<>> /\ Head(queue) = e /\ queue' = Tail(queue)
               /\ UNCHANGED <<holding, callback>>
      <3>1. {queue[n] : n \in 1..Len(queue)} = {e} \cup {queue'[n] : n \in 1..Len(queue')}
        BY <2>3, EventsOfTail DEF TypeOK
      <3>2. QED BY <2>3, <3>1 DEF InFlight
    <2>4. QED BY <2>1, <2>2, <2>3
  <1>2. QED BY <1>1

\* An event that leaves without a write is lost, or an equal one remains.
LEMMA LeavingIsLosing ==
  ASSUME NEW e \in Event, e \in InFlight, UNCHANGED table,
         InFlight' \in {InFlight, InFlight \ {e}}
  PROVE  UNCHANGED <<InFlight, table>> \/ Channel!Lose(e)
  BY DEF Channel!Lose

\* Every step of the pipeline is a step of the event channel or none.
LEMMA StepIsChannelStep ==
  ASSUME TypeOK, [Next]_vars
  PROVE  [Channel!Next]_<<InFlight, table>>
  <1>0. Event = Channel!Event
    BY DEF Event, Channel!Event, Storable
  <1>1. ASSUME NEW e \in Event, Channel!Send(e) \/ Channel!Apply(e) \/ Channel!Lose(e)
        PROVE  Channel!Next
    BY <1>0, <1>1 DEF Channel!Next
  <1>2. CASE UNCHANGED <<callback, queue, holding, table>>
    BY <1>2 DEF InFlight
  <1>3. ASSUME NEW k \in Keys, EdgeChange(k) PROVE UNCHANGED <<callback, queue, holding, table>>
    BY <1>3 DEF EdgeChange, inMemory
  <1>4. ASSUME NEW k \in Keys, Notify(k) \/ Resync(k)
        PROVE  [Channel!Next]_<<InFlight, table>>
    <2>1. \E c \in Contents : Emit(k, c)
      BY <1>4 DEF Notify, Resync, TypeOK
    <2>2. QED BY <1>1, <2>1, EmitIsSend
  <1>5. ASSUME NEW i \in Informers, Send(i) PROVE UNCHANGED <<InFlight, table>>
    BY <1>5, SendKeepsInFlight
  <1>6. ASSUME NEW i \in Informers, Abandon(i)
        PROVE  [Channel!Next]_<<InFlight, table>>
    <2>1. callback[i] \in Event /\ callback[i] \in InFlight
      BY <1>6 DEF Abandon, TypeOK, InFlight
    <2>2. InFlight' \in {InFlight, InFlight \ {callback[i]}} /\ UNCHANGED table
      BY <1>6, <2>1, LeavingInFlight DEF Abandon
    <2>3. QED BY <1>1, <2>1, <2>2, LeavingIsLosing
  <1>7. ASSUME NEW w \in Workers, Take(w) PROVE UNCHANGED <<InFlight, table>>
    BY <1>7, TakeKeepsInFlight
  <1>8. ASSUME NEW w \in Workers, TakeAfterCancel(w)
        PROVE  [Channel!Next]_<<InFlight, table>>
    <2>1. /\ queue # <<>> /\ queue \in Seq(Event)
          /\ {queue[n] : n \in 1..Len(queue)}
                = {Head(queue)} \cup {Tail(queue)[n] : n \in 1..Len(Tail(queue))}
      BY <1>8, EventsOfTail DEF TakeAfterCancel, TypeOK
    <2>2. Head(queue) \in Event /\ Head(queue) \in InFlight
      BY <2>1, Receive DEF InFlight
    <2>3. InFlight' \in {InFlight, InFlight \ {Head(queue)}} /\ UNCHANGED table
      BY <1>8, <2>1, <2>2, LeavingInFlight DEF TakeAfterCancel
    <2>4. QED BY <1>1, <2>2, <2>3, LeavingIsLosing
  <1>9. ASSUME NEW w \in Workers, Store(w) \/ StoreFails(w)
        PROVE  [Channel!Next]_<<InFlight, table>>
    <2>1. holding[w] \in Event /\ holding[w] \in InFlight
      BY <1>9 DEF Store, StoreFails, TypeOK, InFlight
    <2>2. InFlight' \in {InFlight, InFlight \ {holding[w]}}
      BY <1>9, <2>1, LeavingInFlight DEF Store, StoreFails
    <2>3. CASE Store(w)
      <3>1. Channel!Apply(holding[w])
        BY <2>1, <2>2, <2>3 DEF Store, Channel!Apply
      <3>2. QED BY <1>1, <2>1, <3>1
    <2>4. CASE StoreFails(w)
      BY <1>1, <2>1, <2>2, <2>4, LeavingIsLosing DEF StoreFails
    <2>5. QED BY <1>9, <2>3, <2>4
  <1>10. ASSUME NEW w \in Workers, WorkerExits(w)
         PROVE  UNCHANGED <<callback, queue, holding, table>>
    BY <1>10 DEF WorkerExits
  <1>11. CASE Cancel \/ Start \/ UNCHANGED vars
    BY <1>2, <1>11 DEF Cancel, Start, vars, inMemory
  <1>12. CASE ProcessEnds
    <2>1. InFlight' = {}
      BY <1>12 DEF ProcessEnds, InFlight, IdleCallbacks, IdleWorkers
    <2>2. QED BY <1>12, <2>1 DEF ProcessEnds, Channel!LoseAll, Channel!Next
  <1>13. QED
    BY <1>2, <1>3, <1>4, <1>5, <1>6, <1>7, <1>8, <1>9, <1>10, <1>11, <1>12
    DEF Next, Informer, Worker, Process

\* The pipeline of any size is an event channel: it stores nothing that no
\* callback sent, nothing after it is gone, and keeps the table through
\* restarts.  HubPull rests on this.
THEOREM PipelineImplementsChannel == Spec => ImplementsChannel
  <1>1. Init => Channel!Init
    BY DEF Init, Channel!Init, InFlight, IdleCallbacks, IdleWorkers
  <1>2. QED
    BY <1>1, StepIsChannelStep, TypeCorrect, PTL DEF Spec, ImplementsChannel, Channel!Spec

-----------------------------------------------------------------------------
(* What becomes of a row while its report stays as it is.                   *)

\* The row is the report, and no event on its way, and no callback to come, says
\* otherwise.
RowIsRight(k) ==
  /\ table[k] = resource[k]
  /\ seen[k] \in {resource[k], NoRow}
  /\ \A e \in InFlight : e.key = k => e.row = resource[k]

\* Overlapping workers, store errors, resyncs, shutdowns, crashes and restarts
\* do no harm to a row that is right: it stays so until the report itself
\* changes.  This is what the initial list of every start and the resync, which
\* send the same report again and again, owe to the table (scraper.go).
RightRowsStay ==
  [][\A k \in Keys : (RowIsRight(k) /\ resource'[k] = resource[k]) => RowIsRight(k)']_vars

\* A row without a report, and without a delete event.
RowIsOrphaned(k) ==
  /\ table[k] # NoRow
  /\ resource[k] = NoRow /\ seen[k] = NoRow
  /\ \A e \in InFlight : e.key # k

\* Nothing repairs such a row, whatever runs or starts anew: a delete event that
\* was lost is made up for by nothing but the report coming back (watcher.go and
\* process in scraper.go; NextStartRepopulates is refuted by this).
OrphanedRowsStay ==
  [][\A k \in Keys :
        (RowIsOrphaned(k) /\ resource'[k] = resource[k])
            => RowIsOrphaned(k)' /\ table'[k] = table[k]]_vars

\* A handler that waits for room in the channel has a way out: as long as the
\* process is not told to stop, every worker is there to make room.
HandlersHaveAWayOut ==
  \A i \in Informers : callback[i] # NoEvent =>
      phase = "stopping" \/ (phase = "running" /\ exited = {})

\* A callback of k sends the report as it is, if it is there at all.
LEMMA CallbackSendsReport ==
  ASSUME TypeOK, NEW k \in Keys, seen[k] \in {resource[k], NoRow},
         NEW j \in Keys, Notify(j) \/ Resync(j)
  PROVE  /\ seen'[k] \in {resource[k], NoRow} /\ UNCHANGED <<resource, table>>
         /\ \A e \in InFlight' : e.key = k =>
               e \in InFlight \/ (e.row = resource[k] /\ resource[k] # NoRow)
  <1>1. PICK c \in Contents : /\ Emit(j, c)
                              /\ j = k => c = resource[k] /\ resource[k] # NoRow
    BY DEF Notify, Resync, TypeOK
  <1>2. UNCHANGED <<resource, table>>
    BY <1>1 DEF Emit
  <1>3. seen'[k] \in {resource[k], NoRow}
    BY DEF Notify, Resync, TypeOK
  <1>4. UNCHANGED <<queue, holding>>
        /\ (callback' = callback
             \/ callback' = [callback EXCEPT ![InformerOf[j]] = [key |-> j, row |-> c]])
    BY <1>1 DEF Emit
  <1>5. \A i \in Informers : callback'[i] \in {callback[i], [key |-> j, row |-> c]}
    BY <1>4 DEF TypeOK
  <1>6. \A e \in InFlight' : e \in InFlight \/ e = [key |-> j, row |-> c]
    BY <1>4, <1>5 DEF InFlight
  <1>7. QED BY <1>1, <1>2, <1>3, <1>6

\* The other steps send nothing, and store nothing that was not under way.
LEMMA OthersSendNothing ==
  ASSUME TypeOK, [Next]_vars, ~(\E j \in Keys : Notify(j) \/ Resync(j))
  PROVE  /\ seen' \in {seen, EmptyCaches} /\ InFlight' \subseteq InFlight
         /\ \A k \in Keys : table'[k] = table[k]
               \/ \E e \in InFlight : e.key = k /\ e.row = table'[k]
  <1>1. CASE UNCHANGED <<seen, callback, queue, holding, table>>
    BY <1>1 DEF InFlight
  <1>2. CASE \E k \in Keys : EdgeChange(k)
    BY <1>1, <1>2 DEF EdgeChange, inMemory
  <1>3. ASSUME NEW i \in Informers, Send(i)
        PROVE  UNCHANGED <<seen, table>> /\ InFlight' \subseteq InFlight
    BY <1>3, SendKeepsInFlight DEF Send
  <1>4. ASSUME NEW i \in Informers, Abandon(i)
        PROVE  UNCHANGED <<seen, table>> /\ InFlight' \subseteq InFlight
    <2>1. callback[i] \in InFlight
      BY <1>4 DEF Abandon, InFlight
    <2>2. QED BY <1>4, <2>1, LeavingInFlight DEF Abandon
  <1>5. ASSUME NEW w \in Workers, Take(w)
        PROVE  UNCHANGED <<seen, table>> /\ InFlight' \subseteq InFlight
    BY <1>5, TakeKeepsInFlight DEF Take
  <1>6. ASSUME NEW w \in Workers, TakeAfterCancel(w)
        PROVE  UNCHANGED <<seen, table>> /\ InFlight' \subseteq InFlight
    <2>1. queue # <<>> /\ queue \in Seq(Event)
      BY <1>6 DEF TakeAfterCancel, TypeOK
    <2>2. Head(queue) \in InFlight
      BY <2>1, EventsOfTail DEF InFlight
    <2>3. QED BY <1>6, <2>1, <2>2, LeavingInFlight DEF TakeAfterCancel
  <1>7. ASSUME NEW w \in Workers, Store(w) \/ StoreFails(w)
        PROVE  /\ UNCHANGED seen /\ InFlight' \subseteq InFlight
               /\ \A k \in Keys : table'[k] = table[k]
                     \/ \E e \in InFlight : e.key = k /\ e.row = table'[k]
    <2>1. holding[w] \in InFlight
      BY <1>7 DEF Store, StoreFails, InFlight
    <2>2. InFlight' \subseteq InFlight /\ UNCHANGED seen
      BY <1>7, <2>1, LeavingInFlight DEF Store, StoreFails
    <2>3. CASE Store(w)
      BY <2>1, <2>2, <2>3 DEF Store, TypeOK
    <2>4. CASE StoreFails(w)
      BY <2>2, <2>4 DEF StoreFails
    <2>5. QED BY <1>7, <2>3, <2>4
  <1>8. CASE \E w \in Workers : WorkerExits(w)
    BY <1>1, <1>8 DEF WorkerExits
  <1>9. CASE Cancel \/ Start \/ UNCHANGED vars
    BY <1>1, <1>9 DEF Cancel, Start, vars, inMemory
  <1>10. CASE ProcessEnds
    <2>1. InFlight' = {}
      BY <1>10 DEF ProcessEnds, InFlight, IdleCallbacks, IdleWorkers
    <2>2. QED BY <1>10, <2>1 DEF ProcessEnds
  <1>11. QED
    BY <1>2, <1>3, <1>4, <1>5, <1>6, <1>7, <1>8, <1>9, <1>10 DEF Next, Informer, Worker, Process

\* Both together, for a report that stays as it is.
LEMMA StepOfKey ==
  ASSUME TypeOK, [Next]_vars, NEW k \in Keys,
         resource'[k] = resource[k], seen[k] \in {resource[k], NoRow}
  PROVE  /\ seen'[k] \in {resource[k], NoRow}
         /\ \A e \in InFlight' : e.key = k =>
               e \in InFlight \/ (e.row = resource[k] /\ resource[k] # NoRow)
         /\ table'[k] = table[k] \/ \E e \in InFlight : e.key = k /\ e.row = table'[k]
  <1>1. CASE \E j \in Keys : Notify(j) \/ Resync(j)
    BY <1>1, CallbackSendsReport
  <1>2. CASE ~(\E j \in Keys : Notify(j) \/ Resync(j))
    <2>1. seen'[k] \in {seen[k], NoRow}
      BY <1>2, OthersSendNothing DEF EmptyCaches
    <2>2. QED BY <1>2, <2>1, OthersSendNothing
  <1>3. QED BY <1>1, <1>2

\* Whatever goes wrong around it, a row that has come right stays right: the
\* half of ExistingReportsAppear and DeletedReportsVanish that needs no fairness.
THEOREM RightRowsStayRight == Spec => RightRowsStay
  <1> DEFINE Stays == \A k \in Keys :
        (RowIsRight(k) /\ resource'[k] = resource[k]) => RowIsRight(k)'
  <1>1. TypeOK /\ [Next]_vars => [Stays]_vars
    <2> SUFFICES ASSUME TypeOK, [Next]_vars, NEW k \in Keys, RowIsRight(k),
                        resource'[k] = resource[k]
                 PROVE  RowIsRight(k)'
      OBVIOUS
    <2>1. QED BY StepOfKey DEF RowIsRight
  <1>2. QED BY <1>1, TypeCorrect, PTL DEF Spec, RightRowsStay

\* The row of a report whose delete event was lost stays for ever, with any
\* number of resyncs and restarts, for any size of the pipeline.
THEOREM OrphansStay == Spec => OrphanedRowsStay
  <1> DEFINE Stays == \A k \in Keys :
        (RowIsOrphaned(k) /\ resource'[k] = resource[k])
            => RowIsOrphaned(k)' /\ table'[k] = table[k]
  <1>1. TypeOK /\ [Next]_vars => [Stays]_vars
    <2> SUFFICES ASSUME TypeOK, [Next]_vars, NEW k \in Keys, RowIsOrphaned(k),
                        resource'[k] = resource[k]
                 PROVE  RowIsOrphaned(k)' /\ table'[k] = table[k]
      OBVIOUS
    <2>1. QED BY StepOfKey DEF RowIsOrphaned
  <1>2. QED BY <1>1, TypeCorrect, PTL DEF Spec, OrphanedRowsStay

\* A full channel blocks no informer callback for good: its workers only leave,
\* and it is only abandoned, after cancellation (handler, worker).
THEOREM HandlersAlwaysHaveAWayOut == Spec => []HandlersHaveAWayOut
  <1> DEFINE Inv == /\ phase = "running" => exited = {}
                    /\ phase = "down" => exited = {} /\ callback = IdleCallbacks
  <1>1. Init => Inv
    BY DEF Init
  <1>2. TypeOK /\ Inv /\ [Next]_vars => Inv'
    <2> SUFFICES ASSUME TypeOK, Inv, [Next]_vars PROVE Inv'
      OBVIOUS
    <2>1. CASE UNCHANGED vars
      BY <2>1 DEF vars, inMemory
    <2>2. ASSUME NEW k \in Keys, EdgeChange(k) PROVE Inv'
      BY <2>2 DEF EdgeChange, inMemory
    <2>3. ASSUME NEW k \in Keys, Notify(k) \/ Resync(k) PROVE Inv'
      BY <2>3 DEF Notify, Resync, Emit
    <2>4. ASSUME NEW i \in Informers, Informer(i) PROVE Inv'
      <3>1. callback[i] # NoEvent /\ UNCHANGED <<exited, phase>>
        BY <2>4 DEF Informer, Send, Abandon
      <3>2. phase # "down"
        BY <3>1 DEF IdleCallbacks
      <3>3. QED BY <3>1, <3>2
    <2>5. ASSUME NEW w \in Workers, Worker(w) PROVE Inv'
      BY <2>5 DEF Worker, Take, TakeAfterCancel, Store, StoreFails, WorkerExits
    <2>6. CASE Process
      BY <2>6 DEF Process, Cancel, ProcessEnds, Start, inMemory
    <2>7. QED BY <2>1, <2>2, <2>3, <2>4, <2>5, <2>6 DEF Next
  <1>3. TypeOK /\ Inv => HandlersHaveAWayOut
    BY DEF TypeOK, HandlersHaveAWayOut, IdleCallbacks
  <1>4. QED BY <1>1, <1>2, <1>3, TypeCorrect, PTL DEF Spec

=============================================================================
