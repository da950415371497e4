----------------------------- MODULE EventChannel -----------------------------
(***************************************************************************)
(* What the way from the watchers to the store promises: an event under way *)
(* may be stored or lost at any time and in any order, equal events may be  *)
(* stored together or one after the other, the end of the process loses     *)
(* them all, and the table changes by nothing else.  EventPipeline, with    *)
(* its channel and workers, implements this; HubPull is built on it.        *)
(***************************************************************************)
CONSTANTS
    Keys,   \* what has a row in the table
    Rows,   \* the rows there can be
    NoRow   \* no row

VARIABLES
    flight, \* the events under way: handler calls, channel, workers
    table   \* the rows of the reports table

\* watcher.Event: the row it leaves behind, NoRow for a delete.
Event == [key : Keys, row : Rows \cup {NoRow}]

Init == flight = {} /\ table = [k \in Keys |-> NoRow]

\* A callback enters the handler.
Send(e) == flight' = flight \cup {e} /\ UNCHANGED table

\* A worker stores the event; another that equals it may still be under way.
Apply(e) ==
    /\ e \in flight
    /\ table' = [table EXCEPT ![e.key] = e.row]
    /\ flight' \in {flight, flight \ {e}}

\* A store error, or a done context.
Lose(e) ==
    /\ e \in flight
    /\ flight' = flight \ {e}
    /\ UNCHANGED table

\* The process ends.
LoseAll == flight' = {} /\ UNCHANGED table

Next ==
    \/ \E e \in Event : Send(e) \/ Apply(e) \/ Lose(e)
    \/ LoseAll

Spec == Init /\ [][Next]_<<flight, table>>

=============================================================================
