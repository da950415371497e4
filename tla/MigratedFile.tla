----------------------------- MODULE MigratedFile -----------------------------
(***************************************************************************)
(* What migrate, storage.Open and the callback onReady promise together,    *)
(* whoever opens the file, when, and how often it fails: the migrations are *)
(* committed in their order, each of them once, and a process serves after  *)
(* the last.  Startup implements this.                                      *)
(***************************************************************************)
EXTENDS Naturals

CONSTANTS
    Processes,    \* who opens the file
    LastVersion   \* the version of the last migration

VARIABLES
    version,  \* the migrations committed so far
    serving   \* the processes that have reported ready and not started anew

Init == version = 0 /\ serving = {}

\* The next migration, by whichever process wins the race for it.
Migrate ==
    /\ version < LastVersion
    /\ version' = version + 1
    /\ UNCHANGED serving

Serve(p) ==
    /\ version = LastVersion
    /\ serving' = serving \cup {p}
    /\ UNCHANGED version

Restart(p) ==
    /\ serving' = serving \ {p}
    /\ UNCHANGED version

Next ==
    \/ Migrate
    \/ \E p \in Processes : Serve(p) \/ Restart(p)

Spec == Init /\ [][Next]_<<version, serving>>

=============================================================================
