-------------------------- MODULE MCEventPipeline --------------------------
(***************************************************************************)
(* Instances of EventPipeline for TLC.                                      *)
(***************************************************************************)
EXTENDS EventPipeline, TLC

CONSTANTS k1, k2, v1, v2, bad, i1, i2, w1, w2

\* Two reports of different types: one informer each.
TwoInformers == (k1 :> i1) @@ (k2 :> i2)

\* The workers run the same code.
WorkersAlike == Permutations({w1, w2})

\* A single report.
SingleKey == [k \in {k1} |-> i1]

=============================================================================
