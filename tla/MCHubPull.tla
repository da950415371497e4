------------------------------ MODULE MCHubPull ------------------------------
(***************************************************************************)
(* Instances of HubPull for TLC.                                            *)
(***************************************************************************)
EXTENDS HubPull, TLC

CONSTANTS s1, s2, east, west

\* Secrets and cluster names are each interchangeable.
Alike == Permutations({s1, s2}) \cup Permutations({east, west})

=============================================================================
