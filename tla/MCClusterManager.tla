-------------------------- MODULE MCClusterManager --------------------------
(***************************************************************************)
(* An instance of ClusterManager for TLC: two Secrets that can carry the    *)
(* same cluster name or two different ones.                                 *)
(***************************************************************************)
EXTENDS ClusterManager

CONSTANTS s1, s2, east, west

=============================================================================
