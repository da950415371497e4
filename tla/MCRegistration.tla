--------------------------- MODULE MCRegistration ---------------------------
(***************************************************************************)
(* An instance of Registration for TLC: the Secrets of two clusters and one *)
(* written by hand that may register either.                                *)
(***************************************************************************)
EXTENDS Registration, TLC

CONSTANTS east, west, clusterEast, clusterWest, byHand, r1, r2

ClusterSecret == (east :> clusterEast) @@ (west :> clusterWest)

\* The handlers run the same code.
HandlersAlike == Permutations({r1, r2})

=============================================================================
