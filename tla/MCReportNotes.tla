--------------------------- MODULE MCReportNotes ---------------------------
(***************************************************************************)
(* An instance of ReportNotes for TLC: two reports of one cluster.          *)
(***************************************************************************)
EXTENDS ReportNotes, TLC

CONSTANTS r1, r2, east, triaged, get1, get2, put1, put2

AllEast == [r \in {r1, r2} |-> east]

\* The reports of a cluster are alike, and so are requests of one kind.
Alike == Permutations({r1, r2}) \cup Permutations({get1, get2}) \cup Permutations({put1, put2})

=============================================================================
