-------------------------------- MODULE MCApp --------------------------------
(* Instances of App for TLC.                                                  *)
EXTENDS App, TLC

\* A cluster that has no reports yet.
MCNamespacesOf == "a" :> {}

\* Links to one of the two lists; the other is reached by its tab.
MCUrlFilters ==
    [type : {"vulnerabilityreport"}, cluster : {"a", Unfiltered}, namespace : {"x", Unfiltered}]

\* One name is suggested for the one text, two for the other.
MCSuggested == ("x" :> 1) @@ ("y" :> 2)

=============================================================================
