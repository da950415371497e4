----------------------------- MODULE ReportsPage -----------------------------
(***************************************************************************)
(* The lists of vulnerability and of SBOM reports                           *)
(* (web/src/pages/ReportsPage.tsx, web/src/components/ReportsView.tsx): the *)
(* filters in the URL, the popup that sets one of them                      *)
(* (web/src/components/FilterPopup.tsx), and the namespaces that the layout *)
(* offers for the cluster of the filters (web/src/components/Layout.tsx).   *)
(*                                                                          *)
(* The two routes share a mount of the page, and the layout lives on from   *)
(* one mount to the next.  What is in the database does not change here: a  *)
(* list is known by what was asked for.                                     *)
(***************************************************************************)
EXTENDS Naturals, SequencesExt

CONSTANTS
    ReportTypes,   \* "vulnerabilityreport", "sbomreport"
    FilterClusters,\* the clusters that are offered, loaded once by the layout
    Namespaces,    \* the namespaces of all reports
    NamespacesOf,  \* those of the clusters that are offered
    Unfiltered,           \* no filter
    NoAnswer,      \* nothing yet; the last answer was a failure
    UrlFilters,    \* the questions of the URLs that links and bookmarks lead to
    MaxReportRequests \* bound: requests under way

Clusters == FilterClusters \cup {Unfiltered}

Values == Clusters \cup Namespaces

\* reportType, and the filters of the URL; that of the application, a text of
\* its own, changes and is asked for like these, and is left out.
ListQuestion == [type : ReportTypes, cluster : Values, namespace : Values]

\* history: from, of a namespace, the cluster whose namespaces it is one of as
\* far as the user could see; NoAnswer when the value is that of another filter.
Popup == [key : {"cluster", "namespace"}, value : Values, from : Values \cup {NoAnswer}]

ASSUME ReportsAssumption ==
    /\ NamespacesOf \in [FilterClusters -> SUBSET Namespaces]
    /\ Unfiltered \notin FilterClusters \cup Namespaces
    /\ NoAnswer \notin Values \cup ListQuestion \cup Popup
    /\ UrlFilters \subseteq ListQuestion
    /\ MaxReportRequests \in Nat

VARIABLES
    filters,       \* the question of the page
    reports,       \* reports: the question that they answer
    reportFetches, \* the requests of loadReports, as they were sent
    namespaceOptions, \* namespaceOptions: the cluster they are of
    namespaceFetches, \* the requests of the layout for them
    filterPopup,   \* filterPopup, and the state of FilterPopup
    reportsCrossed,\* history: asked while a request for another list was under way
    namespaceAstray, \* history: the namespace was not on offer for the cluster
    namespacesCrossed \* history: the namespaces were asked for so, or not at all since
                      \* the last request failed

reportVars == <<filters, reports, reportFetches, namespaceOptions, namespaceFetches,
                filterPopup, reportsCrossed, namespaceAstray, namespacesCrossed>>

-----------------------------------------------------------------------------

\* The namespaces of a cluster, or of all; none of a cluster that there is not.
In(c) ==
    IF c = Unfiltered THEN Namespaces
    ELSE IF c \in FilterClusters THEN NamespacesOf[c] ELSE {}

MayAskReports == Len(reportFetches) + Len(namespaceFetches) < MaxReportRequests

\* The layout asks for the namespaces of the cluster of the filters, which the
\* page tells it, when that is not the one it was told before.
AskNamespaces ==
    IF filters'.cluster = filters.cluster
    THEN UNCHANGED <<namespaceFetches, namespacesCrossed>>
    ELSE /\ namespaceFetches' = Append(namespaceFetches, filters'.cluster)
         /\ namespacesCrossed' = (namespaceFetches # <<>>)

\* The effects of a new question: loadReports, and the layout's request.
LoadReports ==
    IF filters' = filters
    THEN UNCHANGED <<reportFetches, namespaceFetches, reportsCrossed, namespacesCrossed>>
    ELSE /\ MayAskReports
         /\ reportFetches' = Append(reportFetches, filters')
         /\ reportsCrossed' = (reportFetches # <<>>)
         /\ AskNamespaces

\* The namespace of a URL is that of another cluster, or of none.
Astray(f) == f.namespace \notin In(f.cluster) \cup {Unfiltered}

\* The application starts with a URL that may ask for anything.  The layout asks
\* for all namespaces first, and again when the page tells it of a cluster.
ReportsInit ==
    /\ filters \in UrlFilters
    /\ reports = NoAnswer
    /\ reportFetches = <<filters>>
    /\ namespaceOptions = NoAnswer
    /\ namespaceFetches = <<Unfiltered>> \o
          (IF filters.cluster = Unfiltered THEN <<>> ELSE <<filters.cluster>>)
    /\ filterPopup = NoAnswer
    /\ reportsCrossed = FALSE
    /\ namespaceAstray = Astray(filters)
    /\ namespacesCrossed = (filters.cluster # Unfiltered)

-----------------------------------------------------------------------------
(* The answers.                                                             *)

ReportsArrive(i) ==
    /\ reports' = reportFetches[i]
    /\ reportFetches' = RemoveAt(reportFetches, i)
    /\ UNCHANGED <<filters, namespaceOptions, namespaceFetches, filterPopup,
                   reportsCrossed, namespaceAstray, namespacesCrossed>>

\* catch: an empty list, as if there were none.
ReportsFail(i) ==
    /\ reports' = NoAnswer
    /\ reportFetches' = RemoveAt(reportFetches, i)
    /\ UNCHANGED <<filters, namespaceOptions, namespaceFetches, filterPopup,
                   reportsCrossed, namespaceAstray, namespacesCrossed>>

NamespacesArrive(i) ==
    /\ namespaceOptions' = namespaceFetches[i]
    /\ namespaceFetches' = RemoveAt(namespaceFetches, i)
    /\ UNCHANGED <<filters, reports, reportFetches, filterPopup,
                   reportsCrossed, namespaceAstray, namespacesCrossed>>

\* The failure is logged, and the namespaces stay those of the cluster before.
NamespacesFail(i) ==
    /\ namespaceFetches' = RemoveAt(namespaceFetches, i)
    /\ namespacesCrossed' = TRUE
    /\ UNCHANGED <<filters, reports, reportFetches, namespaceOptions, filterPopup,
                   reportsCrossed, namespaceAstray>>

-----------------------------------------------------------------------------
(* The filters.                                                             *)

\* Mutant: the list is not asked for when only the type changes.
SwitchTypeQuietly(t) ==
    /\ t # filters.type
    /\ filters' = [type |-> t, cluster |-> Unfiltered, namespace |-> Unfiltered]
    /\ IF filters.cluster = Unfiltered /\ filters.namespace = Unfiltered
       THEN UNCHANGED <<reportFetches, namespaceFetches, reportsCrossed, namespacesCrossed>>
       ELSE LoadReports
    /\ namespaceAstray' = FALSE
    /\ UNCHANGED <<reports, namespaceOptions, filterPopup>>

\* The link to the other list, which has no filters: the page stays mounted,
\* and the popup open.
SwitchType(t) ==
    /\ t # filters.type
    /\ filters' = [type |-> t, cluster |-> Unfiltered, namespace |-> Unfiltered]
    /\ LoadReports
    /\ namespaceAstray' = FALSE
    /\ UNCHANGED <<reports, namespaceOptions, filterPopup>>

\* openFilter: a popup that is open keeps its value when it becomes one for
\* the other key.
OpenFilter(k) ==
    /\ filterPopup' =
          IF filterPopup = NoAnswer
          THEN [key |-> k, value |-> filters[k],
                from |-> IF namespaceAstray \/ k = "cluster" THEN NoAnswer ELSE filters.cluster]
          ELSE [filterPopup EXCEPT !.key = k, !.from = IF k = filterPopup.key THEN @ ELSE NoAnswer]
    /\ UNCHANGED <<filters, reports, reportFetches, namespaceOptions, namespaceFetches,
                   reportsCrossed, namespaceAstray, namespacesCrossed>>

\* The user selects one of the options of the popup.
SelectOption ==
    /\ filterPopup # NoAnswer
    /\ IF filterPopup.key = "cluster"
       THEN \E v \in Clusters : filterPopup' = [filterPopup EXCEPT !.value = v]
       ELSE \E v \in {Unfiltered} \cup IF namespaceOptions = NoAnswer THEN {} ELSE In(namespaceOptions) :
               filterPopup' = [filterPopup EXCEPT !.value = v, !.from = namespaceOptions]
    /\ UNCHANGED <<filters, reports, reportFetches, namespaceOptions, namespaceFetches,
                   reportsCrossed, namespaceAstray, namespacesCrossed>>

ClosePopup ==
    /\ filterPopup # NoAnswer
    /\ filterPopup' = NoAnswer
    /\ UNCHANGED <<filters, reports, reportFetches, namespaceOptions, namespaceFetches,
                   reportsCrossed, namespaceAstray, namespacesCrossed>>

\* Mutant: the namespace survives a change of the cluster.
ApplyKeeps(v) ==
    /\ filterPopup # NoAnswer
    /\ filters' = IF filterPopup.key = "cluster" THEN [filters EXCEPT !.cluster = v]
                  ELSE [filters EXCEPT !.namespace = v]
    /\ namespaceAstray' =
          IF filterPopup.key = "cluster" \/ v = Unfiltered THEN FALSE
          ELSE filterPopup.from # filters.cluster
    /\ filterPopup' = NoAnswer
    /\ LoadReports
    /\ UNCHANGED <<reports, namespaceOptions>>

\* handleFilterChange and handleFilterClear: a cluster that is set or cleared,
\* also to what it was, takes the namespace with it.
Apply(v) ==
    /\ filterPopup # NoAnswer
    /\ filters' = IF filterPopup.key = "cluster"
                  THEN [filters EXCEPT !.cluster = v, !.namespace = Unfiltered]
                  ELSE [filters EXCEPT !.namespace = v]
    /\ namespaceAstray' =
          IF filterPopup.key = "cluster" \/ v = Unfiltered THEN FALSE
          ELSE filterPopup.from # filters.cluster
    /\ filterPopup' = NoAnswer
    /\ LoadReports
    /\ UNCHANGED <<reports, namespaceOptions>>

\* onClearAllFilters, of a list that is empty, and the link to the list: the
\* popup may be open.
ClearAll ==
    /\ filters' = [filters EXCEPT !.cluster = Unfiltered, !.namespace = Unfiltered]
    /\ LoadReports
    /\ namespaceAstray' = FALSE
    /\ UNCHANGED <<reports, namespaceOptions, filterPopup>>

\* The browser's back and forward, within a mount: the popup may be open.
GoTo(f) ==
    /\ filters' = f
    /\ LoadReports
    /\ namespaceAstray' = Astray(f)
    /\ UNCHANGED <<reports, namespaceOptions, filterPopup>>

\* Mutant: the layout forgets its cluster between two mounts, and asks nothing
\* when the page comes back without one.
ComeBackToAll(f) ==
    /\ Len(namespaceFetches) < MaxReportRequests
    /\ filters' = f
    /\ IF f.cluster = Unfiltered
       THEN UNCHANGED <<namespaceFetches, namespacesCrossed>>
       ELSE AskNamespaces
    /\ reports' = NoAnswer /\ reportFetches' = <<f>> /\ filterPopup' = NoAnswer
    /\ reportsCrossed' = FALSE
    /\ namespaceAstray' = Astray(f)
    /\ UNCHANGED namespaceOptions

\* The user leaves for another page, and comes back by any URL.  Of the old mount
\* nothing is left, what it still asks for included; the layout has what it had,
\* and its requests go on.
ComeBack(f) ==
    /\ Len(namespaceFetches) < MaxReportRequests
    /\ filters' = f
    /\ AskNamespaces
    /\ reports' = NoAnswer /\ reportFetches' = <<f>> /\ filterPopup' = NoAnswer
    /\ reportsCrossed' = FALSE
    /\ namespaceAstray' = Astray(f)
    /\ UNCHANGED namespaceOptions

ReportsNext ==
    \/ \E i \in DOMAIN reportFetches : ReportsArrive(i) \/ ReportsFail(i)
    \/ \E i \in DOMAIN namespaceFetches : NamespacesArrive(i) \/ NamespacesFail(i)
    \/ \E t \in ReportTypes : SwitchType(t)
    \/ \E k \in {"cluster", "namespace"} : OpenFilter(k)
    \/ SelectOption \/ ClosePopup
    \/ filterPopup # NoAnswer /\ (Apply(filterPopup.value) \/ Apply(Unfiltered))
    \/ ClearAll
    \/ \E f \in UrlFilters : GoTo(f) \/ ComeBack(f)

ReportsSpec == ReportsInit /\ [][ReportsNext]_reportVars

-----------------------------------------------------------------------------

ReportsTypeOK ==
    /\ filters \in ListQuestion
    /\ reports \in ListQuestion \cup {NoAnswer}
    /\ reportFetches \in Seq(ListQuestion)
    /\ namespaceOptions \in Values \cup {NoAnswer}
    /\ namespaceFetches \in Seq(Values)
    /\ filterPopup \in Popup \cup {NoAnswer}
    /\ reportsCrossed \in BOOLEAN /\ namespaceAstray \in BOOLEAN /\ namespacesCrossed \in BOOLEAN

\* A list that waits for nothing is that of its filters, or empty after a
\* failure, unless it was asked for while the request for another was under way;
\* and so are the namespaces on offer, across all mounts of the page, unless they
\* failed and nobody asked again (ReportsPage.tsx:38-46, Layout.tsx:40-44).
ReportsAnswerFilters ==
    /\ (reportFetches = <<>> /\ ~reportsCrossed) => reports \in {filters, NoAnswer}
    /\ (namespaceFetches = <<>> /\ ~namespacesCrossed) => namespaceOptions = filters.cluster

\* The filter for the namespace is one of the cluster, as long as it was
\* selected among the namespaces of that cluster, and in a popup that was opened
\* for it (ReportsPage.tsx:56-74, FilterPopup.tsx:28).
NamespaceOfItsCluster ==
    ~namespaceAstray => filters.namespace \in In(filters.cluster) \cup {Unfiltered}

ReportsShown == INSTANCE Viewing WITH
    Questions <- ListQuestion, Nothing <- NoAnswer, asked <- filters, shown <- reports

NamespacesShown == INSTANCE Viewing WITH
    Questions <- Values, Nothing <- NoAnswer,
    asked <- filters.cluster, shown <- namespaceOptions

\* The list that comes to be shown is that of the filters, and the namespaces on
\* offer are those of its cluster, unless either was asked for while the request
\* for another was under way, or the namespaces failed, on this mount or on one
\* before it (ReportsPage.tsx:38-46, Layout.tsx:40-44).
ReportsAreViewing ==
    /\ [][reportsCrossed \/ ReportsShown!Next]_<<filters, reports>>
    /\ [][namespacesCrossed \/ NamespacesShown!Next]_<<filters, namespaceOptions>>

=============================================================================
