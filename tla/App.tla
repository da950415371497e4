--------------------------------- MODULE App ---------------------------------
(***************************************************************************)
(* The pages of the web UI (web/src/App.tsx), of a user who is signed in    *)
(* and permitted to use them.  The routes mount one page at a time, and one *)
(* that is mounted again starts anew, so a behaviour is one mount of one of *)
(* them: of what the pages before it still have under way, the answers are  *)
(* dropped, and the effects are what others do to the log, the rules, the   *)
(* tokens and the registrations.  Only the lists of reports depend on what  *)
(* the layout keeps from page to page: a behaviour of them has many mounts. *)
(***************************************************************************)
EXTENDS AuditPage, AlertsPage, TokensPage, ClustersPage, ReportsPage, SearchPage,
        DashboardView, AlertPreview

CONSTANT Routes  \* the pages that may be mounted

ASSUME RoutesAssumption ==
    Routes \subseteq {"audit", "alerts", "tokens", "clusters", "reports", "search",
                      "dashboard", "preview"}

VARIABLE page  \* the page that is mounted; "preview": the form of AlertsPage

adminVars == <<auditVars, alertVars, tokenVars, clusterVars>>
readVars == <<reportVars, searchVars, dashboardVars, previewVars>>
appVars == <<page, adminVars, readVars>>

-----------------------------------------------------------------------------

\* A page that is not mounted has one state, and keeps it.
AppInit ==
    /\ page \in Routes
    /\ AuditInit /\ (page # "audit" => apiLog = [f \in Filters \cup {All} |-> 0])
    /\ AlertsInit /\ (page # "alerts" => storedRules = {})
    /\ TokensInit /\ (page # "tokens" => storedTokens = {})
    /\ ClustersInit /\ (page # "clusters" => registered = {} /\ synced = {} /\ dbClusters = {})
    /\ ReportsInit /\ (page # "reports" => filters = CHOOSE f \in UrlFilters : TRUE)
    /\ SearchInit /\ (page # "search" => query = Blank)
    /\ DashboardInit /\ (page # "dashboard" => view = CHOOSE v \in Views : TRUE)
    /\ PreviewInit /\ (page # "preview" => matchers = NotReady)

AppNext ==
    /\ UNCHANGED page
    /\ \/ /\ page = "audit" /\ AuditNext
          /\ UNCHANGED <<alertVars, tokenVars, clusterVars, readVars>>
       \/ /\ page = "alerts" /\ AlertsNext
          /\ UNCHANGED <<auditVars, tokenVars, clusterVars, readVars>>
       \/ /\ page = "tokens" /\ TokensNext
          /\ UNCHANGED <<auditVars, alertVars, clusterVars, readVars>>
       \/ /\ page = "clusters" /\ ClustersNext
          /\ UNCHANGED <<auditVars, alertVars, tokenVars, readVars>>
       \/ /\ page = "reports" /\ ReportsNext
          /\ UNCHANGED <<adminVars, searchVars, dashboardVars, previewVars>>
       \/ /\ page = "search" /\ SearchNext
          /\ UNCHANGED <<adminVars, reportVars, dashboardVars, previewVars>>
       \/ /\ page = "dashboard" /\ DashboardNext
          /\ UNCHANGED <<adminVars, reportVars, searchVars, previewVars>>
       \/ /\ page = "preview" /\ PreviewNext
          /\ UNCHANGED <<adminVars, reportVars, searchVars, dashboardVars>>

\* Fairness matters to the page that is mounted: where it is not, its actions
\* are not steps of AppNext.
AppFairness ==
    /\ page = "clusters" => ClustersFairness
    /\ page = "preview" => PreviewFairness

AppSpec == AppInit /\ [][AppNext]_appVars /\ AppFairness

-----------------------------------------------------------------------------

AppTypeOK ==
    /\ AuditTypeOK /\ AlertsTypeOK /\ TokensTypeOK /\ ClustersTypeOK
    /\ ReportsTypeOK /\ SearchTypeOK /\ DashboardTypeOK /\ PreviewTypeOK

\* While a page waits for no answer it shows what its filters, its query or its
\* range ask for, or what is stored; the exceptions are each page's own, and
\* each of them is a way in which the code lets an old answer win.
ListsAreTrue ==
    /\ ShowsLogOfItsFilters /\ ListsStoredRules /\ ListsStoredTokens
    /\ ReportsAnswerFilters /\ SearchAnswersQuery /\ TrendsAnswerView

\* What makes the lists true: nothing new is shown but the answer to what is
\* asked for, on every page that reads and does not ask across an older request.
\* Of the dashboard, the lists, the searches and the log, which do not cancel what
\* they asked before, that is as much of Viewing as they implement (the preview,
\* which does, implements all of it: PreviewIsViewing).
ViewsUnlessCrossed ==
    LogIsViewing /\ ReportsAreViewing /\ SearchIsViewing /\ TrendsAreViewing

\* What a user is entering on a page is taken from view by the user, or by the
\* answer to what was sent from it, and by that to an older request only if it
\* was still under way when the user began.
DraftsSurvive == FormsSurvive /\ DialogsSurvive /\ WizardSurvives

\* What the user takes from a list was in the list that belongs to the page's
\* state: a suggestion, a namespace of the cluster.
PicksAreOnOffer == EnterPicksASuggestion /\ NamespaceOfItsCluster

=============================================================================
