--------------------------- MODULE DashboardView ---------------------------
(***************************************************************************)
(* The dashboard (web/src/components/DashboardView.tsx): the trends of a    *)
(* range of time and of a cluster, asked for on a change, on demand, and by *)
(* a countdown.                                                             *)
(*                                                                          *)
(* One mount of the page; a trend is known by what was asked for.           *)
(***************************************************************************)
EXTENDS Naturals, SequencesExt

CONSTANTS
    Views,            \* the pairs of a range and a cluster
    RefreshInterval,  \* REFRESH_INTERVAL
    NoTrend,          \* trendData is null
    MaxTrendRequests  \* bound: requests under way

ASSUME DashboardAssumption ==
    /\ NoTrend \notin Views
    /\ RefreshInterval \in Nat \ {0}
    /\ MaxTrendRequests \in Nat

\* A loadData: what it asks for; and, of a handleRefresh, whether it resets the
\* countdown: the autoRefresh that it has captured.
TrendFetch == [of : Views, resets : BOOLEAN]

VARIABLES
    view,          \* range and cluster
    trendData,     \* trendData and statsData: what they answer
    trendFetches,  \* the requests of loadData, as they were sent
    trendError,    \* loadError
    autoRefresh, countdown,
    dropdown,      \* rangeOpen or clusterOpen
    trendsCrossed  \* history: asked while a request for another view was under way

dashboardVars == <<view, trendData, trendFetches, trendError, autoRefresh, countdown,
                   dropdown, trendsCrossed>>

-----------------------------------------------------------------------------

\* Mutant: the request is for the range and cluster of the render before.
LoadDataStale(resets) ==
    /\ Len(trendFetches) < MaxTrendRequests
    /\ trendFetches' = Append(trendFetches, [of |-> view, resets |-> resets])
    /\ trendsCrossed' = \E i \in DOMAIN trendFetches : trendFetches[i].of # view'

\* loadData of a render, up to its requests.
LoadData(resets) ==
    /\ Len(trendFetches) < MaxTrendRequests
    /\ trendFetches' = Append(trendFetches, [of |-> view', resets |-> resets])
    /\ trendsCrossed' = \E i \in DOMAIN trendFetches : trendFetches[i].of # view'

DashboardInit ==
    /\ view \in Views
    /\ trendData = NoTrend
    /\ trendFetches = <<[of |-> view, resets |-> FALSE]>>
    /\ trendError = FALSE
    /\ autoRefresh = TRUE
    /\ countdown = RefreshInterval
    /\ dropdown = FALSE
    /\ trendsCrossed = FALSE

-----------------------------------------------------------------------------

\* handleRefresh, once loadData is done.
CountAnew(i) ==
    countdown' = IF trendFetches[i].resets THEN RefreshInterval ELSE countdown

\* Both answers are there.
TrendsArrive(i) ==
    /\ trendData' = trendFetches[i].of
    /\ trendError' = FALSE
    /\ CountAnew(i)
    /\ trendFetches' = RemoveAt(trendFetches, i)
    /\ UNCHANGED <<view, autoRefresh, dropdown, trendsCrossed>>

\* Either failed: the error is shown, above the trends as they were.
TrendsFail(i) ==
    /\ trendError' = TRUE
    /\ CountAnew(i)
    /\ trendFetches' = RemoveAt(trendFetches, i)
    /\ UNCHANGED <<view, trendData, autoRefresh, dropdown, trendsCrossed>>

\* The interval of a second.
Tick ==
    /\ autoRefresh
    /\ IF countdown <= 1
       THEN /\ countdown' = RefreshInterval
            /\ UNCHANGED view
            /\ LoadData(FALSE)
       ELSE /\ countdown' = countdown - 1
            /\ UNCHANGED <<view, trendFetches, trendsCrossed>>
    /\ UNCHANGED <<trendData, trendError, autoRefresh, dropdown>>

\* The buttons that open and close the menus, and a click outside.
ToggleMenu ==
    /\ dropdown' = ~dropdown
    /\ UNCHANGED <<view, trendData, trendFetches, trendError, autoRefresh, countdown, trendsCrossed>>

\* Mutant: a choice waits for the next refresh.
ChooseQuietly ==
    /\ dropdown
    /\ dropdown' = FALSE
    /\ view' \in Views
    /\ UNCHANGED <<trendData, trendFetches, trendError, autoRefresh, countdown, trendsCrossed>>

\* A range or a cluster is chosen in its menu: both effects run again, unless
\* it is the one it was.
Choose ==
    /\ dropdown
    /\ dropdown' = FALSE
    /\ view' \in Views
    /\ IF view' = view THEN UNCHANGED <<trendFetches, trendsCrossed, countdown>>
       ELSE /\ LoadData(FALSE)
            /\ countdown' = IF autoRefresh THEN RefreshInterval ELSE countdown
    /\ UNCHANGED <<trendData, trendError, autoRefresh>>

\* The button Refresh.
PressRefresh ==
    /\ UNCHANGED view
    /\ LoadData(autoRefresh)
    /\ UNCHANGED <<trendData, trendError, autoRefresh, countdown, dropdown>>

\* The button of the interval.
ToggleAutoRefresh ==
    /\ autoRefresh' = ~autoRefresh
    /\ countdown' = IF autoRefresh' THEN RefreshInterval ELSE countdown
    /\ UNCHANGED <<view, trendData, trendFetches, trendError, dropdown, trendsCrossed>>

DashboardNext ==
    \/ \E i \in DOMAIN trendFetches : TrendsArrive(i) \/ TrendsFail(i)
    \/ Tick \/ ToggleMenu \/ Choose \/ PressRefresh \/ ToggleAutoRefresh

DashboardSpec == DashboardInit /\ [][DashboardNext]_dashboardVars

-----------------------------------------------------------------------------

DashboardTypeOK ==
    /\ view \in Views /\ trendData \in Views \cup {NoTrend}
    /\ trendFetches \in Seq(TrendFetch)
    /\ trendError \in BOOLEAN /\ autoRefresh \in BOOLEAN /\ dropdown \in BOOLEAN
    /\ countdown \in 1..RefreshInterval
    /\ trendsCrossed \in BOOLEAN

\* A dashboard that waits for nothing, and shows no error, shows the trends of
\* its range and cluster, unless it asked for them while the request for others
\* was under way: loadData is not cancelled (DashboardView.tsx:27-44).
TrendsAnswerView ==
    (trendFetches = <<>> /\ ~trendsCrossed /\ ~trendError) => trendData = view

TrendsShown == INSTANCE Viewing WITH
    Questions <- Views, Nothing <- NoTrend, asked <- view, shown <- trendData

\* The trends that come to be shown are those of the range and the cluster,
\* unless they were asked for while a request for others was under way
\* (DashboardView.tsx:27-44).
TrendsAreViewing == [][trendsCrossed \/ TrendsShown!Next]_<<view, trendData>>

=============================================================================
