------------------------------- MODULE AppProofs -------------------------------
(***************************************************************************)
(* Proofs about the pages of App that read: the reports, the search, the    *)
(* dashboard and the preview of an alert rule; and, with AdminPagesProofs,  *)
(* about App itself, for every value of its constants.                      *)
(***************************************************************************)
EXTENDS AdminPagesProofs

-----------------------------------------------------------------------------
(* The preview.                                                             *)

\* A request that is not cancelled asks about the present matchers, a timer runs
\* only for matchers that can be asked about, and a preview that loads has a
\* request or a timer to end it.
PreviewInv ==
    /\ PreviewTypeOK
    /\ timer => matchers # NotReady
    /\ \A i \in DOMAIN previews : ~previews[i].cancelled => previews[i].of = matchers
    /\ EvaluationEnds

LEMMA PreviewFacts ==
  ASSUME PreviewTypeOK
  PROVE  previews \in Seq(Preview) /\ \A i \in DOMAIN previews : previews[i] \in Preview
  BY Emptiness DEF PreviewTypeOK

LEMMA PreviewInitInv == PreviewInit => PreviewInv
  <1> SUFFICES ASSUME PreviewInit PROVE PreviewInv
    OBVIOUS
  <1>1. previews \in Seq(Preview) /\ DOMAIN previews = {}
    BY DEF PreviewInit
  <1>2. QED BY <1>1 DEF PreviewInit, PreviewInv, PreviewTypeOK, EvaluationEnds

LEMMA PreviewStepInv == PreviewInv /\ [PreviewNext]_previewVars => PreviewInv'
  <1> SUFFICES ASSUME PreviewInv, [PreviewNext]_previewVars PROVE PreviewInv'
    OBVIOUS
  <1> USE DEF PreviewInv
  <1>1. CASE \E m \in Matchers \cup {NotReady} : ChangeMatchers(m)
    <2>1. PICK m \in Matchers \cup {NotReady} : ChangeMatchers(m)
      BY <1>1
    <2> DEFINE t == [i \in DOMAIN previews |-> [previews[i] EXCEPT !.cancelled = TRUE]]
    <2>2. \A i \in DOMAIN previews : /\ [previews[i] EXCEPT !.cancelled = TRUE] \in Preview
                                     /\ [previews[i] EXCEPT !.cancelled = TRUE].cancelled = TRUE
      BY PreviewFacts DEF Preview
    <2>3. t \in [DOMAIN previews -> Preview] /\ \A i \in DOMAIN previews : t[i].cancelled = TRUE
      BY <2>2
    <2>4. previews' = t /\ matchers' = m /\ timer' = (m # NotReady)
      BY <2>1 DEF ChangeMatchers
    <2> HIDE DEF t
    <2>5. previews' \in Seq(Preview) /\ DOMAIN previews' = DOMAIN previews
      BY <2>3, <2>4, PreviewFacts, Marking
    <2>6. \/ m = NotReady /\ result' = NotReady /\ failed' = FALSE /\ loading' = FALSE
          \/ m # NotReady /\ UNCHANGED <<result, failed, loading>>
      BY <2>1 DEF ChangeMatchers
    <2>7. PreviewTypeOK'
      BY <2>4, <2>5, <2>6 DEF PreviewTypeOK
    <2>8. EvaluationEnds'
      BY <2>4, <2>6 DEF EvaluationEnds
    <2>9. QED BY <2>3, <2>4, <2>5, <2>7, <2>8
  <1>2. CASE TimerFires
    <2> DEFINE e == [of |-> matchers, cancelled |-> FALSE]
    <2>1. e \in Preview /\ ~e.cancelled /\ e.of = matchers
      BY <1>2 DEF TimerFires, PreviewTypeOK, Preview
    <2>2. /\ previews' = Append(previews, e) /\ timer' = FALSE /\ loading' = TRUE /\ failed' = FALSE
          /\ UNCHANGED <<matchers, result>>
      BY <1>2 DEF TimerFires
    <2> HIDE DEF e
    <2>3. /\ previews' \in Seq(Preview)
          /\ \A j \in DOMAIN previews' : previews'[j] = e \/ (j \in DOMAIN previews /\ previews'[j] = previews[j])
          /\ Len(previews) + 1 \in DOMAIN previews' /\ previews'[Len(previews) + 1] = e
      BY <2>1, <2>2, PreviewFacts, Sending
    <2>4. PreviewTypeOK'
      BY <2>2, <2>3 DEF PreviewTypeOK
    <2>5. EvaluationEnds'
      BY <2>1, <2>3 DEF EvaluationEnds
    <2>6. QED BY <2>1, <2>2, <2>3, <2>4, <2>5
  <1>3. CASE \E i \in DOMAIN previews : PreviewArrives(i) \/ PreviewFails(i)
    <2>1. PICK i \in DOMAIN previews : PreviewArrives(i) \/ PreviewFails(i)
      BY <1>3
    <2>2. previews' = RemoveAt(previews, i) /\ UNCHANGED <<matchers, timer>>
      BY <2>1 DEF PreviewArrives, PreviewFails
    <2>3. previews \in Seq(Preview) /\ previews[i] \in Preview
      BY PreviewFacts
    <2>4. /\ previews' \in Seq(Preview)
          /\ \A j \in DOMAIN previews' : \E k \in DOMAIN previews \ {i} : previews'[j] = previews[k]
          /\ \A k \in DOMAIN previews \ {i} : \E j \in DOMAIN previews' : previews'[j] = previews[k]
      BY <2>2, <2>3, Answering
    <2>5. \/ previews[i].cancelled /\ UNCHANGED loading
          \/ ~previews[i].cancelled /\ loading' = FALSE
      BY <2>1 DEF PreviewArrives, PreviewFails
    <2>6. result' \in Matchers \cup {NotReady} /\ failed' \in BOOLEAN
      BY <2>1, <2>3 DEF PreviewArrives, PreviewFails, PreviewTypeOK, Preview
    <2>7. PreviewTypeOK'
      BY <2>2, <2>4, <2>5, <2>6 DEF PreviewTypeOK
    <2>8. EvaluationEnds'
      BY <2>2, <2>4, <2>5 DEF EvaluationEnds
    <2>9. QED BY <2>2, <2>4, <2>7, <2>8
  <1>4. CASE UNCHANGED previewVars
    BY <1>4 DEF previewVars, PreviewTypeOK, EvaluationEnds
  <1>5. QED BY <1>1, <1>2, <1>3, <1>4 DEF PreviewNext

\* Every step of the preview is one of Viewing, or shows nothing new.
LEMMA PreviewStepIsViewing ==
  ASSUME PreviewInv, [PreviewNext]_previewVars
  PROVE  [Shown!Next]_(Shown!vars)
  <1> USE DEF Shown!Next, Shown!Ask, Shown!Show, Shown!vars
  <1>1. ASSUME NEW m \in Matchers \cup {NotReady}, ChangeMatchers(m) PROVE Shown!Ask
    BY <1>1 DEF ChangeMatchers
  <1>2. CASE TimerFires
    BY <1>2 DEF TimerFires
  <1>3. ASSUME NEW i \in DOMAIN previews, PreviewArrives(i) \/ PreviewFails(i)
        PROVE  Shown!Show \/ UNCHANGED <<matchers, result>>
    BY <1>3 DEF PreviewArrives, PreviewFails, PreviewInv
  <1>4. CASE UNCHANGED previewVars
    BY <1>4 DEF previewVars
  <1>5. QED BY <1>1, <1>2, <1>3, <1>4 DEF PreviewNext

-----------------------------------------------------------------------------
(* The dashboard.                                                           *)

\* Unless it asked while it waited for other trends, every request under way
\* asks for those of the present view, and they are shown once none is.
TrendsAreOfView ==
    ~trendsCrossed =>
        /\ \A i \in DOMAIN trendFetches : trendFetches[i].of = view
        /\ (trendFetches = <<>> /\ ~trendError) => trendData = view

DashboardInv == DashboardTypeOK /\ TrendsAreOfView

LEMMA TrendFacts ==
  ASSUME DashboardTypeOK
  PROVE  /\ trendFetches \in Seq(TrendFetch)
         /\ \A i \in DOMAIN trendFetches : trendFetches[i] \in TrendFetch
         /\ RefreshInterval \in Nat \ {0} /\ countdown \in Nat
         /\ RefreshInterval \in 1..RefreshInterval
  <1>1. trendFetches \in Seq(TrendFetch) /\ \A i \in DOMAIN trendFetches : trendFetches[i] \in TrendFetch
    BY Emptiness DEF DashboardTypeOK
  <1>2. QED BY <1>1, DashboardAssumption DEF DashboardTypeOK

\* loadData sends a request for the view of its render.
LEMMA LoadDataFacts ==
  ASSUME DashboardTypeOK, NEW r \in BOOLEAN, view' \in Views, LoadData(r)
  PROVE  /\ trendFetches' \in Seq(TrendFetch) /\ trendFetches' # <<>>
         /\ trendsCrossed' \in BOOLEAN
         /\ ~trendsCrossed' => \A i \in DOMAIN trendFetches' : trendFetches'[i].of = view'
  <1> DEFINE e == [of |-> view', resets |-> r]
  <1>1. e \in TrendFetch /\ e.of = view'
    BY DEF TrendFetch
  <1>2. trendFetches' = Append(trendFetches, e)
    BY DEF LoadData
  <1> HIDE DEF e
  <1>3. /\ trendFetches' \in Seq(TrendFetch) /\ trendFetches' # <<>>
        /\ \A j \in DOMAIN trendFetches' :
              trendFetches'[j] = e \/ (j \in DOMAIN trendFetches /\ trendFetches'[j] = trendFetches[j])
    BY <1>1, <1>2, TrendFacts, Sending
  <1>4. trendsCrossed' = \E i \in DOMAIN trendFetches : trendFetches[i].of # view'
    BY DEF LoadData
  <1>5. trendsCrossed' \in BOOLEAN
    BY <1>4
  <1>6. QED BY <1>1, <1>3, <1>4, <1>5

LEMMA DashboardInitInv == DashboardInit => DashboardInv
  <1> SUFFICES ASSUME DashboardInit PROVE DashboardInv
    OBVIOUS
  <1> DEFINE e == [of |-> view, resets |-> FALSE]
  <1>1. e \in TrendFetch /\ e.of = view
    BY DEF DashboardInit, TrendFetch
  <1>2. trendFetches = <<e>>
    BY DEF DashboardInit
  <1> HIDE DEF e
  <1>3. trendFetches \in Seq(TrendFetch) /\ DOMAIN trendFetches = {1} /\ trendFetches[1] = e /\ trendFetches # <<>>
    BY <1>1, <1>2
  <1>4. DashboardTypeOK
    <2>1. RefreshInterval \in 1..RefreshInterval
      BY DashboardAssumption
    <2>2. QED BY <1>3, <2>1 DEF DashboardInit, DashboardTypeOK
  <1>5. TrendsAreOfView
    BY <1>1, <1>3 DEF TrendsAreOfView
  <1>6. QED BY <1>4, <1>5 DEF DashboardInv

LEMMA DashboardStepInv == DashboardInv /\ [DashboardNext]_dashboardVars => DashboardInv'
  <1> SUFFICES ASSUME DashboardInv, [DashboardNext]_dashboardVars PROVE DashboardInv'
    OBVIOUS
  <1> USE DEF DashboardInv
  <1>1. CASE \E i \in DOMAIN trendFetches : TrendsArrive(i) \/ TrendsFail(i)
    <2>1. PICK i \in DOMAIN trendFetches : TrendsArrive(i) \/ TrendsFail(i)
      BY <1>1
    <2>2. /\ trendFetches' = RemoveAt(trendFetches, i)
          /\ UNCHANGED <<view, autoRefresh, dropdown, trendsCrossed>>
      BY <2>1 DEF TrendsArrive, TrendsFail
    <2>3. trendFetches \in Seq(TrendFetch) /\ trendFetches[i].of \in Views
      BY TrendFacts DEF TrendFetch
    <2>4. /\ trendFetches' \in Seq(TrendFetch)
          /\ \A j \in DOMAIN trendFetches' : \E k \in DOMAIN trendFetches \ {i} : trendFetches'[j] = trendFetches[k]
      BY <2>2, <2>3, Answering
    <2>5. countdown' \in 1..RefreshInterval
      BY <2>1, TrendFacts DEF TrendsArrive, TrendsFail, CountAnew, DashboardTypeOK
    <2>6. \/ trendData' = trendFetches[i].of /\ trendError' = FALSE
          \/ trendError' = TRUE /\ UNCHANGED trendData
      BY <2>1 DEF TrendsArrive, TrendsFail
    <2>7. DashboardTypeOK'
      BY <2>2, <2>3, <2>4, <2>5, <2>6 DEF DashboardTypeOK
    <2>8. TrendsAreOfView'
      BY <2>2, <2>4, <2>6 DEF TrendsAreOfView
    <2>9. QED BY <2>7, <2>8
  <1>2. CASE Tick \/ Choose \/ PressRefresh
    <2>1. UNCHANGED <<trendData, trendError, autoRefresh>>
      BY <1>2 DEF Tick, Choose, PressRefresh
    <2>2. view' \in Views /\ dropdown' \in BOOLEAN
      BY <1>2 DEF Tick, Choose, PressRefresh, DashboardTypeOK
    <2>3. countdown' \in 1..RefreshInterval
      <3>1. countdown \in 1..RefreshInterval
        BY DEF DashboardTypeOK
      <3>2. CASE Tick
        <4>1. countdown' = RefreshInterval \/ (~(countdown <= 1) /\ countdown' = countdown - 1)
          BY <3>2 DEF Tick
        <4>2. QED BY <3>1, <4>1, TrendFacts
      <3>3. CASE Choose \/ PressRefresh
        <4>1. countdown' \in {countdown, RefreshInterval}
          BY <3>3 DEF Choose, PressRefresh
        <4>2. QED BY <3>1, <4>1, TrendFacts
      <3>4. QED BY <1>2, <3>2, <3>3
    <2>4. \/ UNCHANGED <<view, trendFetches, trendsCrossed>>
          \/ \E r \in BOOLEAN : LoadData(r)
      BY <1>2 DEF Tick, Choose, PressRefresh, DashboardTypeOK
    <2>5. CASE UNCHANGED <<view, trendFetches, trendsCrossed>>
      BY <2>1, <2>2, <2>3, <2>5 DEF DashboardTypeOK, TrendsAreOfView
    <2>6. CASE \E r \in BOOLEAN : LoadData(r)
      BY <2>1, <2>2, <2>3, <2>6, LoadDataFacts DEF DashboardTypeOK, TrendsAreOfView
    <2>7. QED BY <2>4, <2>5, <2>6
  <1>3. CASE ToggleMenu
    BY <1>3 DEF ToggleMenu, DashboardTypeOK, TrendsAreOfView
  <1>4. CASE ToggleAutoRefresh
    BY <1>4, TrendFacts DEF ToggleAutoRefresh, DashboardTypeOK, TrendsAreOfView
  <1>5. CASE UNCHANGED dashboardVars
    BY <1>5 DEF dashboardVars, DashboardTypeOK, TrendsAreOfView
  <1>6. QED BY <1>1, <1>2, <1>3, <1>4, <1>5 DEF DashboardNext

\* Every step of the dashboard is one of Viewing, unless it crossed.
LEMMA DashboardStepIsViewing ==
  ASSUME DashboardInv, [DashboardNext]_dashboardVars
  PROVE  [trendsCrossed \/ TrendsShown!Next]_<<view, trendData>>
  <1> SUFFICES ASSUME ~trendsCrossed
               PROVE  TrendsShown!Next \/ UNCHANGED <<view, trendData>>
    OBVIOUS
  <1> USE DEF TrendsShown!Next, TrendsShown!Ask, TrendsShown!Show
  <1>1. ASSUME NEW i \in DOMAIN trendFetches, TrendsArrive(i) \/ TrendsFail(i)
        PROVE  TrendsShown!Show \/ UNCHANGED <<view, trendData>>
    <2>1. trendFetches[i].of = view
      BY DEF DashboardInv, TrendsAreOfView
    <2>2. QED BY <1>1, <2>1 DEF TrendsArrive, TrendsFail
  <1>2. CASE Choose
    BY <1>2 DEF Choose
  <1>3. CASE Tick \/ ToggleMenu \/ PressRefresh \/ ToggleAutoRefresh \/ UNCHANGED dashboardVars
    BY <1>3 DEF Tick, ToggleMenu, PressRefresh, ToggleAutoRefresh, dashboardVars
  <1>4. QED BY <1>1, <1>2, <1>3 DEF DashboardNext

-----------------------------------------------------------------------------
(* The search.                                                              *)

\* Unless the query was changed while it waited, every search under way is for
\* the present query, and its results are shown once none is; and what is
\* selected in the list of suggestions is in it.
SearchesItsQuery ==
    /\ searches = <<>> => ~searching
    /\ ~searchCrossed =>
        /\ \A i \in DOMAIN searches : searches[i] = query
        /\ searches = <<>> => results = IF searchFailed THEN Blank ELSE query

SelectsAnOffer == Offered > 0 => selectedIdx < Offered

SearchInv == SearchTypeOK /\ SearchesItsQuery /\ SelectsAnOffer

LEMMA SearchFacts ==
  ASSUME SearchTypeOK
  PROVE  /\ searches \in Seq(Texts) /\ suggesting \in Seq(Texts)
         /\ \A i \in DOMAIN searches : searches[i] \in Texts
         /\ \A i \in DOMAIN suggesting : suggesting[i] \in Texts
         /\ Offered \in Nat
         /\ selectedIdx \in Int
  <1>1. /\ searches \in Seq(Texts) /\ suggesting \in Seq(Texts)
        /\ \A i \in DOMAIN searches : searches[i] \in Texts
        /\ \A i \in DOMAIN suggesting : suggesting[i] \in Texts
    BY Emptiness DEF SearchTypeOK
  <1>2. Offered \in Nat
    BY SearchAssumption DEF Offered, SearchTypeOK
  <1>3. QED BY <1>1, <1>2 DEF SearchTypeOK

\* The effect of a query in the URL.
LEMMA SetQueryFacts ==
  ASSUME SearchTypeOK, SearchesItsQuery, NEW q \in Texts \cup {Blank}, SetQuery(q)
  PROVE  /\ SearchesItsQuery'
         /\ query' \in Texts \cup {Blank} /\ results' \in Texts \cup {Blank}
         /\ searches' \in Seq(Texts)
         /\ searching' \in BOOLEAN /\ searchCrossed' \in BOOLEAN /\ searchFailed' \in BOOLEAN
  <1>1. query' = q /\ UNCHANGED searchFailed
    BY DEF SetQuery
  <1>2. CASE q = query
    BY <1>1, <1>2 DEF SetQuery, SearchTypeOK, SearchesItsQuery
  <1>3. CASE q # query /\ q = Blank
    <2>1. results' = Blank /\ searchCrossed' = (searches # <<>>) /\ UNCHANGED <<searches, searching>>
      BY <1>3 DEF SetQuery
    <2>2. searchCrossed' \in BOOLEAN /\ (~searchCrossed' => searches = <<>>)
      BY <2>1
    <2>3. SearchesItsQuery'
      BY <1>1, <1>3, <2>1, <2>2, SearchFacts, Emptiness DEF SearchesItsQuery
    <2>4. QED BY <1>1, <2>1, <2>2, <2>3 DEF SearchTypeOK
  <1>4. CASE q # query /\ q # Blank
    <2>1. /\ searches' = Append(searches, q) /\ searching' = TRUE
          /\ searchCrossed' = (searches # <<>>) /\ UNCHANGED results
      BY <1>4 DEF SetQuery
    <2>2. searchCrossed' \in BOOLEAN /\ (~searchCrossed' => searches = <<>>)
      BY <2>1
    <2>3. /\ searches' \in Seq(Texts) /\ searches' # <<>>
          /\ \A j \in DOMAIN searches' : searches'[j] = q \/ (j \in DOMAIN searches /\ searches'[j] = searches[j])
      BY <1>4, <2>1, SearchFacts, Sending
    <2>4. SearchesItsQuery'
      <3>1. searches = <<>> => DOMAIN searches = {}
        OBVIOUS
      <3>2. QED BY <1>1, <2>1, <2>2, <2>3, <3>1 DEF SearchesItsQuery
    <2>5. QED BY <1>1, <2>1, <2>2, <2>3, <2>4 DEF SearchTypeOK
  <1>5. QED BY <1>2, <1>3, <1>4

LEMMA SearchInitInv == SearchInit => SearchInv
  <1> SUFFICES ASSUME SearchInit PROVE SearchInv
    OBVIOUS
  <1>1. SelectsAnOffer /\ selectedIdx \in Nat \cup {-1}
    BY DEF SearchInit, SelectsAnOffer, Offered
  <1>2. CASE query = Blank
    <2>1. searches = <<>> /\ searches \in Seq(Texts) /\ DOMAIN searches = {} /\ suggesting \in Seq(Texts)
      BY <1>2 DEF SearchInit
    <2>2. SearchesItsQuery
      BY <1>2, <2>1 DEF SearchInit, SearchesItsQuery
    <2>3. QED BY <1>2, <2>1, <1>1, <2>2 DEF SearchInit, SearchInv, SearchTypeOK
  <1>3. CASE query # Blank
    <2>1. searches = <<query>> /\ query \in Texts
      BY <1>3 DEF SearchInit
    <2>2. searches \in Seq(Texts) /\ DOMAIN searches = {1} /\ searches[1] = query /\ searches # <<>> /\ suggesting \in Seq(Texts)
      BY <2>1 DEF SearchInit
    <2>3. SearchesItsQuery
      BY <1>3, <2>2 DEF SearchInit, SearchesItsQuery
    <2>4. QED BY <1>3, <2>2, <1>1, <2>3 DEF SearchInit, SearchInv, SearchTypeOK
  <1>4. QED BY <1>2, <1>3

\* The query changes.
LEMMA QueryKeeps ==
  ASSUME SearchInv, Navigate \/ PressSearch \/ PickSuggestion
  PROVE  SearchInv'
  <1> USE DEF SearchInv
  <1>1. (\E q \in Texts \cup {Blank} : SetQuery(q)) \/ UNCHANGED searchUI
    BY DEF Navigate, PressSearch, PickSuggestion
  <1>2. UNCHANGED <<inputError, suggestions, selectedIdx, debounce, suggesting>> /\ showSuggestions' \in BOOLEAN
    BY DEF Navigate, PressSearch, PickSuggestion, inputUI, suggestUI, SearchTypeOK
  <1>3. input' \in Texts \cup {Blank, Invalid}
    BY DEF Navigate, PressSearch, PickSuggestion, inputUI, SearchTypeOK
  <1>4. /\ SearchesItsQuery'
        /\ query' \in Texts \cup {Blank} /\ results' \in Texts \cup {Blank}
        /\ searches' \in Seq(Texts)
        /\ searching' \in BOOLEAN /\ searchCrossed' \in BOOLEAN /\ searchFailed' \in BOOLEAN
    <2>1. CASE \E q \in Texts \cup {Blank} : SetQuery(q)
      BY <2>1, SetQueryFacts
    <2>2. CASE UNCHANGED searchUI
      BY <2>2 DEF searchUI, SearchTypeOK, SearchesItsQuery
    <2>3. QED BY <1>1, <2>1, <2>2
  <1>5. SearchTypeOK'
    BY <1>2, <1>3, <1>4 DEF SearchTypeOK
  <1>6. SelectsAnOffer'
    BY <1>2 DEF SelectsAnOffer, Offered
  <1>7. QED BY <1>4, <1>5, <1>6

\* A search is answered.
LEMMA SearchAnswered ==
  ASSUME SearchInv, NEW i \in DOMAIN searches, SearchArrives(i) \/ SearchFails(i)
  PROVE  SearchInv'
  <1> USE DEF SearchInv
  <1>1. /\ searching' = FALSE /\ searches' = RemoveAt(searches, i)
        /\ UNCHANGED <<query, searchCrossed, input, inputError, suggestions, showSuggestions,
                       selectedIdx, debounce, suggesting>>
    BY DEF SearchArrives, SearchFails, inputUI, suggestUI
  <1>2. searches \in Seq(Texts) /\ searches[i] \in Texts
    BY SearchFacts
  <1>3. /\ searches' \in Seq(Texts)
        /\ \A j \in DOMAIN searches' : \E k \in DOMAIN searches \ {i} : searches'[j] = searches[k]
    BY <1>1, <1>2, Answering
  <1>4. \/ results' = searches[i] /\ searchFailed' = FALSE
        \/ results' = Blank /\ searchFailed' = TRUE
    BY DEF SearchArrives, SearchFails
  <1>5. SearchTypeOK'
    BY <1>1, <1>2, <1>3, <1>4 DEF SearchTypeOK
  <1>6. SearchesItsQuery'
    BY <1>1, <1>3, <1>4 DEF SearchesItsQuery
  <1>7. SelectsAnOffer'
    BY <1>1 DEF SelectsAnOffer, Offered
  <1>8. QED BY <1>5, <1>6, <1>7

\* Typing, and the list of suggestions.
LEMMA SuggestionsKeep ==
  ASSUME SearchInv,
         \/ \E v \in Texts \cup {Blank, Invalid} : TypeText(v)
         \/ AskSuggestions
         \/ \E i \in DOMAIN suggesting : SuggestionsArrive(i) \/ SuggestionsFail(i)
         \/ Arrow \/ Hover \/ HideList \/ FocusField
  PROVE  SearchInv'
  <1> USE DEF SearchInv
  <1>1. UNCHANGED searchUI
    BY DEF TypeText, AskSuggestions, SuggestionsArrive, SuggestionsFail, Arrow, Hover, HideList, FocusField
  <1>2. UNCHANGED <<query, results, searches, searching, searchCrossed, searchFailed>>
    BY <1>1 DEF searchUI
  <1>3. SearchesItsQuery'
    BY <1>2 DEF SearchesItsQuery
  <1>4. CASE \E v \in Texts \cup {Blank, Invalid} : TypeText(v)
    <2>1. PICK v \in Texts \cup {Blank, Invalid} : TypeText(v)
      BY <1>4
    <2>2. UNCHANGED <<selectedIdx, suggesting>> /\ input' = v /\ inputError' \in BOOLEAN
      BY <2>1 DEF TypeText
    <2>3. /\ suggestions' \in {suggestions, Blank} /\ showSuggestions' \in BOOLEAN
          /\ debounce' \in Texts \cup {Blank}
      BY <2>1 DEF TypeText, SearchTypeOK
    <2>4. SearchTypeOK'
      BY <1>2, <2>2, <2>3 DEF SearchTypeOK
    <2>5. SelectsAnOffer'
      BY <2>2, <2>3 DEF SelectsAnOffer, Offered
    <2>6. QED BY <1>3, <2>4, <2>5
  <1>5. CASE AskSuggestions
    <2>1. /\ suggesting' = Append(suggesting, debounce) /\ debounce' = Blank /\ debounce \in Texts
          /\ UNCHANGED <<input, inputError, suggestions, showSuggestions, selectedIdx>>
      BY <1>5 DEF AskSuggestions, inputUI, SearchTypeOK
    <2>2. suggesting' \in Seq(Texts)
      BY <2>1, SearchFacts, Sending
    <2>3. SearchTypeOK'
      BY <1>2, <2>1, <2>2 DEF SearchTypeOK
    <2>4. SelectsAnOffer'
      BY <2>1 DEF SelectsAnOffer, Offered
    <2>5. QED BY <1>3, <2>3, <2>4
  <1>6. CASE \E i \in DOMAIN suggesting : SuggestionsArrive(i) \/ SuggestionsFail(i)
    <2>1. PICK i \in DOMAIN suggesting : SuggestionsArrive(i) \/ SuggestionsFail(i)
      BY <1>6
    <2>2. suggesting' = RemoveAt(suggesting, i) /\ UNCHANGED <<input, inputError, debounce>>
      BY <2>1 DEF SuggestionsArrive, SuggestionsFail, inputUI
    <2>3. suggesting \in Seq(Texts) /\ suggesting[i] \in Texts
      BY SearchFacts
    <2>4. suggesting' \in Seq(Texts)
      BY <2>2, <2>3, Answering
    <2>5. showSuggestions' \in BOOLEAN
      <3> DEFINE b == Suggested[suggesting[i]] > 0
      <3>1. showSuggestions' = b \/ showSuggestions' = FALSE
        BY <2>1 DEF SuggestionsArrive, SuggestionsFail
      <3>2. b \in BOOLEAN
        OBVIOUS
      <3> HIDE DEF b
      <3>3. QED BY <3>1, <3>2
    <2>6. \/ suggestions' = suggesting[i] /\ selectedIdx' = -1
          \/ suggestions' = Blank /\ UNCHANGED selectedIdx
      BY <2>1 DEF SuggestionsArrive, SuggestionsFail
    <2>7. SearchTypeOK'
      BY <1>2, <2>2, <2>3, <2>4, <2>5, <2>6 DEF SearchTypeOK
    <2>8. SelectsAnOffer'
      BY <2>3, <2>6, SearchAssumption DEF SelectsAnOffer, Offered
    <2>9. QED BY <1>3, <2>7, <2>8
  <1>7. CASE Arrow \/ Hover
    <2>1. UNCHANGED <<input, inputError, suggestions, showSuggestions, debounce, suggesting>> /\ Offered > 0
      BY <1>7 DEF Arrow, Hover, ListShown, inputUI
    <2>2. Offered' = Offered /\ selectedIdx' \in 0..(Offered - 1)
      <3>1. Offered' = Offered
        BY <2>1 DEF Offered
      <3>2. Offered \in Nat /\ selectedIdx \in Nat \cup {-1}
        BY SearchFacts DEF SearchTypeOK
      <3>3. CASE Hover
        BY <3>1, <3>3 DEF Hover
      <3>4. CASE Arrow
        <4>1. \/ selectedIdx' = IF selectedIdx < Offered - 1 THEN selectedIdx + 1 ELSE 0
              \/ selectedIdx' = IF selectedIdx > 0 THEN selectedIdx - 1 ELSE Offered - 1
          BY <3>4 DEF Arrow
        <4>2. Offered > 0 => (selectedIdx > 0 => selectedIdx - 1 < Offered)
          BY <2>1, <3>2 DEF SelectsAnOffer
        <4>3. QED BY <2>1, <3>1, <3>2, <4>1, <4>2
      <3>5. QED BY <1>7, <3>1, <3>3, <3>4
    <2>3. SearchTypeOK'
      BY <1>2, <2>1, <2>2, SearchFacts DEF SearchTypeOK
    <2>4. SelectsAnOffer'
      BY <2>2, SearchFacts DEF SelectsAnOffer
    <2>5. QED BY <1>3, <2>3, <2>4
  <1>8. CASE HideList \/ FocusField
    BY <1>2, <1>3, <1>8 DEF HideList, FocusField, inputUI, SearchTypeOK, SelectsAnOffer, Offered
  <1>9. QED BY <1>4, <1>5, <1>6, <1>7, <1>8

LEMMA SearchStepInv == SearchInv /\ [SearchNext]_searchVars => SearchInv'
  <1> SUFFICES ASSUME SearchInv, [SearchNext]_searchVars PROVE SearchInv'
    OBVIOUS
  <1>1. CASE UNCHANGED searchVars
    BY <1>1 DEF searchVars, searchUI, inputUI, suggestUI, SearchInv, SearchTypeOK, SearchesItsQuery, SelectsAnOffer, Offered
  <1>2. CASE SearchNext
    BY <1>2, QueryKeeps, SearchAnswered, SuggestionsKeep DEF SearchNext
  <1>3. QED BY <1>1, <1>2

LEMMA SearchInvImplies == SearchInv => SearchTypeOK /\ SearchAnswersQuery /\ EnterPicksASuggestion
  BY DEF SearchInv, SearchesItsQuery, SelectsAnOffer, SearchAnswersQuery, EnterPicksASuggestion, ListShown

\* Every step of a search page is one of Viewing, unless it crossed.
LEMMA SearchStepIsViewing ==
  ASSUME SearchInv, [SearchNext]_searchVars
  PROVE  [searchCrossed \/ SearchShown!Next]_<<query, results>>
  <1> SUFFICES ASSUME ~searchCrossed
               PROVE  SearchShown!Next \/ UNCHANGED <<query, results>>
    OBVIOUS
  <1> USE DEF SearchShown!Next, SearchShown!Ask, SearchShown!Show
  <1>1. ASSUME NEW q \in Texts \cup {Blank}, SetQuery(q)
        PROVE  SearchShown!Ask
    BY <1>1 DEF SetQuery
  <1>2. CASE Navigate \/ PressSearch \/ PickSuggestion
    BY <1>1, <1>2 DEF Navigate, PressSearch, PickSuggestion, searchUI
  <1>3. ASSUME NEW i \in DOMAIN searches, SearchArrives(i) \/ SearchFails(i)
        PROVE  SearchShown!Show
    <2>1. searches[i] = query
      BY DEF SearchInv, SearchesItsQuery
    <2>2. QED BY <1>3, <2>1 DEF SearchArrives, SearchFails
  <1>4. CASE UNCHANGED searchUI
    BY <1>4 DEF searchUI
  <1>5. CASE UNCHANGED searchVars
    BY <1>5 DEF searchVars, searchUI
  <1>6. ASSUME \/ \E v \in Texts \cup {Blank, Invalid} : TypeText(v)
               \/ AskSuggestions
               \/ \E i \in DOMAIN suggesting : SuggestionsArrive(i) \/ SuggestionsFail(i)
               \/ Arrow \/ Hover \/ HideList \/ FocusField
        PROVE  UNCHANGED searchUI
    BY <1>6 DEF TypeText, AskSuggestions, SuggestionsArrive, SuggestionsFail, Arrow, Hover,
                HideList, FocusField
  <1>7. QED BY <1>2, <1>3, <1>4, <1>5, <1>6 DEF SearchNext

-----------------------------------------------------------------------------
(* The reports.                                                             *)

\* Unless it asked while it waited for another answer, the page waits for one
\* list at most, that of its filters, or shows it; and the layout does so with
\* the namespaces of the cluster.
AsksItsFilters ==
    /\ ~reportsCrossed =>
          /\ Len(reportFetches) <= 1
          /\ \A i \in DOMAIN reportFetches : reportFetches[i] = filters
          /\ reportFetches = <<>> => reports \in {filters, NoAnswer}
    /\ ~namespacesCrossed =>
          /\ Len(namespaceFetches) <= 1
          /\ \A i \in DOMAIN namespaceFetches : namespaceFetches[i] = filters.cluster
          /\ namespaceFetches = <<>> => namespaceOptions = filters.cluster

\* What the popup holds for the namespace is one of the cluster it is known to
\* be from.
PopupKnowsItsCluster ==
    (filterPopup # NoAnswer /\ filterPopup.from # NoAnswer) =>
        /\ filterPopup.key = "namespace"
        /\ filterPopup.value \in In(filterPopup.from) \cup {Unfiltered}

ReportsInv == ReportsTypeOK /\ AsksItsFilters /\ PopupKnowsItsCluster /\ NamespaceOfItsCluster

LEMMA InNamespaces == \A c : In(c) \subseteq Namespaces
  BY ReportsAssumption DEF In

LEMMA ReportFacts ==
  ASSUME ReportsTypeOK
  PROVE  /\ reportFetches \in Seq(ListQuestion) /\ namespaceFetches \in Seq(Values)
         /\ \A i \in DOMAIN reportFetches : reportFetches[i] \in ListQuestion
         /\ \A i \in DOMAIN namespaceFetches : namespaceFetches[i] \in Values
         /\ Len(reportFetches) \in Nat /\ Len(namespaceFetches) \in Nat
         /\ reportFetches = <<>> <=> Len(reportFetches) = 0
         /\ namespaceFetches = <<>> <=> Len(namespaceFetches) = 0
         /\ reportFetches = <<>> <=> DOMAIN reportFetches = {}
         /\ namespaceFetches = <<>> <=> DOMAIN namespaceFetches = {}
         /\ filters.type \in ReportTypes /\ filters.cluster \in Values /\ filters.namespace \in Values
  <1>1. reportFetches \in Seq(ListQuestion) /\ namespaceFetches \in Seq(Values) /\ filters \in ListQuestion
    BY DEF ReportsTypeOK
  <1>2. filters.type \in ReportTypes /\ filters.cluster \in Values /\ filters.namespace \in Values
    BY <1>1 DEF ListQuestion
  <1>3. QED BY <1>1, <1>2, Emptiness

\* The question of a URL is one, and the page knows whether its namespace is one
\* of its cluster.
LEMMA UrlFacts ==
  ASSUME NEW f \in UrlFilters
  PROVE  /\ f \in ListQuestion /\ f.cluster \in Values
         /\ Astray(f) \in BOOLEAN
         /\ ~Astray(f) => f.namespace \in In(f.cluster) \cup {Unfiltered}
  BY ReportsAssumption DEF ListQuestion, Astray

LEMMA ReportsInitInv == ReportsInit => ReportsInv
  <1> SUFFICES ASSUME ReportsInit PROVE ReportsInv
    OBVIOUS
  <1>1. filters \in ListQuestion /\ filters.cluster \in Values /\ Unfiltered \in Values
    BY UrlFacts DEF ReportsInit, Values, Clusters
  <1>2. reportFetches \in Seq(ListQuestion) /\ Len(reportFetches) = 1 /\ DOMAIN reportFetches = {1}
        /\ reportFetches[1] = filters /\ reportFetches # <<>>
    <2>1. reportFetches = <<filters>>
      BY DEF ReportsInit
    <2>2. QED BY <1>1, <2>1
  <1>3. namespaceAstray \in BOOLEAN /\ NamespaceOfItsCluster
    <2>1. filters \in UrlFilters /\ namespaceAstray = Astray(filters)
      BY DEF ReportsInit
    <2>2. QED BY <2>1, UrlFacts DEF NamespaceOfItsCluster
  <1>4. namespacesCrossed \in BOOLEAN /\ (~namespacesCrossed => filters.cluster = Unfiltered)
    BY DEF ReportsInit
  <1>5. namespaceFetches \in Seq(Values)
        /\ (filters.cluster = Unfiltered =>
              /\ Len(namespaceFetches) <= 1 /\ namespaceFetches # <<>>
              /\ \A i \in DOMAIN namespaceFetches : namespaceFetches[i] = Unfiltered)
    <2> DEFINE b == IF filters.cluster = Unfiltered THEN <<>> ELSE <<filters.cluster>>
    <2>1. namespaceFetches = <<Unfiltered>> \o b
      BY DEF ReportsInit
    <2>2. CASE filters.cluster = Unfiltered
      <3>1. b = <<>>
        BY <2>2
      <3> HIDE DEF b
      <3>2. namespaceFetches = <<Unfiltered>>
        BY <2>1, <3>1
      <3>3. QED BY <1>1, <3>2
    <2>3. CASE filters.cluster # Unfiltered
      <3>1. b = <<filters.cluster>>
        BY <2>3
      <3> HIDE DEF b
      <3>2. b \in Seq(Values) /\ <<Unfiltered>> \in Seq(Values)
        BY <1>1, <3>1
      <3>3. QED BY <2>1, <2>3, <3>2, ConcatProperties
    <2>4. QED BY <2>2, <2>3
  <1>6. AsksItsFilters
    <2>1. Len(reportFetches) <= 1 /\ \A i \in DOMAIN reportFetches : reportFetches[i] = filters
      BY <1>2
    <2>2. ~namespacesCrossed =>
             /\ Len(namespaceFetches) <= 1 /\ namespaceFetches # <<>>
             /\ \A i \in DOMAIN namespaceFetches : namespaceFetches[i] = filters.cluster
      BY <1>4, <1>5
    <2>3. QED BY <1>2, <2>1, <2>2 DEF AsksItsFilters
  <1>7. ReportsTypeOK
    BY <1>1, <1>2, <1>3, <1>4, <1>5 DEF ReportsInit, ReportsTypeOK
  <1>8. PopupKnowsItsCluster
    BY DEF ReportsInit, PopupKnowsItsCluster
  <1>9. QED BY <1>3, <1>6, <1>7, <1>8 DEF ReportsInv

\* What is under way of the namespaces, and what is on offer, for a cluster.
NamespacesAskedFor(c) ==
    ~namespacesCrossed =>
        /\ Len(namespaceFetches) <= 1
        /\ \A i \in DOMAIN namespaceFetches : namespaceFetches[i] = c
        /\ namespaceFetches = <<>> => namespaceOptions = c

\* The layout's effect of new filters.
LEMMA AskNamespacesFacts ==
  ASSUME ReportsTypeOK, AsksItsFilters, filters' \in ListQuestion, AskNamespaces,
         UNCHANGED namespaceOptions
  PROVE  /\ NamespacesAskedFor(filters.cluster)'
         /\ namespaceFetches' \in Seq(Values) /\ namespacesCrossed' \in BOOLEAN
  <1> DEFINE c == filters'.cluster
  <1>1. c \in Values
    BY DEF ListQuestion
  <1>2. CASE c = filters.cluster
    <2>1. UNCHANGED <<namespaceFetches, namespacesCrossed>>
      BY <1>2 DEF AskNamespaces
    <2>2. QED BY <1>2, <2>1, ReportFacts DEF AsksItsFilters, ReportsTypeOK, NamespacesAskedFor
  <1>3. CASE c # filters.cluster
    <2>1. namespaceFetches' = Append(namespaceFetches, c) /\ namespacesCrossed' = (namespaceFetches # <<>>)
      BY <1>3 DEF AskNamespaces
    <2>2. /\ namespaceFetches' \in Seq(Values) /\ namespaceFetches' # <<>>
          /\ Len(namespaceFetches') = Len(namespaceFetches) + 1
          /\ \A j \in DOMAIN namespaceFetches' :
                namespaceFetches'[j] = c \/ (j \in DOMAIN namespaceFetches /\ namespaceFetches'[j] = namespaceFetches[j])
      BY <1>1, <2>1, ReportFacts, Sending
    <2>3. namespacesCrossed' \in BOOLEAN
          /\ (~namespacesCrossed' => Len(namespaceFetches) = 0 /\ DOMAIN namespaceFetches = {})
      BY <2>1, ReportFacts
    <2>4. QED BY <2>2, <2>3 DEF NamespacesAskedFor
  <1>4. QED BY <1>2, <1>3

\* The effects of new filters.
LEMMA LoadReportsFacts ==
  ASSUME ReportsTypeOK, AsksItsFilters, filters' \in ListQuestion, LoadReports,
         UNCHANGED <<reports, namespaceOptions>>
  PROVE  /\ AsksItsFilters'
         /\ reportFetches' \in Seq(ListQuestion) /\ namespaceFetches' \in Seq(Values)
         /\ reportsCrossed' \in BOOLEAN /\ namespacesCrossed' \in BOOLEAN
  <1>1. CASE filters' = filters
    BY <1>1 DEF LoadReports, AsksItsFilters, ReportsTypeOK
  <1>2. CASE filters' # filters
    <2> DEFINE f == filters'
    <2>1. reportFetches' = Append(reportFetches, f) /\ reportsCrossed' = (reportFetches # <<>>)
      BY <1>2 DEF LoadReports
    <2>2. /\ reportFetches' \in Seq(ListQuestion) /\ reportFetches' # <<>>
          /\ Len(reportFetches') = Len(reportFetches) + 1
          /\ \A j \in DOMAIN reportFetches' :
                reportFetches'[j] = f \/ (j \in DOMAIN reportFetches /\ reportFetches'[j] = reportFetches[j])
      BY <2>1, ReportFacts, Sending
    <2>3. reportsCrossed' \in BOOLEAN /\ (~reportsCrossed' => Len(reportFetches) = 0 /\ DOMAIN reportFetches = {})
      BY <2>1, ReportFacts
    <2>4. ~reportsCrossed' =>
             /\ Len(reportFetches') <= 1 /\ reportFetches' # <<>>
             /\ \A i \in DOMAIN reportFetches' : reportFetches'[i] = f
      BY <2>2, <2>3
    <2>5. /\ NamespacesAskedFor(filters.cluster)'
          /\ namespaceFetches' \in Seq(Values) /\ namespacesCrossed' \in BOOLEAN
      BY <1>2, AskNamespacesFacts DEF LoadReports
    <2>6. AsksItsFilters'
      BY <2>4, <2>5 DEF AsksItsFilters, NamespacesAskedFor
    <2>7. QED BY <2>2, <2>3, <2>5, <2>6
  <1>3. QED BY <1>1, <1>2

\* New filters, with a namespace that belongs to the cluster.
LEMMA FilteringKeeps ==
  ASSUME ReportsInv, filters' \in ListQuestion, LoadReports, UNCHANGED <<reports, namespaceOptions>>,
         filterPopup' \in {filterPopup, NoAnswer},
         namespaceAstray' \in BOOLEAN,
         ~namespaceAstray' => filters'.namespace \in In(filters'.cluster) \cup {Unfiltered}
  PROVE  ReportsInv'
  <1> USE DEF ReportsInv
  <1>1. ReportsTypeOK'
    BY LoadReportsFacts DEF ReportsTypeOK
  <1>2. AsksItsFilters'
    BY LoadReportsFacts
  <1>3. PopupKnowsItsCluster'
    BY DEF PopupKnowsItsCluster, In
  <1>4. NamespaceOfItsCluster'
    BY DEF NamespaceOfItsCluster, In
  <1>5. QED BY <1>1, <1>2, <1>3, <1>4

LEMMA FiltersKeep ==
  ASSUME ReportsInv,
         \/ \E t \in ReportTypes : SwitchType(t)
         \/ filterPopup # NoAnswer /\ (Apply(filterPopup.value) \/ Apply(Unfiltered))
         \/ ClearAll
         \/ \E f \in UrlFilters : GoTo(f)
  PROVE  ReportsInv'
  <1> USE DEF ReportsInv
  <1>1. Unfiltered \in Values
    BY DEF Values, Clusters
  <1>2. filters \in ListQuestion
    BY DEF ReportsTypeOK
  <1>3. CASE \E t \in ReportTypes : SwitchType(t)
    <2>1. PICK t \in ReportTypes : SwitchType(t)
      BY <1>3
    <2>2. filters' = [type |-> t, cluster |-> Unfiltered, namespace |-> Unfiltered]
          /\ LoadReports /\ namespaceAstray' = FALSE /\ UNCHANGED <<reports, namespaceOptions, filterPopup>>
      BY <2>1 DEF SwitchType
    <2>3. filters' \in ListQuestion /\ filters'.namespace = Unfiltered
      BY <1>1, <2>2 DEF ListQuestion
    <2>4. QED BY <2>2, <2>3, FilteringKeeps
  <1>4. CASE ClearAll
    <2>1. filters' = [filters EXCEPT !.cluster = Unfiltered, !.namespace = Unfiltered]
          /\ LoadReports /\ namespaceAstray' = FALSE /\ UNCHANGED <<reports, namespaceOptions, filterPopup>>
      BY <1>4 DEF ClearAll
    <2>2. filters' \in ListQuestion /\ filters'.namespace = Unfiltered
      BY <1>1, <1>2, <2>1 DEF ListQuestion
    <2>3. QED BY <2>1, <2>2, FilteringKeeps
  <1>5. CASE filterPopup # NoAnswer /\ (Apply(filterPopup.value) \/ Apply(Unfiltered))
    <2>1. filterPopup \in Popup /\ filterPopup.value \in Values
      BY <1>5 DEF ReportsTypeOK, Popup
    <2>2. PICK v \in {filterPopup.value, Unfiltered} : Apply(v)
      BY <1>5
    <2>3. v \in Values
      BY <1>1, <2>1, <2>2
    <2>4. /\ filters' = IF filterPopup.key = "cluster"
                        THEN [filters EXCEPT !.cluster = v, !.namespace = Unfiltered]
                        ELSE [filters EXCEPT !.namespace = v]
          /\ namespaceAstray' =
                IF filterPopup.key = "cluster" \/ v = Unfiltered THEN FALSE
                ELSE filterPopup.from # filters.cluster
          /\ filterPopup' = NoAnswer
          /\ LoadReports
          /\ UNCHANGED <<reports, namespaceOptions>>
      BY <2>2 DEF Apply
    <2>5. namespaceAstray' \in BOOLEAN
      BY <2>4
    <2>6. CASE filterPopup.key = "cluster"
      <3>1. filters' = [filters EXCEPT !.cluster = v, !.namespace = Unfiltered]
        BY <2>4, <2>6
      <3>2. filters' \in ListQuestion /\ filters'.namespace = Unfiltered
        BY <1>1, <1>2, <2>3, <3>1 DEF ListQuestion
      <3>3. QED BY <2>4, <2>5, <3>2, FilteringKeeps
    <2>7. CASE filterPopup.key # "cluster"
      <3>1. filters' = [filters EXCEPT !.namespace = v]
        BY <2>4, <2>7
      <3>2. filters' \in ListQuestion /\ filters'.namespace = v /\ filters'.cluster = filters.cluster
        BY <1>2, <2>3, <3>1 DEF ListQuestion
      <3>3. ASSUME ~namespaceAstray', v # Unfiltered PROVE v \in In(filters.cluster) \cup {Unfiltered}
        <4>1. filterPopup.from = filters.cluster
          BY <2>4, <2>7, <3>3
        <4>2. filters.cluster \in Values /\ NoAnswer \notin Values
          BY ReportFacts, ReportsAssumption
        <4>3. filterPopup.value \in In(filterPopup.from) \cup {Unfiltered}
          BY <1>5, <4>1, <4>2 DEF PopupKnowsItsCluster
        <4>4. v = filterPopup.value
          BY <2>2, <3>3
        <4>5. QED BY <4>1, <4>3, <4>4
      <3>4. QED BY <2>4, <2>5, <3>2, <3>3, FilteringKeeps
    <2>8. QED BY <2>6, <2>7
  <1>6. CASE \E f \in UrlFilters : GoTo(f)
    <2>1. PICK f \in UrlFilters : GoTo(f)
      BY <1>6
    <2>2. /\ filters' = f /\ LoadReports /\ namespaceAstray' = Astray(f)
          /\ UNCHANGED <<reports, namespaceOptions, filterPopup>>
      BY <2>1 DEF GoTo
    <2>3. QED BY <2>2, UrlFacts, FilteringKeeps
  <1>7. QED BY <1>3, <1>4, <1>5, <1>6

\* The page is left, and mounted again.
LEMMA ComingBackKeeps ==
  ASSUME ReportsInv, NEW f \in UrlFilters, ComeBack(f)
  PROVE  ReportsInv'
  <1> USE DEF ReportsInv
  <1>1. /\ filters' = f /\ AskNamespaces /\ UNCHANGED namespaceOptions
        /\ reports' = NoAnswer /\ reportFetches' = <<f>> /\ filterPopup' = NoAnswer
        /\ reportsCrossed' = FALSE /\ namespaceAstray' = Astray(f)
    BY DEF ComeBack
  <1>2. /\ f \in ListQuestion /\ namespaceAstray' \in BOOLEAN
        /\ ~namespaceAstray' => f.namespace \in In(f.cluster) \cup {Unfiltered}
    BY <1>1, UrlFacts
  <1>3. /\ reportFetches' \in Seq(ListQuestion) /\ reportFetches' # <<>> /\ Len(reportFetches') <= 1
        /\ \A i \in DOMAIN reportFetches' : reportFetches'[i] = f
    BY <1>1, <1>2
  <1>4. /\ NamespacesAskedFor(filters.cluster)'
        /\ namespaceFetches' \in Seq(Values) /\ namespacesCrossed' \in BOOLEAN
    BY <1>1, <1>2, AskNamespacesFacts
  <1>5. ReportsTypeOK'
    BY <1>1, <1>2, <1>3, <1>4 DEF ReportsTypeOK
  <1>6. AsksItsFilters'
    BY <1>1, <1>3, <1>4 DEF AsksItsFilters, NamespacesAskedFor
  <1>7. PopupKnowsItsCluster' /\ NamespaceOfItsCluster'
    BY <1>1, <1>2 DEF PopupKnowsItsCluster, NamespaceOfItsCluster, In
  <1>8. QED BY <1>5, <1>6, <1>7

\* The answers.
LEMMA ReportsAnswered ==
  ASSUME ReportsInv,
         \/ \E i \in DOMAIN reportFetches : ReportsArrive(i) \/ ReportsFail(i)
         \/ \E i \in DOMAIN namespaceFetches : NamespacesArrive(i) \/ NamespacesFail(i)
  PROVE  ReportsInv'
  <1> USE DEF ReportsInv
  <1>1. UNCHANGED <<filters, filterPopup, reportsCrossed, namespaceAstray>>
    BY DEF ReportsArrive, ReportsFail, NamespacesArrive, NamespacesFail
  <1>2. PopupKnowsItsCluster' /\ NamespaceOfItsCluster'
    BY <1>1 DEF PopupKnowsItsCluster, NamespaceOfItsCluster, In
  <1>3. CASE \E i \in DOMAIN reportFetches : ReportsArrive(i) \/ ReportsFail(i)
    <2>1. PICK i \in DOMAIN reportFetches : ReportsArrive(i) \/ ReportsFail(i)
      BY <1>3
    <2>2. reportFetches' = RemoveAt(reportFetches, i) /\ reports' \in {reportFetches[i], NoAnswer}
          /\ UNCHANGED <<namespaceOptions, namespaceFetches, namespacesCrossed>>
      BY <2>1 DEF ReportsArrive, ReportsFail
    <2>3. reportFetches \in Seq(ListQuestion) /\ reportFetches[i] \in ListQuestion
      BY ReportFacts
    <2>4. /\ reportFetches' \in Seq(ListQuestion) /\ Len(reportFetches') = Len(reportFetches) - 1
          /\ \A j \in DOMAIN reportFetches' : \E k \in DOMAIN reportFetches \ {i} : reportFetches'[j] = reportFetches[k]
      BY <2>2, <2>3, Answering
    <2>5. ReportsTypeOK'
      BY <1>1, <2>2, <2>3, <2>4 DEF ReportsTypeOK
    <2>6. AsksItsFilters'
      BY <1>1, <2>2, <2>4, ReportFacts DEF AsksItsFilters
    <2>7. QED BY <1>2, <2>5, <2>6
  <1>4. CASE \E i \in DOMAIN namespaceFetches : NamespacesArrive(i) \/ NamespacesFail(i)
    <2>1. PICK i \in DOMAIN namespaceFetches : NamespacesArrive(i) \/ NamespacesFail(i)
      BY <1>4
    <2>2. namespaceFetches' = RemoveAt(namespaceFetches, i)
          /\ UNCHANGED <<reports, reportFetches>>
          /\ \/ namespaceOptions' = namespaceFetches[i] /\ UNCHANGED namespacesCrossed
             \/ UNCHANGED namespaceOptions /\ namespacesCrossed' = TRUE
      BY <2>1 DEF NamespacesArrive, NamespacesFail
    <2>3. namespaceFetches \in Seq(Values) /\ namespaceFetches[i] \in Values
      BY ReportFacts
    <2>4. /\ namespaceFetches' \in Seq(Values) /\ Len(namespaceFetches') = Len(namespaceFetches) - 1
          /\ \A j \in DOMAIN namespaceFetches' : \E k \in DOMAIN namespaceFetches \ {i} : namespaceFetches'[j] = namespaceFetches[k]
      BY <2>2, <2>3, Answering
    <2>5. ReportsTypeOK'
      BY <1>1, <2>2, <2>3, <2>4 DEF ReportsTypeOK
    <2>6. AsksItsFilters'
      BY <1>1, <2>2, <2>4, ReportFacts DEF AsksItsFilters
    <2>7. QED BY <1>2, <2>5, <2>6
  <1>5. QED BY <1>3, <1>4

\* The popup.
LEMMA PopupKeeps ==
  ASSUME ReportsInv,
         \/ \E k \in {"cluster", "namespace"} : OpenFilter(k)
         \/ SelectOption \/ ClosePopup
  PROVE  ReportsInv'
  <1> USE DEF ReportsInv
  <1>1. UNCHANGED <<filters, reports, reportFetches, namespaceOptions, namespaceFetches,
                    reportsCrossed, namespaceAstray, namespacesCrossed>>
    BY DEF OpenFilter, SelectOption, ClosePopup
  <1>2. AsksItsFilters' /\ NamespaceOfItsCluster'
    BY <1>1 DEF AsksItsFilters, NamespaceOfItsCluster, In
  <1>3. ASSUME filterPopup' \in Popup \cup {NoAnswer},
               (filterPopup' # NoAnswer /\ filterPopup'.from # NoAnswer) =>
                  /\ filterPopup'.key = "namespace"
                  /\ filterPopup'.value \in In(filterPopup'.from) \cup {Unfiltered}
        PROVE  ReportsInv'
    <2>1. ReportsTypeOK'
      BY <1>1, <1>3 DEF ReportsTypeOK
    <2>2. PopupKnowsItsCluster'
      BY <1>3 DEF PopupKnowsItsCluster, In
    <2>3. QED BY <1>2, <2>1, <2>2
  <1>4. /\ filters.cluster \in Values /\ filters.namespace \in Values
        /\ NoAnswer \notin Values /\ NoAnswer \notin Popup
        /\ Clusters \subseteq Values /\ Namespaces \subseteq Values /\ Unfiltered \in Values
    BY ReportFacts, ReportsAssumption DEF Values, Clusters
  <1>5. CASE \E k \in {"cluster", "namespace"} : OpenFilter(k)
    <2>1. PICK k \in {"cluster", "namespace"} : OpenFilter(k)
      BY <1>5
    <2>2. CASE filterPopup = NoAnswer
      <3> DEFINE v == filters[k]
                 c == IF namespaceAstray \/ k = "cluster" THEN NoAnswer ELSE filters.cluster
      <3>1. filterPopup' = [key |-> k, value |-> v, from |-> c]
        BY <2>1, <2>2 DEF OpenFilter
      <3>2. v \in Values
        <4>1. CASE k = "cluster"
          BY <1>4, <4>1
        <4>2. CASE k = "namespace"
          BY <1>4, <4>2
        <4>3. QED BY <4>1, <4>2
      <3>3. c \in Values \cup {NoAnswer}
        BY <1>4
      <3>4. c # NoAnswer => k = "namespace" /\ v \in In(c) \cup {Unfiltered}
        <4>1. SUFFICES ASSUME c # NoAnswer PROVE k = "namespace" /\ v \in In(c) \cup {Unfiltered}
          OBVIOUS
        <4>2. ~namespaceAstray /\ k = "namespace" /\ c = filters.cluster
          BY <4>1
        <4>3. v = filters.namespace
          BY <4>2
        <4>4. QED BY <4>2, <4>3 DEF NamespaceOfItsCluster
      <3> HIDE DEF v, c
      <3>5. filterPopup' \in Popup
        BY <3>1, <3>2, <3>3 DEF Popup
      <3>6. QED BY <1>3, <3>1, <3>4, <3>5
    <2>3. CASE filterPopup # NoAnswer
      <3>1. filterPopup \in Popup
        BY <2>3 DEF ReportsTypeOK
      <3> DEFINE c == IF k = filterPopup.key THEN filterPopup.from ELSE NoAnswer
      <3>2. filterPopup' = [filterPopup EXCEPT !.key = k, !.from = c]
        BY <2>1, <2>3 DEF OpenFilter
      <3>3. c \in Values \cup {NoAnswer} /\ (c # NoAnswer => k = filterPopup.key /\ c = filterPopup.from)
        BY <3>1 DEF Popup
      <3> HIDE DEF c
      <3>4. filterPopup' \in Popup /\ filterPopup'.key = k /\ filterPopup'.from = c /\ filterPopup'.value = filterPopup.value
        BY <3>1, <3>2, <3>3 DEF Popup
      <3>5. c # NoAnswer => k = "namespace" /\ filterPopup.value \in In(c) \cup {Unfiltered}
        BY <2>3, <3>3 DEF PopupKnowsItsCluster
      <3>6. QED BY <1>3, <3>4, <3>5
    <2>4. QED BY <2>2, <2>3
  <1>6. CASE SelectOption
    <2>1. filterPopup # NoAnswer /\ filterPopup \in Popup
      BY <1>6 DEF SelectOption, ReportsTypeOK
    <2>2. CASE filterPopup.key = "cluster"
      <3>1. PICK v \in Clusters : filterPopup' = [filterPopup EXCEPT !.value = v]
        BY <1>6, <2>2 DEF SelectOption
      <3>2. v \in Values
        BY <1>4
      <3>3. filterPopup' \in Popup /\ filterPopup'.from = filterPopup.from
        BY <2>1, <3>1, <3>2 DEF Popup
      <3>4. filterPopup.from = NoAnswer
        BY <2>1, <2>2 DEF PopupKnowsItsCluster
      <3>5. QED BY <1>3, <3>3, <3>4
    <2>3. CASE filterPopup.key # "cluster"
      <3>1. PICK v \in {Unfiltered} \cup IF namespaceOptions = NoAnswer THEN {} ELSE In(namespaceOptions) :
               filterPopup' = [filterPopup EXCEPT !.value = v, !.from = namespaceOptions]
        BY <1>6, <2>3 DEF SelectOption
      <3>2. v \in Values /\ namespaceOptions \in Values \cup {NoAnswer}
        BY <1>4, InNamespaces DEF ReportsTypeOK
      <3>3. /\ filterPopup' \in Popup /\ filterPopup'.from = namespaceOptions /\ filterPopup'.value = v
            /\ filterPopup'.key = "namespace"
        BY <2>1, <2>3, <3>1, <3>2 DEF Popup
      <3>4. namespaceOptions # NoAnswer => v \in In(namespaceOptions) \cup {Unfiltered}
        BY <3>1
      <3>5. QED BY <1>3, <3>3, <3>4
    <2>4. QED BY <2>2, <2>3
  <1>7. CASE ClosePopup
    BY <1>3, <1>7 DEF ClosePopup
  <1>8. QED BY <1>5, <1>6, <1>7

LEMMA ReportsStepInv == ReportsInv /\ [ReportsNext]_reportVars => ReportsInv'
  <1> SUFFICES ASSUME ReportsInv, [ReportsNext]_reportVars PROVE ReportsInv'
    OBVIOUS
  <1>1. CASE UNCHANGED reportVars
    BY <1>1 DEF reportVars, ReportsInv, ReportsTypeOK, AsksItsFilters, PopupKnowsItsCluster, NamespaceOfItsCluster, In
  <1>2. CASE ReportsNext
    BY <1>2, ReportsAnswered, FiltersKeep, ComingBackKeeps, PopupKeeps DEF ReportsNext
  <1>3. QED BY <1>1, <1>2

\* Every step of the list is one of Viewing, for the reports unless they crossed,
\* and for the namespaces on offer unless those did.
LEMMA ReportsStepIsViewing ==
  ASSUME ReportsInv, [ReportsNext]_reportVars
  PROVE  /\ [reportsCrossed \/ ReportsShown!Next]_<<filters, reports>>
         /\ [namespacesCrossed \/ NamespacesShown!Next]_<<filters, namespaceOptions>>
  <1> USE DEF ReportsShown!Next, ReportsShown!Ask, ReportsShown!Show,
              NamespacesShown!Next, NamespacesShown!Ask, NamespacesShown!Show
  <1>1. filters' \in ListQuestion /\ filters'.cluster \in Values
    BY ReportsStepInv DEF ReportsInv, ReportsTypeOK, ListQuestion
  <1>2. CASE UNCHANGED <<reports, namespaceOptions>>
    BY <1>1, <1>2
  <1>3. ASSUME NEW i \in DOMAIN reportFetches, ReportsArrive(i) \/ ReportsFail(i), ~reportsCrossed
        PROVE  ReportsShown!Show
    <2>1. reportFetches[i] = filters
      BY <1>3 DEF ReportsInv, AsksItsFilters
    <2>2. QED BY <1>3, <2>1 DEF ReportsArrive, ReportsFail
  <1>4. ASSUME NEW i \in DOMAIN reportFetches, ReportsArrive(i) \/ ReportsFail(i)
        PROVE  UNCHANGED <<filters, namespaceOptions>>
    BY <1>4 DEF ReportsArrive, ReportsFail
  <1>5. ASSUME NEW i \in DOMAIN namespaceFetches, NamespacesArrive(i), ~namespacesCrossed
        PROVE  NamespacesShown!Show
    <2>1. namespaceFetches[i] = filters.cluster
      BY <1>5 DEF ReportsInv, AsksItsFilters
    <2>2. QED BY <1>5, <2>1 DEF NamespacesArrive
  <1>6. ASSUME NEW i \in DOMAIN namespaceFetches, NamespacesArrive(i) \/ NamespacesFail(i)
        PROVE  /\ UNCHANGED <<filters, reports>>
               /\ NamespacesFail(i) => UNCHANGED namespaceOptions
    BY <1>6 DEF NamespacesArrive, NamespacesFail
  <1>7. CASE \/ \E t \in ReportTypes : SwitchType(t)
             \/ \E k \in {"cluster", "namespace"} : OpenFilter(k)
             \/ SelectOption \/ ClosePopup
             \/ filterPopup # NoAnswer /\ (Apply(filterPopup.value) \/ Apply(Unfiltered))
             \/ ClearAll
             \/ \E f \in UrlFilters : GoTo(f)
             \/ UNCHANGED reportVars
    <2>1. ASSUME NEW t \in ReportTypes, SwitchType(t) PROVE UNCHANGED <<reports, namespaceOptions>>
      BY <2>1 DEF SwitchType
    <2>2. ASSUME NEW k, OpenFilter(k) PROVE UNCHANGED <<reports, namespaceOptions>>
      BY <2>2 DEF OpenFilter
    <2>3. ASSUME SelectOption \/ ClosePopup PROVE UNCHANGED <<reports, namespaceOptions>>
      BY <2>3 DEF SelectOption, ClosePopup
    <2>4. ASSUME NEW v, Apply(v) PROVE UNCHANGED <<reports, namespaceOptions>>
      BY <2>4 DEF Apply
    <2>5. ASSUME ClearAll \/ UNCHANGED reportVars PROVE UNCHANGED <<reports, namespaceOptions>>
      BY <2>5 DEF ClearAll, reportVars
    <2>6. ASSUME NEW f, GoTo(f) PROVE UNCHANGED <<reports, namespaceOptions>>
      BY <2>6 DEF GoTo
    <2>7. QED BY <1>2, <1>7, <2>1, <2>2, <2>3, <2>4, <2>5, <2>6
  <1>8. CASE \E i \in DOMAIN reportFetches : ReportsArrive(i) \/ ReportsFail(i)
    BY <1>3, <1>4, <1>8
  <1>9. CASE \E i \in DOMAIN namespaceFetches : NamespacesArrive(i) \/ NamespacesFail(i)
    BY <1>5, <1>6, <1>9
  <1>10. CASE \E f \in UrlFilters : ComeBack(f)
    <2>1. UNCHANGED namespaceOptions /\ reports' = NoAnswer
      BY <1>10 DEF ComeBack
    <2>2. QED BY <1>1, <2>1
  <1>11. QED BY <1>7, <1>8, <1>9, <1>10 DEF ReportsNext

-----------------------------------------------------------------------------
(* App: each page keeps its invariant while it is mounted, and is not        *)
(* touched while another is.                                                *)

AppInv ==
    /\ AuditInv /\ AlertsInv /\ TokensInv /\ ClustersInv
    /\ ReportsInv /\ SearchInv /\ DashboardInv /\ PreviewInv

LEMMA AppInitInv == AppInit => AppInv
  BY AuditInitInv, AlertsInitInv, TokensInitInv, ClustersInitInv, ReportsInitInv, SearchInitInv,
     DashboardInitInv, PreviewInitInv
  DEF AppInit, AppInv

\* A step of App is one of each page, or leaves it as it is.
LEMMA AppStepIsPageSteps ==
  ASSUME [AppNext]_appVars
  PROVE  /\ [AuditNext]_auditVars /\ [AlertsNext]_alertVars
         /\ [TokensNext]_tokenVars /\ [ClustersNext]_clusterVars
         /\ [ReportsNext]_reportVars /\ [SearchNext]_searchVars
         /\ [DashboardNext]_dashboardVars /\ [PreviewNext]_previewVars
  BY DEF AppNext, appVars, adminVars, readVars

LEMMA AppStepInv == AppInv /\ [AppNext]_appVars => AppInv'
  <1> SUFFICES ASSUME AppInv, [AppNext]_appVars PROVE AppInv'
    OBVIOUS
  <1> USE AppStepIsPageSteps DEF AppInv
  <1>1. AuditInv' /\ AlertsInv'
    BY AuditStepInv, AlertsStepInv
  <1>2. TokensInv' /\ ClustersInv'
    BY TokensStepInv, ClustersStepInv
  <1>3. ReportsInv' /\ SearchInv'
    BY ReportsStepInv, SearchStepInv
  <1>4. DashboardInv' /\ PreviewInv'
    BY DashboardStepInv, PreviewStepInv
  <1>5. QED BY <1>1, <1>2, <1>3, <1>4

\* The pages' invariants are those of App.
THEOREM AppInvariant == AppSpec => []AppInv
  <1>1. AppInit => AppInv
    BY AppInitInv
  <1>2. AppInv /\ [AppNext]_appVars => AppInv'
    BY AppStepInv
  <1>3. QED BY <1>1, <1>2, PTL DEF AppSpec

\* Type correctness of every page.
THEOREM AppTypeCorrect == AppSpec => []AppTypeOK
  <1>1. AppInv => AppTypeOK
    BY DEF AppInv, AppTypeOK, AuditInv, AlertsInv, TokensInv, ClustersInv, ReportsInv, SearchInv,
           DashboardInv, PreviewInv
  <1>2. QED BY <1>1, AppInvariant, PTL

\* What a page that waits for nothing shows is what it asks for, however many
\* requests overlapped, and in whatever order they were answered, as long as no
\* other question was asked meanwhile (the exceptions are each list's own).
THEOREM AppListsAreTrue == AppSpec => []ListsAreTrue
  <1>1. AppInv => ListsAreTrue
    <2> SUFFICES ASSUME AppInv PROVE ListsAreTrue
      OBVIOUS
    <2>1. ShowsLogOfItsFilters /\ ListsStoredRules /\ ListsStoredTokens
      BY AuditInvImplies, AlertsInvImplies, TokensInvImplies DEF AppInv
    <2>2. ReportsAnswerFilters
      BY DEF AppInv, ReportsInv, AsksItsFilters, ReportsAnswerFilters
    <2>3. SearchAnswersQuery
      BY SearchInvImplies DEF AppInv
    <2>4. TrendsAnswerView
      BY DEF AppInv, DashboardInv, TrendsAreOfView, TrendsAnswerView
    <2>5. QED BY <2>1, <2>2, <2>3, <2>4 DEF ListsAreTrue
  <1>2. QED BY <1>1, AppInvariant, PTL

\* What the user takes from a list of suggestions or of namespaces was in it.
THEOREM AppPicksAreOnOffer == AppSpec => []PicksAreOnOffer
  <1>1. AppInv => PicksAreOnOffer
    BY SearchInvImplies DEF AppInv, ReportsInv, PicksAreOnOffer
  <1>2. QED BY <1>1, AppInvariant, PTL

\* Paging alone, with whatever requests are inserted meanwhile, does not lead
\* past the end of the log.
THEOREM AppPastTheEnd == AppSpec => []PastTheEndOnlyAfterCleanup
  <1>1. AppInv => PastTheEndOnlyAfterCleanup
    BY AuditInvImplies DEF AppInv
  <1>2. QED BY <1>1, AppInvariant, PTL

\* No form, dialog or wizard is taken from its user by the answer to another,
\* unless that was already under way when the user began.
THEOREM AppDraftsSurvive == AppSpec => DraftsSurvive
  <1>1. AppInv /\ [AppNext]_appVars =>
          [(form # NoForm /\ form' = NoForm) =>
             \/ CancelForm
             \/ form.hasty
             \/ \E w \in Saving : write[w].own /\ write' = RemoveAt(Disowned, w)]_alertVars
    BY AppStepIsPageSteps, FormStepSurvives DEF AppInv
  <1>2. AppInv /\ [AppNext]_appVars =>
          [/\ (createModal /\ createdToken = "none" /\ createdToken' # "none") =>
                hastyCreate \/ (create # NoToken /\ create.own)
           /\ (deleteTarget # NoToken /\ deleteTarget' = NoToken) =>
                \/ CloseDelete
                \/ hastyDelete
                \/ \E d \in DOMAIN delete : delete[d].own /\ delete' = RemoveAt(Orphaned, d)]_tokenVars
    BY AppStepIsPageSteps, DialogStepSurvives DEF AppInv
  <1>3. AppInv /\ [AppNext]_appVars =>
          [(step = 2 /\ step' = 1) =>
             \/ Back
             \/ hastyStep
             \/ \E i \in DOMAIN registering :
                   /\ registering[i].own /\ registering[i].answer = "done"
                   /\ registering' = RemoveAt(Detached, i)]_clusterVars
    BY AppStepIsPageSteps, WizardStepSurvives DEF AppInv
  <1>4. AppSpec => FormsSurvive
    BY <1>1, AppInvariant, PTL DEF AppSpec, FormsSurvive
  <1>5. AppSpec => DialogsSurvive
    BY <1>2, AppInvariant, PTL DEF AppSpec, DialogsSurvive
  <1>6. AppSpec => WizardSurvives
    BY <1>3, AppInvariant, PTL DEF AppSpec, WizardSurvives
  <1>7. QED BY <1>4, <1>5, <1>6 DEF DraftsSurvive

\* A token that reached the page is shown before it is dropped.
THEOREM AppTokensAreSeen == AppSpec => TokensAreSeen
  <1>1. AppInv /\ [AppNext]_appVars => [createdToken = "unseen" => createdToken' # "none"]_tokenVars
    BY AppStepIsPageSteps, TokenStepIsSeen DEF AppInv
  <1>2. QED BY <1>1, AppInvariant, PTL DEF AppSpec, TokensAreSeen

\* "evaluating..." has a request or a timer that will end it.
THEOREM AppEvaluationEnds == AppSpec => []EvaluationEnds
  <1>1. AppInv => EvaluationEnds
    BY DEF AppInv, PreviewInv
  <1>2. QED BY <1>1, AppInvariant, PTL

\* The preview implements the safety of Viewing: whatever new it shows is the
\* answer to the present matchers, or nothing.
THEOREM PreviewImplementsViewing == AppSpec => Shown!Init /\ [][Shown!Next]_(Shown!vars)
  <1>1. AppInit => Shown!Init
    BY DEF AppInit, PreviewInit, Shown!Init
  <1>2. AppInv /\ [AppNext]_appVars => [Shown!Next]_(Shown!vars)
    BY AppStepIsPageSteps, PreviewStepIsViewing DEF AppInv
  <1>3. QED BY <1>1, <1>2, AppInvariant, PTL DEF AppSpec

\* Whatever new a page shows is the answer to what it asks for, unless it asked
\* for that across the request for something else: as much of Viewing as a page
\* implements that does not cancel its requests.
THEOREM AppViewsUnlessCrossed == AppSpec => ViewsUnlessCrossed
  <1>1. AppInv /\ [AppNext]_appVars => [crossed \/ LogShown!Next]_<<question, shownLog>>
    BY AppStepIsPageSteps, LogStepIsViewing DEF AppInv
  <1>2. AppInv /\ [AppNext]_appVars =>
          /\ [reportsCrossed \/ ReportsShown!Next]_<<filters, reports>>
          /\ [namespacesCrossed \/ NamespacesShown!Next]_<<filters, namespaceOptions>>
    BY AppStepIsPageSteps, ReportsStepIsViewing DEF AppInv
  <1>3. AppInv /\ [AppNext]_appVars => [searchCrossed \/ SearchShown!Next]_<<query, results>>
    BY AppStepIsPageSteps, SearchStepIsViewing DEF AppInv
  <1>4. AppInv /\ [AppNext]_appVars => [trendsCrossed \/ TrendsShown!Next]_<<view, trendData>>
    BY AppStepIsPageSteps, DashboardStepIsViewing DEF AppInv
  <1>5. AppSpec => LogIsViewing
    BY <1>1, AppInvariant, PTL DEF AppSpec, LogIsViewing
  <1>6. AppSpec => ReportsAreViewing
    BY <1>2, AppInvariant, PTL DEF AppSpec, ReportsAreViewing
  <1>7. AppSpec => SearchIsViewing
    BY <1>3, AppInvariant, PTL DEF AppSpec, SearchIsViewing
  <1>8. AppSpec => TrendsAreViewing
    BY <1>4, AppInvariant, PTL DEF AppSpec, TrendsAreViewing
  <1>9. QED BY <1>5, <1>6, <1>7, <1>8 DEF ViewsUnlessCrossed

\* The list of clusters never shows a wrong status again once all that is under
\* way is true, whatever the pages do meanwhile: what ClustersSettle needs of
\* the code apart from fairness.
THEOREM AppListStaysTrue == AppSpec => ListStaysTrue
  <1>1. AppInv /\ [AppNext]_appVars =>
          [(RowsAreTrue /\ UNCHANGED <<registered, synced>>) => RowsAreTrue']_clusterVars
    BY AppStepIsPageSteps, ListStepStaysTrue DEF AppInv
  <1>2. QED BY <1>1, AppInvariant, PTL DEF AppSpec, ListStaysTrue

=============================================================================
