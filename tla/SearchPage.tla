----------------------------- MODULE SearchPage -----------------------------
(***************************************************************************)
(* The two search pages: of vulnerabilities                                 *)
(* (web/src/pages/VulnSearchPage.tsx) and of components                     *)
(* (web/src/pages/ComponentSearchPage.tsx), which differ in what they ask   *)
(* for.  The query is in the URL; the field suggests names while one types. *)
(*                                                                          *)
(* One mount of a page, with any query in its URL.                          *)
(***************************************************************************)
EXTENDS Integers, SequencesExt

CONSTANTS
    Texts,       \* texts of two characters or more that one may search for
    Suggested,   \* how many names the server suggests for each of them
    Blank,       \* the empty text
    Invalid,     \* texts with a character that is not allowed
    MaxSearchRequests \* bound: requests under way

ASSUME SearchAssumption ==
    /\ Suggested \in [Texts -> Nat]
    /\ Blank \notin Texts /\ Invalid \notin Texts /\ Blank # Invalid
    /\ MaxSearchRequests \in Nat

VARIABLES
    query,        \* q of the URL
    results,      \* results: the query that they answer, Blank when empty
    searches,     \* the requests of doSearch, as they were sent
    searching,    \* loading
    input,        \* input
    inputError,   \* inputError: the button is disabled
    suggestions,  \* suggestions: the text they are for, Blank when empty
    showSuggestions, selectedIdx,
    debounce,     \* debounceRef: the text whose timer runs, or Blank
    suggesting,   \* the requests of fetchSuggestions
    searchCrossed,\* history: a search was begun while an older one was under way
    searchFailed  \* history: the last answer was a failure

searchUI == <<query, results, searches, searching, searchCrossed, searchFailed>>
suggestUI == <<suggestions, showSuggestions, selectedIdx, debounce, suggesting>>
inputUI == <<input, inputError>>
searchVars == <<searchUI, inputUI, suggestUI>>

-----------------------------------------------------------------------------

\* How many suggestions there are.
Offered == IF suggestions = Blank THEN 0 ELSE Suggested[suggestions]

ListShown == showSuggestions /\ Offered > 0

MayAskSearch == Len(searches) + Len(suggesting) < MaxSearchRequests

SearchInit ==
    /\ query \in Texts \cup {Blank}
    /\ input = query /\ inputError = FALSE
    /\ results = Blank
    /\ searches = IF query = Blank THEN <<>> ELSE <<query>>
    /\ searching = (query # Blank)
    /\ suggestions = Blank /\ showSuggestions = FALSE /\ selectedIdx = -1
    /\ debounce = Blank /\ suggesting = <<>>
    /\ searchCrossed = FALSE /\ searchFailed = FALSE

-----------------------------------------------------------------------------
(* The search.                                                              *)

\* Mutant: the effect asks for the query of the render before.
SetQueryStale(q) ==
    /\ query' = q
    /\ IF q = query \/ query = Blank
       THEN UNCHANGED <<results, searches, searching, searchCrossed>>
       ELSE /\ MayAskSearch
            /\ searches' = Append(searches, query)
            /\ searching' = TRUE
            /\ searchCrossed' = (searches # <<>>)
            /\ UNCHANGED results
    /\ UNCHANGED searchFailed

\* The URL changes, and the effect calls doSearch: an empty query asks for
\* nothing, and the same query not again.
SetQuery(q) ==
    /\ query' = q
    /\ IF q = query THEN UNCHANGED <<results, searches, searching, searchCrossed>>
       ELSE IF q = Blank THEN
            /\ results' = Blank
            /\ searchCrossed' = (searches # <<>>)
            /\ UNCHANGED <<searches, searching>>
       ELSE /\ MayAskSearch
            /\ searches' = Append(searches, q)
            /\ searching' = TRUE
            /\ searchCrossed' = (searches # <<>>)
            /\ UNCHANGED results
    /\ UNCHANGED searchFailed

\* The browser's buttons, and links.
Navigate ==
    /\ \E q \in Texts \cup {Blank} : SetQuery(q)
    /\ UNCHANGED <<inputUI, suggestUI>>

\* then and finally of doSearch.
SearchArrives(i) ==
    /\ results' = searches[i]
    /\ searching' = FALSE
    /\ searchFailed' = FALSE
    /\ searches' = RemoveAt(searches, i)
    /\ UNCHANGED <<query, searchCrossed, inputUI, suggestUI>>

\* Mutant: a failure leaves the results of the query before.
SearchFailsQuietly(i) ==
    /\ UNCHANGED results
    /\ searching' = FALSE
    /\ searchFailed' = FALSE
    /\ searches' = RemoveAt(searches, i)
    /\ UNCHANGED <<query, searchCrossed, inputUI, suggestUI>>

\* catch and finally of doSearch.
SearchFails(i) ==
    /\ results' = Blank
    /\ searching' = FALSE
    /\ searchFailed' = TRUE
    /\ searches' = RemoveAt(searches, i)
    /\ UNCHANGED <<query, searchCrossed, inputUI, suggestUI>>

\* handleSubmit, of the button or of Enter: disabled while inputError is set, and
\* without effect for an empty or an invalid text.  The timer of the suggestions
\* runs on.
PressSearch ==
    /\ ~inputError
    /\ input \in Texts
    /\ SetQuery(input)
    /\ showSuggestions' = FALSE
    /\ UNCHANGED <<inputUI, suggestions, selectedIdx, debounce, suggesting>>

-----------------------------------------------------------------------------
(* The suggestions.                                                         *)

\* handleInputChange and fetchSuggestions; an invalid text leaves the timer of
\* the text before.
TypeText(v) ==
    /\ v # input \/ v = Invalid
    /\ input' = v
    /\ inputError' = (v = Invalid)
    /\ IF v = Invalid THEN UNCHANGED <<suggestions, showSuggestions, debounce>>
       ELSE IF v = Blank THEN
            suggestions' = Blank /\ showSuggestions' = FALSE /\ debounce' = Blank
       ELSE debounce' = v /\ UNCHANGED <<suggestions, showSuggestions>>
    /\ UNCHANGED <<searchUI, selectedIdx, suggesting>>

\* The timer of 300 ms.
AskSuggestions ==
    /\ debounce # Blank
    /\ MayAskSearch
    /\ suggesting' = Append(suggesting, debounce)
    /\ debounce' = Blank
    /\ UNCHANGED <<searchUI, inputUI, suggestions, showSuggestions, selectedIdx>>

\* Mutant: the place of the cursor in the list is kept.
SuggestionsArriveInPlace(i) ==
    /\ suggestions' = suggesting[i]
    /\ showSuggestions' = (Suggested[suggesting[i]] > 0)
    /\ suggesting' = RemoveAt(suggesting, i)
    /\ UNCHANGED <<searchUI, inputUI, debounce, selectedIdx>>

\* then of fetchSuggestions, whatever the text is by now.
SuggestionsArrive(i) ==
    /\ suggestions' = suggesting[i]
    /\ showSuggestions' = (Suggested[suggesting[i]] > 0)
    /\ selectedIdx' = -1
    /\ suggesting' = RemoveAt(suggesting, i)
    /\ UNCHANGED <<searchUI, inputUI, debounce>>

\* catch of fetchSuggestions: selectedIdx stays.
SuggestionsFail(i) ==
    /\ suggestions' = Blank
    /\ showSuggestions' = FALSE
    /\ suggesting' = RemoveAt(suggesting, i)
    /\ UNCHANGED <<searchUI, inputUI, debounce, selectedIdx>>

\* handleKeyDown: the arrows go around.
Arrow ==
    /\ ListShown
    /\ \/ selectedIdx' = IF selectedIdx < Offered - 1 THEN selectedIdx + 1 ELSE 0
       \/ selectedIdx' = IF selectedIdx > 0 THEN selectedIdx - 1 ELSE Offered - 1
    /\ UNCHANGED <<searchUI, inputUI, suggestions, showSuggestions, debounce, suggesting>>

\* The mouse enters an item.
Hover ==
    /\ ListShown
    /\ selectedIdx' \in 0..Offered - 1
    /\ UNCHANGED <<searchUI, inputUI, suggestions, showSuggestions, debounce, suggesting>>

\* A suggestion is searched for: Enter at selectedIdx, or a click.  It may be
\* any of the texts, or a name that submitSearch refuses: then the list stays.
\* inputError stays that of the text typed before.
PickSuggestion ==
    /\ ListShown
    /\ \/ \E v \in Texts : input' = v /\ SetQuery(v) /\ showSuggestions' = FALSE
       \/ input' = Invalid /\ UNCHANGED <<searchUI, showSuggestions>>
    /\ UNCHANGED <<inputError, suggestions, selectedIdx, debounce, suggesting>>

\* Escape, and a click outside.
HideList ==
    /\ showSuggestions
    /\ showSuggestions' = FALSE
    /\ UNCHANGED <<searchUI, inputUI, suggestions, selectedIdx, debounce, suggesting>>

\* onFocus: the list is shown again as it was.
FocusField ==
    /\ Offered > 0
    /\ showSuggestions' = TRUE
    /\ UNCHANGED <<searchUI, inputUI, suggestions, selectedIdx, debounce, suggesting>>

SearchNext ==
    \/ Navigate \/ PressSearch
    \/ \E i \in DOMAIN searches : SearchArrives(i) \/ SearchFails(i)
    \/ \E v \in Texts \cup {Blank, Invalid} : TypeText(v)
    \/ AskSuggestions
    \/ \E i \in DOMAIN suggesting : SuggestionsArrive(i) \/ SuggestionsFail(i)
    \/ Arrow \/ Hover \/ PickSuggestion \/ HideList \/ FocusField

SearchSpec == SearchInit /\ [][SearchNext]_searchVars

-----------------------------------------------------------------------------

SearchTypeOK ==
    /\ query \in Texts \cup {Blank} /\ results \in Texts \cup {Blank}
    /\ searches \in Seq(Texts) /\ suggesting \in Seq(Texts)
    /\ searching \in BOOLEAN /\ showSuggestions \in BOOLEAN
    /\ input \in Texts \cup {Blank, Invalid} /\ inputError \in BOOLEAN
    /\ suggestions \in Texts \cup {Blank} /\ debounce \in Texts \cup {Blank}
    /\ selectedIdx \in Nat \cup {-1}
    /\ searchCrossed \in BOOLEAN /\ searchFailed \in BOOLEAN

\* A page that waits for nothing says so, and shows the results of its query,
\* unless the query was changed while an older search was under way: doSearch
\* is not cancelled (VulnSearchPage.tsx:27-47, ComponentSearchPage.tsx:27-48).
\* A search that failed looks like one that found nothing.
SearchAnswersQuery ==
    searches = <<>> =>
        /\ ~searching
        /\ searchCrossed \/ results = IF searchFailed THEN Blank ELSE query

\* Enter picks suggestions[selectedIdx]: whenever a name is selected in a list
\* that is shown, the list has it, however the lists for different texts have
\* replaced each other (ComponentSearchPage.tsx:105-122).
EnterPicksASuggestion == ListShown => selectedIdx < Offered

SearchShown == INSTANCE Viewing WITH
    Questions <- Texts, Nothing <- Blank, asked <- query, shown <- results

\* A search page shows nothing new but the answer to its query, or nothing; the
\* exception is one that searched while another search was under way
\* (VulnSearchPage.tsx:27-47, ComponentSearchPage.tsx:27-48).
SearchIsViewing == [][searchCrossed \/ SearchShown!Next]_<<query, results>>

=============================================================================
