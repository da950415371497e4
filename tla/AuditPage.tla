------------------------------ MODULE AuditPage ------------------------------
(***************************************************************************)
(* The API audit log and its page: the rows that every request leaves       *)
(* behind (internal/api/server.go, internal/storage/api_logs.go), and the   *)
(* page that lists, filters and cleans them up                              *)
(* (web/src/pages/AdminPage.tsx).                                           *)
(*                                                                          *)
(* One mount of the page; the log it finds is any.  What the requests of    *)
(* other pages and users do to the log is Insert and OthersCleanup.  Of the *)
(* log we keep how many of its rows each filter matches.                    *)
(***************************************************************************)
EXTENDS Naturals, SequencesExt

CONSTANTS
    Filters,   \* what a user filters by: method, path, status, user
    All,       \* no filter is set
    PageSize,  \* PAGE_SIZE
    MaxRows,   \* bound: rows of the log
    MaxLogRequests, \* bound: requests under way, the one to clean up included
    Unasked    \* no such request, or no answer yet

ASSUME AuditAssumption ==
    /\ All \notin Filters
    /\ PageSize \in Nat \ {0}
    /\ MaxRows \in Nat /\ MaxLogRequests \in Nat

\* The state that fetchLogs depends on.
Question == [offset : Nat, filter : Filters \cup {All}]

\* The answer: the rows on the page, and the count of all rows that match.
\* history: of, the question; some, whether any row did match.
Answer == [of : Question, items : Nat, total : Nat, some : BOOLEAN]

\* getApiLogs: the question, and the count once its statement has run.
Fetch == [of : Question, total : Nat \cup {Unasked}]

\* cleanupApiLogs: whether the rows are deleted, and the question of the
\* fetchLogs that handleCleanup has captured.
Cleanup == [deleted : BOOLEAN, then : Question]

ASSUME UnaskedAssumption == Unasked \notin Fetch \cup Cleanup \cup Answer \cup Nat

VARIABLES
    apiLog,     \* api_logs: how many rows match each filter
    question,   \* offset, and method, pathFilter, statusMin, statusMax, userFilter
    shownLog,   \* logs and total: the last answer
    fetch,      \* the requests for a page of the log, as they were sent
    cleanup,    \* the request to clean up
    overlay,    \* "popup": activePopup; "dialog": showCleanup; or "none"
    loadError,  \* "shown"; "wiped" once the answer for the statistics cleared it
    crossed,    \* history: asked while a fetch for another question was under way
    adrift      \* history: rows were deleted since the page was opened, or the user
                \* has paged on from the rows of another question

history == <<crossed, adrift>>
auditVars == <<apiLog, question, shownLog, fetch, cleanup, overlay, loadError, history>>

-----------------------------------------------------------------------------

\* apiLogWhere: how many rows match.
Matching(f) == apiLog[f]

\* The counts of a log that is no longer than the bound.
Counts == {l \in [Filters \cup {All} -> 0..MaxRows] : \A f \in Filters : l[f] <= l[All]}

\* SELECT ... LIMIT ? OFFSET ?: how many rows the page has.
ItemsAt(q) ==
    LET n == Matching(q.filter)
    IN  IF n <= q.offset THEN 0 ELSE IF n - q.offset < PageSize THEN n - q.offset ELSE PageSize

\* The bound on requests.
MayAsk == Len(fetch) + (IF cleanup = Unasked THEN 0 ELSE 1) < MaxLogRequests

FirstPage == [offset |-> 0, filter |-> All]

\* Mutant: the fetchLogs of the render before is called.
FetchLogsStale(q) ==
    /\ fetch' = Append(fetch, [of |-> question, total |-> Unasked])
    /\ crossed' = (q # question' \/ \E f \in DOMAIN fetch : fetch[f].of # q)

\* fetchLogs of a render whose question was q.
FetchLogs(q) ==
    /\ fetch' = Append(fetch, [of |-> q, total |-> Unasked])
    /\ crossed' = (q # question' \/ \E f \in DOMAIN fetch : fetch[f].of # q)

\* The user changes the question, and the effect asks it; setting a state to
\* what it is asks nothing.
Ask(q) ==
    /\ MayAsk
    /\ question' = q
    /\ IF q = question THEN UNCHANGED <<fetch, crossed>> ELSE FetchLogs(q)

\* The page says "No API logs found." and has neither filters nor paging.
NoneFound == shownLog = Unasked \/ shownLog.items = 0

AuditInit ==
    /\ apiLog \in Counts
    /\ question = FirstPage
    /\ shownLog = Unasked
    /\ fetch = <<[of |-> FirstPage, total |-> Unasked]>>
    /\ cleanup = Unasked
    /\ overlay = "none"
    /\ loadError = "none"
    /\ crossed = FALSE
    /\ adrift = FALSE

-----------------------------------------------------------------------------
(* The log.                                                                 *)

\* The middleware inserts the row of a request, of this page or of another; it
\* matches some of the filters.
Insert ==
    /\ Matching(All) < MaxRows
    /\ \E matched \in SUBSET Filters :
          apiLog' = [f \in Filters \cup {All} |->
                        IF f \in matched \cup {All} THEN apiLog[f] + 1 ELSE apiLog[f]]
    /\ UNCHANGED <<question, shownLog, fetch, cleanup, overlay, loadError, history>>

\* DELETE FROM api_logs WHERE created_at < ?: any of the rows may be old.
DeleteOld ==
    /\ \E l \in Counts :
          /\ \A f \in Filters \cup {All} : l[f] <= apiLog[f]
          /\ \A f \in Filters : apiLog[f] - l[f] <= apiLog[All] - l[All]
          /\ apiLog' = l
    /\ adrift' = (adrift \/ apiLog' # apiLog)

OthersCleanup ==
    /\ DeleteOld
    /\ apiLog' # apiLog
    /\ UNCHANGED <<question, shownLog, fetch, cleanup, overlay, loadError, crossed>>

\* ListAPILogs: SELECT COUNT(*); the page is selected by a second statement.
Count(f) ==
    /\ fetch[f].total = Unasked
    /\ fetch' = [fetch EXCEPT ![f].total = Matching(fetch[f].of.filter)]
    /\ UNCHANGED <<apiLog, question, shownLog, cleanup, overlay, loadError, history>>

\* CleanupAPILogs: DELETE, of which the row of cleanup_history is yet to come.
DeleteStatement ==
    /\ cleanup # Unasked
    /\ ~cleanup.deleted
    /\ DeleteOld
    /\ cleanup' = [cleanup EXCEPT !.deleted = TRUE]
    /\ UNCHANGED <<question, shownLog, fetch, overlay, loadError, crossed>>

-----------------------------------------------------------------------------
(* The page.                                                                *)

\* The second statement of ListAPILogs, and its answer: nothing here depends on
\* what the log becomes while the answer is on its way.
LogsArrive(f) ==
    /\ fetch[f].total # Unasked
    /\ LET q == fetch[f].of
       IN  shownLog' = [of |-> q, items |-> ItemsAt(q), total |-> fetch[f].total,
                        some |-> Matching(q.filter) > 0]
    /\ fetch' = RemoveAt(fetch, f)
    /\ loadError' = "none"
    /\ UNCHANGED <<apiLog, question, cleanup, overlay, history>>

\* Mutant: the error is logged, not shown.
LogsFailSilently(f) ==
    /\ fetch' = RemoveAt(fetch, f)
    /\ UNCHANGED <<apiLog, question, shownLog, cleanup, overlay, loadError, history>>

\* A statement fails, or the answer is lost.
LogsFail(f) ==
    /\ fetch' = RemoveAt(fetch, f)
    /\ loadError' = "shown"
    /\ UNCHANGED <<apiLog, question, shownLog, cleanup, overlay, history>>

\* fetchStats shares loadError.
StatsArrive ==
    /\ loadError = "shown"
    /\ loadError' = "wiped"
    /\ UNCHANGED <<apiLog, question, shownLog, fetch, cleanup, overlay, history>>

StatsFail ==
    /\ loadError' = "shown"
    /\ UNCHANGED <<apiLog, question, shownLog, fetch, cleanup, overlay, history>>

\* The button Refresh, and the interval of Auto.
Refresh ==
    /\ MayAsk
    /\ UNCHANGED question
    /\ FetchLogs(question)
    /\ UNCHANGED <<apiLog, shownLog, cleanup, overlay, loadError, adrift>>

\* Mutant: the button Next is not disabled on the last page.
NextPageAlways ==
    /\ ~NoneFound
    /\ overlay # "dialog"
    /\ question.offset < MaxRows
    /\ Ask([question EXCEPT !.offset = @ + PageSize])
    /\ overlay' = "none"
    /\ adrift' = (adrift \/ shownLog.of # question)
    /\ UNCHANGED <<apiLog, shownLog, cleanup, loadError>>

\* The button Next; the click also closes a popup.
NextPage ==
    /\ ~NoneFound
    /\ overlay # "dialog"
    /\ question.offset + PageSize < shownLog.total
    /\ Ask([question EXCEPT !.offset = @ + PageSize])
    /\ overlay' = "none"
    /\ adrift' = (adrift \/ shownLog.of # question)
    /\ UNCHANGED <<apiLog, shownLog, cleanup, loadError>>

\* Mutant: the button Previous does not stop at the first page.
PreviousPageAlways ==
    /\ ~NoneFound
    /\ overlay # "dialog"
    /\ Ask([question EXCEPT !.offset = @ - PageSize])
    /\ overlay' = "none"
    /\ UNCHANGED <<apiLog, shownLog, cleanup, loadError, adrift>>

\* The button Previous.
PreviousPage ==
    /\ ~NoneFound
    /\ overlay # "dialog"
    /\ question.offset # 0
    /\ Ask([question EXCEPT !.offset = IF @ < PageSize THEN 0 ELSE @ - PageSize])
    /\ overlay' = "none"
    /\ UNCHANGED <<apiLog, shownLog, cleanup, loadError, adrift>>

\* togglePopup: the buttons are in the head of the table.
OpenPopup ==
    /\ ~NoneFound
    /\ overlay = "none"
    /\ overlay' = "popup"
    /\ UNCHANGED <<apiLog, question, shownLog, fetch, cleanup, loadError, history>>

\* Apply, Clear, or the choice of a method.
ApplyFilter ==
    /\ overlay = "popup"
    /\ \E k \in Filters \cup {All} : Ask([offset |-> 0, filter |-> k])
    /\ overlay' = "none"
    /\ UNCHANGED <<apiLog, shownLog, cleanup, loadError, adrift>>

\* The button Cleanup, which also closes a popup.
OpenDialog ==
    /\ overlay # "dialog"
    /\ overlay' = "dialog"
    /\ UNCHANGED <<apiLog, question, shownLog, fetch, cleanup, loadError, history>>

\* The buttons that close a popup or the dialog, and a click beside it.
CloseOverlay ==
    /\ overlay # "none"
    /\ overlay' = "none"
    /\ UNCHANGED <<apiLog, question, shownLog, fetch, cleanup, loadError, history>>

\* The button Delete Old Logs: handleCleanup waits for the answer.  Bound: once
\* at a time.
PressDeleteOldLogs ==
    /\ overlay = "dialog"
    /\ cleanup = Unasked
    /\ MayAsk
    /\ cleanup' = [deleted |-> FALSE, then |-> question]
    /\ UNCHANGED <<apiLog, question, shownLog, fetch, overlay, loadError, history>>

\* The history has its row: the dialog closes, and the fetchLogs that
\* handleCleanup has captured asks.
CleanupSucceeds ==
    /\ cleanup # Unasked
    /\ cleanup.deleted
    /\ cleanup' = Unasked
    /\ overlay' = IF overlay = "dialog" THEN "none" ELSE overlay
    /\ UNCHANGED question
    /\ FetchLogs(cleanup.then)
    /\ UNCHANGED <<apiLog, shownLog, loadError, adrift>>

\* Either statement fails, or the answer is lost: silently ignored.
CleanupFails ==
    /\ cleanup # Unasked
    /\ cleanup' = Unasked
    /\ UNCHANGED <<apiLog, question, shownLog, fetch, overlay, loadError, history>>

Log == Insert \/ OthersCleanup \/ DeleteStatement \/ \E f \in DOMAIN fetch : Count(f)

AuditNext ==
    \/ Log
    \/ \E f \in DOMAIN fetch : LogsArrive(f) \/ LogsFail(f)
    \/ StatsArrive \/ StatsFail \/ Refresh \/ NextPage \/ PreviousPage
    \/ OpenPopup \/ ApplyFilter \/ OpenDialog \/ CloseOverlay
    \/ PressDeleteOldLogs \/ CleanupSucceeds \/ CleanupFails

AuditSpec == AuditInit /\ [][AuditNext]_auditVars

-----------------------------------------------------------------------------

AuditTypeOK ==
    /\ apiLog \in Counts
    /\ question \in Question
    /\ shownLog \in Answer \cup {Unasked}
    /\ fetch \in Seq(Fetch)
    /\ cleanup \in Cleanup \cup {Unasked}
    /\ overlay \in {"none", "popup", "dialog"}
    /\ loadError \in {"none", "shown", "wiped"}
    /\ crossed \in BOOLEAN /\ adrift \in BOOLEAN

\* The page says that it found no logs although some match, and has then no
\* filter and no paging to leave that state by, only after a cleanup, or when
\* the user has paged on from rows that were not yet, or no longer, those of
\* the filters (AdminPage.tsx:300-301).
PastTheEndOnlyAfterCleanup ==
    (shownLog # Unasked /\ NoneFound /\ shownLog.some) => adrift

\* A page that waits for nothing shows the answer to its offset and filters,
\* unless it asked while it waited for the answer to others, or an error is
\* shown, or was wiped away by the answer for the statistics (AdminPage.tsx:56-91).
ShowsLogOfItsFilters ==
    (fetch = <<>> /\ ~crossed /\ loadError = "none") =>
        shownLog # Unasked /\ shownLog.of = question

\* "No API logs found." (web/src/pages/AdminPage.tsx:301): when the page says so, there were
\* none that match its filters.
NoneFoundMeansNone ==
    (shownLog # Unasked /\ NoneFound) => ~shownLog.some

LogShown == INSTANCE Viewing WITH
    Questions <- Question, Nothing <- Unasked,
    asked <- question, shown <- IF shownLog = Unasked THEN Unasked ELSE shownLog.of

\* The rows that come to be shown are those of the offset and the filters,
\* unless the page asked across the request for others (AdminPage.tsx:56-91).
LogIsViewing == [][crossed \/ LogShown!Next]_<<question, shownLog>>

=============================================================================
