----------------------------- MODULE ReportNotes -----------------------------
(***************************************************************************)
(* The notes of a user: the page of a report in the web UI                  *)
(* (web/src/pages/DetailPage.tsx, components/DetailView.tsx, Notes.tsx),    *)
(* the requests it has under way, and the rows they read and write          *)
(* (internal/api/reports.go, internal/storage/report_store.go), which       *)
(* workers, purges and other users write at the same time.                  *)
(*                                                                          *)
(* One tab of one user.  Requests are served, and their answers applied, in *)
(* any order, also after the user has gone to another page.                 *)
(***************************************************************************)
EXTENDS Naturals, FiniteSets

CONSTANTS
    Reports,    \* the keys of reports
    Clusters,   \* the clusters they come from
    ClusterOf,  \* the cluster of each report
    Notes,      \* what can be written as notes
    NoNotes,    \* the notes of a new row: ''
    NoRow,      \* the report is not in the table
    List,       \* the page that is not a report's: the list, a search, ...
    NoDetail,   \* detail is null
    Closed,     \* the notes are shown, not edited
    Loads,      \* bound: GET requests of the page under way
    Saves,      \* bound: PUT requests of the tab under way
    MaxPending, \* bound: both together
    Free,       \* no such request
    Pending     \* the server has not served the request

ASSUME NotesAssumption ==
    /\ ClusterOf \in [Reports -> Clusters]
    /\ NoNotes \in Notes
    /\ NoRow \notin Notes /\ Closed \notin Notes
    /\ List \notin Reports
    /\ Pending \notin Notes \cup {NoRow}
    /\ MaxPending \in Nat

\* What the page shows: the report in its meta, and its notes.
Detail == [report : Reports, notes : Notes]

\* getReportDetail: asked for a report, answered with its notes or an error.
Load == [report : Reports, answer : Notes \cup {NoRow, Pending}]

\* handleSave: the report and the notes it shows, the notes it sends; whether
\* they are stored; whether the DetailView and the Notes component that wait
\* for the answer are still mounted.
\* history: fresh, nobody has changed the row since it was shown.
Save == [report : Reports, seen : Notes, notes : Notes, stored : BOOLEAN,
         view : BOOLEAN, box : BOOLEAN, fresh : BOOLEAN]

ASSUME FreeAssumption ==
    /\ NoDetail \notin Detail
    /\ Free \notin Load
    /\ Free \notin Save

VARIABLES
    row,        \* the notes of each report in the table
    page,       \* the report in the header of the page
    detail,     \* DetailView: detail
    loading,    \* DetailView: loading
    draft,      \* Notes: the draft while editing
    load,       \* the GET requests of the mounted DetailView
    save,       \* the PUT requests, also of pages that were left
    overlapped, \* history: the page asked again while a request was under way
    stale       \* history: the row changed otherwise since the page's GET

store == <<row, stale>>
view  == <<page, detail, loading, draft, overlapped>>
vars  == <<store, view, load, save>>

-----------------------------------------------------------------------------

\* The Notes component is mounted.
Boxed == ~loading /\ detail # NoDetail

\* A request of the page as it is mounted is under way.
Underway ==
    \/ \E l \in Loads : load[l] # Free
    \/ \E s \in Saves : save[s] # Free /\ save[s].view

\* The bound on requests.
MayAsk == Cardinality({l \in Loads : load[l] # Free})
            + Cardinality({s \in Saves : save[s] # Free}) < MaxPending

\* saving, in the mounted Notes component.
Saving == \E s \in Saves : save[s] # Free /\ save[s].box

\* The Notes component is unmounted: its saves no longer reach it.
Unboxed(f) == [s \in Saves |-> IF f[s] = Free THEN Free ELSE [f[s] EXCEPT !.box = FALSE]]

\* Nobody waits any more for the answer to q, which may yet be stored.
Forsaken(q) ==
    IF q = Free \/ q.stored THEN Free ELSE [q EXCEPT !.view = FALSE, !.box = FALSE]

\* Mutant: the draft outlives the component it belongs to.
RenderKeepsDraft(d, l, n, f) ==
    /\ detail' = d
    /\ loading' = l
    /\ draft' = n
    /\ IF Boxed /\ Boxed' THEN save' = f ELSE save' = Unboxed(f)

\* DetailView renders the detail d; Notes stays mounted with the draft n, or is
\* unmounted, or is a new one.
Render(d, l, n, f) ==
    /\ detail' = d
    /\ loading' = l
    /\ IF Boxed /\ Boxed' THEN draft' = n      /\ save' = f
                          ELSE draft' = Closed /\ save' = Unboxed(f)

\* The notes of S change: no save is based any more on what they were.
Outdated(S) ==
    [s \in Saves |-> IF save[s] # Free /\ save[s].report \in S
                     THEN [save[s] EXCEPT !.fresh = FALSE] ELSE save[s]]

Init ==
    /\ row \in [Reports -> {NoRow, NoNotes}]
    /\ page = List
    /\ detail = NoDetail
    /\ loading = TRUE
    /\ draft = Closed
    /\ load = [l \in Loads |-> Free]
    /\ save = [s \in Saves |-> Free]
    /\ overlapped = FALSE
    /\ stale = FALSE

-----------------------------------------------------------------------------
(* Everyone else: the scraper's workers and purges, and other users.        *)

\* Mutant: the upsert replaces the whole row.
UpsertReplaces(r) ==
    /\ row' = [row EXCEPT ![r] = NoNotes]
    /\ UNCHANGED <<stale, view, load, save>>

\* UpsertReport: a row that is there keeps its notes.
Upsert(r) ==
    /\ row' = [row EXCEPT ![r] = IF @ = NoRow THEN NoNotes ELSE @]
    /\ UNCHANGED <<stale, view, load, save>>

Remove(S) ==
    /\ row' = [r \in Reports |-> IF r \in S THEN NoRow ELSE row[r]]
    /\ stale' = (stale \/ page \in S)
    /\ save' = Outdated(S)
    /\ UNCHANGED <<view, load>>

DeleteReport(r) == Remove({r})

DeleteByCluster(c) == Remove({r \in Reports : ClusterOf[r] = c})

\* UpdateNotes for another user, or for another tab.
OthersSave(r) ==
    /\ row[r] # NoRow
    /\ \E n \in Notes : row' = [row EXCEPT ![r] = n]
    /\ stale' = (stale \/ page = r)
    /\ save' = Outdated({r})
    /\ UNCHANGED <<view, load>>

(***************************************************************************)
(* The page and its GET requests.                                           *)
(***************************************************************************)

\* Mutant: the effect does not show Loading again.
OpenSilently(r) ==
    \E l \in Loads :
       /\ load[l] = Free /\ MayAsk
       /\ load' = [load EXCEPT ![l] = [report |-> r, answer |-> Pending]]
       /\ page' = r
       /\ Render(detail, page = List, draft, save)
       /\ overlapped' = Underway
       /\ UNCHANGED store

\* The user opens the page of r, from another page or from that of a report
\* (then DetailView stays mounted, with its detail): the effect runs.
Open(r) ==
    \E l \in Loads :
       /\ load[l] = Free /\ MayAsk
       /\ load' = [load EXCEPT ![l] = [report |-> r, answer |-> Pending]]
       /\ page' = r
       /\ Render(detail, TRUE, draft, save)
       /\ overlapped' = Underway
       /\ UNCHANGED store

\* The user leaves: DetailView is unmounted, what it waits for comes to nothing.
Leave ==
    /\ page # List
    /\ page' = List
    /\ detail' = NoDetail
    /\ loading' = TRUE
    /\ draft' = Closed
    /\ load' = [l \in Loads |-> Free]
    /\ save' = [s \in Saves |-> Forsaken(save[s])]
    /\ overlapped' = FALSE
    /\ UNCHANGED store

\* GetReport.
ServeLoad(l) ==
    /\ load[l] # Free
    /\ load[l].answer = Pending
    /\ load' = [load EXCEPT ![l].answer = row[load[l].report]]
    /\ stale' = FALSE
    /\ UNCHANGED <<row, view, save>>

\* The request fails, or its answer is lost.
LoadFails(l) ==
    /\ load[l] # Free
    /\ load' = [load EXCEPT ![l].answer = NoRow]
    /\ UNCHANGED <<store, view, save>>

\* then(setDetail), catch, finally(setLoading(false)).
ApplyLoad(l) ==
    /\ load[l] # Free
    /\ load[l].answer # Pending
    /\ LET a == load[l].answer
       IN  Render(IF a = NoRow THEN NoDetail
                  ELSE [report |-> load[l].report, notes |-> a], FALSE, draft, save)
    /\ load' = [load EXCEPT ![l] = Free]
    /\ UNCHANGED <<store, page, overlapped>>

(***************************************************************************)
(* The notes and their PUT requests.                                        *)
(***************************************************************************)

\* The buttons Edit and Cancel, and the text area.
Edit ==
    /\ Boxed
    /\ draft = Closed
    /\ draft' = detail.notes
    /\ UNCHANGED <<store, page, detail, loading, overlapped, load, save>>

Type ==
    /\ Boxed
    /\ draft # Closed
    /\ \E n \in Notes \ {draft} : draft' = n
    /\ UNCHANGED <<store, page, detail, loading, overlapped, load, save>>

Cancel ==
    /\ Boxed
    /\ draft # Closed
    /\ draft' = Closed
    /\ UNCHANGED <<store, page, detail, loading, overlapped, load, save>>

\* Mutant: the button Save is not disabled while saving.
PressSaveAgain ==
    /\ Boxed
    /\ draft # Closed
    /\ \E s \in Saves :
          /\ save[s] = Free /\ MayAsk
          /\ save' = [save EXCEPT ![s] =
                [report |-> detail.report, seen |-> detail.notes, notes |-> draft,
                 stored |-> FALSE, view |-> TRUE, box |-> TRUE,
                 fresh |-> ~stale /\ ~overlapped]]
    /\ UNCHANGED <<store, view, load>>

\* The button Save: handleSave takes the draft, the detail and the callback as
\* they are now.
PressSave ==
    /\ Boxed
    /\ draft # Closed
    /\ ~Saving
    /\ \E s \in Saves :
          /\ save[s] = Free /\ MayAsk
          /\ save' = [save EXCEPT ![s] =
                [report |-> detail.report, seen |-> detail.notes, notes |-> draft,
                 stored |-> FALSE, view |-> TRUE, box |-> TRUE,
                 fresh |-> ~stale /\ ~overlapped]]
    /\ UNCHANGED <<store, view, load>>

\* UpdateNotes, when the row is there.
ServeSave(s) ==
    /\ save[s] # Free
    /\ ~save[s].stored
    /\ row[save[s].report] # NoRow
    /\ LET r == save[s].report
       IN  /\ row' = [row EXCEPT ![r] = save[s].notes]
           /\ stale' = (stale \/ (page = r /\ ~save[s].view))
           /\ save' = [Outdated({r}) EXCEPT ![s] =
                         IF save[s].view THEN [save[s] EXCEPT !.stored = TRUE] ELSE Free]
    /\ UNCHANGED <<view, load>>

\* The row is not there, or the statement fails: the editor stays open.
SaveRefused(s) ==
    /\ save[s] # Free
    /\ ~save[s].stored
    /\ save' = [save EXCEPT ![s] = Free]
    /\ UNCHANGED <<store, view, load>>

\* fetch fails, whether the request has been, is yet to be or is never served.
LoseSave(s) ==
    /\ save[s] # Free
    /\ save[s].view
    /\ stale' = (stale \/ save[s].stored)
    /\ save' = [save EXCEPT ![s] = Forsaken(@)]
    /\ UNCHANGED <<row, view, load>>

\* Mutant: the page does not take over the notes that it has saved.
SaveSucceedsQuietly(s) ==
    /\ save[s] # Free
    /\ save[s].stored
    /\ Render(detail, loading, IF save[s].box THEN Closed ELSE draft,
              [save EXCEPT ![s] = Free])
    /\ UNCHANGED <<store, page, overlapped, load>>

\* onSaved puts the detail back as it was when Save was pressed, with the notes;
\* setEditing(false) closes the editor with whatever is in it.
SaveSucceeds(s) ==
    /\ save[s] # Free
    /\ save[s].stored
    /\ Render([report |-> save[s].report, notes |-> save[s].notes], loading,
              IF save[s].box THEN Closed ELSE draft, [save EXCEPT ![s] = Free])
    /\ UNCHANGED <<store, page, overlapped, load>>

-----------------------------------------------------------------------------

Others ==
    \/ \E r \in Reports : Upsert(r) \/ DeleteReport(r) \/ OthersSave(r)
    \/ \E c \in Clusters : DeleteByCluster(c)

Viewing ==
    \/ \E r \in Reports : Open(r)
    \/ Leave
    \/ \E l \in Loads : ServeLoad(l) \/ LoadFails(l) \/ ApplyLoad(l)

Editing ==
    \/ Edit \/ Type \/ Cancel \/ PressSave
    \/ \E s \in Saves :
          ServeSave(s) \/ SaveRefused(s) \/ LoseSave(s) \/ SaveSucceeds(s)

Next == Others \/ Viewing \/ Editing

Spec == Init /\ [][Next]_vars

-----------------------------------------------------------------------------

\* Every variable has its type; an editor is only open in a mounted component.
TypeOK ==
    /\ row \in [Reports -> Notes \cup {NoRow}]
    /\ page \in Reports \cup {List}
    /\ detail \in Detail \cup {NoDetail}
    /\ loading \in BOOLEAN
    /\ draft \in Notes \cup {Closed}
    /\ draft # Closed => Boxed
    /\ load \in [Loads -> Load \cup {Free}]
    /\ save \in [Saves -> Save \cup {Free}]
    /\ overlapped \in BOOLEAN
    /\ stale \in BOOLEAN

\* The notes of a row that stays are only changed by a user: whatever the
\* scraper writes in between, they are never overwritten by it
\* (UpsertReport, report_store.go:46-47).
NotesOutliveUpserts ==
    [][\A r \in Reports :
          (row[r] # NoRow /\ row'[r] # NoRow /\ row'[r] # row[r])
             => \/ OthersSave(r)
                \/ \E s \in Saves : ServeSave(s) /\ save[s].report = r]_vars

\* The content of the page is that of the report in its header, unless the page
\* asked again while it waited for an answer (DetailView's effect is not
\* cancelled).
ShowsItsReport ==
    Boxed /\ ~overlapped => detail.report = page

\* A page that waits for nothing shows the notes as they are in the table,
\* unless it asked again while it waited, or somebody else has written them or
\* deleted the row since, or the answer to its save was lost.
ShowsStoredNotes ==
    Boxed /\ ~Underway /\ ~overlapped /\ ~stale => row[page] = detail.notes

\* A save only replaces the notes that its user has seen, with the same
\* exceptions (UpdateNotes takes no version, handleSave sends none).
OverwritesAreSeen ==
    [][\A s \in Saves :
          (ServeSave(s) /\ save[s].fresh) => row[save[s].report] = save[s].seen]_vars

\* The report whose content the page shows, for the one in its header.
ShownReport == IF Boxed THEN detail.report ELSE List

DetailShown == INSTANCE Viewing WITH
    Questions <- Reports, Nothing <- List, asked <- page, shown <- ShownReport

\* A page differs from its abstract specification only after it asked again
\* while it waited: an answer, to its GET or to a save, shows the report in the
\* header or nothing (DetailView's effect, onSaved).
DetailIsViewing == [][overlapped \/ DetailShown!Next]_<<page, ShownReport>>

\* The inductive invariant behind them: what is mounted and waits for what ...
MountInv ==
    /\ page = List =>
          /\ detail = NoDetail /\ loading
          /\ ~Underway
    /\ \A s \in Saves : save[s] # Free =>
          /\ save[s].stored => save[s].view
          /\ save[s].box => save[s].view /\ Boxed

\* ... a page that has not asked twice waits for one answer of its own report ...
AskedOnce ==
    /\ Boxed => detail.report = page
    /\ \A l \in Loads : load[l] # Free =>
          /\ loading
          /\ load[l].report = page
          /\ \A m \in Loads : load[m] # Free => m = l
    /\ \A s \in Saves : save[s] # Free /\ save[s].view =>
          /\ save[s].box
          /\ save[s].report = page
          /\ \A u \in Saves : save[u] # Free /\ save[u].view => u = s

\* ... and if nobody else has changed the row, that answer and the page agree
\* with the table.
AgreesWithTable ==
    /\ \A l \in Loads : load[l] # Free /\ load[l].answer \in Notes =>
          row[page] = load[l].answer
    /\ \A s \in Saves : save[s] # Free /\ save[s].stored => row[page] = save[s].notes
    /\ (Boxed /\ \A s \in Saves : save[s] # Free => ~save[s].stored) =>
          row[page] = detail.notes

\* A save that nobody has overtaken finds the notes it is based on.
FreshIsSeen ==
    \A s \in Saves : save[s] # Free /\ save[s].fresh /\ ~save[s].stored =>
        row[save[s].report] = save[s].seen

NotesInv ==
    /\ MountInv
    /\ ~overlapped => AskedOnce
    /\ ~overlapped /\ ~stale => AgreesWithTable
    /\ FreshIsSeen

=============================================================================
