-------------------------- MODULE ReportNotesProofs --------------------------
(***************************************************************************)
(* Proofs about ReportNotes, for any reports, notes and requests under way. *)
(***************************************************************************)
EXTENDS ReportNotes, TLAPS

\* The strengthening that the safety properties follow from.
IInv == TypeOK /\ NotesInv

\* The PUT requests of the tab.
SaveFns == [Saves -> Save \cup {Free}]

\* Requests stay requests when their component is unmounted, when nobody waits
\* for them, and when the row they were based on changes.
LEMMA UnboxedType ==
  ASSUME NEW f \in SaveFns
  PROVE  /\ Unboxed(f) \in SaveFns
         /\ \A s \in Saves : /\ Unboxed(f)[s] = Free <=> f[s] = Free
                             /\ f[s] # Free => Unboxed(f)[s] = [f[s] EXCEPT !.box = FALSE]
  BY FreeAssumption DEF Unboxed, SaveFns, Save

LEMMA ForsakenType ==
  ASSUME NEW q \in Save \cup {Free}
  PROVE  /\ Forsaken(q) \in Save \cup {Free}
         /\ Forsaken(q) # Free =>
               /\ q # Free /\ ~q.stored
               /\ Forsaken(q) = [q EXCEPT !.view = FALSE, !.box = FALSE]
  BY FreeAssumption DEF Forsaken, Save

LEMMA OutdatedType ==
  ASSUME TypeOK, NEW S \in SUBSET Reports
  PROVE  /\ Outdated(S) \in SaveFns
         /\ \A s \in Saves :
               /\ Outdated(S)[s] = Free <=> save[s] = Free
               /\ save[s] # Free /\ save[s].report \in S
                     => Outdated(S)[s] = [save[s] EXCEPT !.fresh = FALSE]
               /\ save[s] = Free \/ save[s].report \notin S
                     => Outdated(S)[s] = save[s]
  BY FreeAssumption DEF Outdated, SaveFns, Save, TypeOK

\* What a page renders.
LEMMA RenderType ==
  ASSUME TypeOK, NEW d \in Detail \cup {NoDetail}, NEW l \in BOOLEAN,
         NEW n \in Notes \cup {Closed}, NEW f \in SaveFns, Render(d, l, n, f)
  PROVE  /\ detail' \in Detail \cup {NoDetail}
         /\ loading' \in BOOLEAN
         /\ draft' \in Notes \cup {Closed}
         /\ draft' # Closed => Boxed'
         /\ save' \in SaveFns
  BY UnboxedType DEF Render

LEMMA BoxedDetail ==
  ASSUME TypeOK, Boxed
  PROVE  detail \in Detail
  BY DEF TypeOK, Boxed

\* It starts right.
LEMMA InitIInv == Init => IInv
  <1> SUFFICES ASSUME Init PROVE IInv
    OBVIOUS
  <1>1. TypeOK
    BY NotesAssumption DEF Init, TypeOK, Boxed
  <1>2. MountInv
    BY DEF Init, MountInv, Underway
  <1>3. AskedOnce
    BY DEF Init, AskedOnce, Boxed
  <1>4. AgreesWithTable
    BY DEF Init, AgreesWithTable, Boxed
  <1>5. QED BY <1>1, <1>2, <1>3, <1>4 DEF IInv, NotesInv, FreshIsSeen, Init

-----------------------------------------------------------------------------
(* The types.                                                               *)

LEMMA TypeStep == TypeOK /\ [Next]_vars => TypeOK'
  <1> SUFFICES ASSUME TypeOK, [Next]_vars PROVE TypeOK'
    OBVIOUS
  <1>f. save \in SaveFns
    BY DEF TypeOK, SaveFns
  <1>1. ASSUME NEW r \in Reports, Upsert(r) PROVE TypeOK'
    BY <1>1, NotesAssumption DEF Upsert, TypeOK, view, Boxed
  <1>2. ASSUME NEW S \in SUBSET Reports, Remove(S) PROVE TypeOK'
    <2>1. save' \in SaveFns
      BY <1>2, OutdatedType DEF Remove
    <2>2. QED BY <1>2, <2>1 DEF Remove, TypeOK, view, Boxed, SaveFns
  <1>3. ASSUME NEW r \in Reports, OthersSave(r) PROVE TypeOK'
    <2>1. save' \in SaveFns
      BY <1>3, OutdatedType DEF OthersSave
    <2>2. QED BY <1>3, <2>1 DEF OthersSave, TypeOK, view, Boxed, SaveFns
  <1>4. ASSUME NEW r \in Reports, Open(r) PROVE TypeOK'
    <2>1. PICK l \in Loads : load' = [load EXCEPT ![l] = [report |-> r, answer |-> Pending]]
      BY <1>4 DEF Open
    <2>2. load' \in [Loads -> Load \cup {Free}]
      BY <2>1 DEF TypeOK, Load
    <2>3. Render(detail, TRUE, draft, save) /\ page' = r /\ overlapped' = Underway /\ UNCHANGED store
      BY <1>4 DEF Open
    <2>4. /\ detail' \in Detail \cup {NoDetail} /\ loading' \in BOOLEAN
          /\ draft' \in Notes \cup {Closed} /\ save' \in SaveFns
          /\ draft' # Closed => Boxed'
      BY <2>3, <1>f, RenderType DEF TypeOK
    <2>5. Underway \in BOOLEAN
      BY DEF Underway
    <2>6. QED BY <2>2, <2>3, <2>4, <2>5 DEF TypeOK, store, SaveFns
  <1>5. ASSUME Leave PROVE TypeOK'
    <2>1. save' \in SaveFns
      BY <1>5, <1>f, ForsakenType DEF Leave, SaveFns
    <2>2. QED BY <1>5, <2>1 DEF Leave, TypeOK, store, SaveFns
  <1>6. ASSUME NEW l \in Loads, ServeLoad(l) PROVE TypeOK'
    <2>1. load[l] \in Load /\ row[load[l].report] \in Notes \cup {NoRow}
      BY <1>6 DEF ServeLoad, TypeOK, Load
    <2>2. load' \in [Loads -> Load \cup {Free}]
      BY <1>6, <2>1 DEF ServeLoad, TypeOK, Load
    <2>3. QED BY <1>6, <2>2 DEF ServeLoad, TypeOK, view, Boxed
  <1>7. ASSUME NEW l \in Loads, LoadFails(l) PROVE TypeOK'
    <2>1. load' \in [Loads -> Load \cup {Free}]
      BY <1>7 DEF LoadFails, TypeOK, Load
    <2>2. QED BY <1>7, <2>1 DEF LoadFails, TypeOK, view, store, Boxed
  <1>8. ASSUME NEW l \in Loads, ApplyLoad(l) PROVE TypeOK'
    <2> DEFINE d == IF load[l].answer = NoRow THEN NoDetail
                    ELSE [report |-> load[l].report, notes |-> load[l].answer]
    <2>1. d \in Detail \cup {NoDetail}
      BY <1>8 DEF ApplyLoad, TypeOK, Load, Detail
    <2>2. Render(d, FALSE, draft, save)
      BY <1>8 DEF ApplyLoad
    <2>3. /\ detail' \in Detail \cup {NoDetail} /\ loading' \in BOOLEAN
          /\ draft' \in Notes \cup {Closed} /\ save' \in SaveFns
          /\ draft' # Closed => Boxed'
      <3> HIDE DEF d
      <3> QED BY <2>1, <2>2, <1>f, RenderType DEF TypeOK
    <2>4. QED BY <1>8, <2>3 DEF ApplyLoad, TypeOK, store, SaveFns
  <1>9. ASSUME Edit PROVE TypeOK'
    BY <1>9, BoxedDetail DEF Edit, TypeOK, store, Boxed, Detail
  <1>10. ASSUME Type PROVE TypeOK'
    BY <1>10 DEF Type, TypeOK, store, Boxed
  <1>11. ASSUME Cancel PROVE TypeOK'
    BY <1>11 DEF Cancel, TypeOK, store, Boxed
  <1>12. ASSUME PressSave PROVE TypeOK'
    <2>1. detail \in Detail /\ draft \in Notes
      BY <1>12, BoxedDetail DEF PressSave, TypeOK
    <2>2. save' \in SaveFns
      BY <1>12, <2>1, <1>f DEF PressSave, SaveFns, Save, Detail, TypeOK
    <2>3. QED BY <1>12, <2>2 DEF PressSave, TypeOK, store, view, Boxed, SaveFns
  <1>13. ASSUME NEW s \in Saves, ServeSave(s) PROVE TypeOK'
    <2>1. save[s] \in Save
      BY <1>13 DEF ServeSave, TypeOK
    <2>2. Outdated({save[s].report}) \in SaveFns
      BY <2>1, OutdatedType DEF Save
    <2>3. save' \in SaveFns
      BY <1>13, <2>1, <2>2 DEF ServeSave, SaveFns, Save
    <2>4. row' \in [Reports -> Notes \cup {NoRow}]
      BY <1>13, <2>1 DEF ServeSave, TypeOK, Save
    <2>5. QED BY <1>13, <2>1, <2>3, <2>4 DEF ServeSave, TypeOK, view, Boxed, SaveFns, Save
  <1>14. ASSUME NEW s \in Saves, SaveRefused(s) PROVE TypeOK'
    BY <1>14 DEF SaveRefused, TypeOK, store, view, Boxed
  <1>15. ASSUME NEW s \in Saves, LoseSave(s) PROVE TypeOK'
    <2>1. save' \in SaveFns
      BY <1>15, <1>f, ForsakenType DEF LoseSave, SaveFns
    <2>2. save[s].stored \in BOOLEAN
      BY <1>15 DEF LoseSave, TypeOK, Save
    <2>3. QED BY <1>15, <2>1, <2>2 DEF LoseSave, TypeOK, view, Boxed, SaveFns
  <1>16. ASSUME NEW s \in Saves, SaveSucceeds(s) PROVE TypeOK'
    <2> DEFINE d == [report |-> save[s].report, notes |-> save[s].notes]
               n == IF save[s].box THEN Closed ELSE draft
               f == [save EXCEPT ![s] = Free]
    <2>1. d \in Detail \cup {NoDetail} /\ n \in Notes \cup {Closed} /\ f \in SaveFns
      BY <1>16 DEF SaveSucceeds, TypeOK, Save, Detail, SaveFns
    <2>2. Render(d, loading, n, f)
      BY <1>16 DEF SaveSucceeds
    <2>3. /\ detail' \in Detail \cup {NoDetail} /\ loading' \in BOOLEAN
          /\ draft' \in Notes \cup {Closed} /\ save' \in SaveFns
          /\ draft' # Closed => Boxed'
      <3> HIDE DEF d, n, f
      <3> QED BY <2>1, <2>2, RenderType DEF TypeOK
    <2>4. QED BY <1>16, <2>3 DEF SaveSucceeds, TypeOK, store, SaveFns
  <1>17. CASE UNCHANGED vars
    BY <1>17 DEF vars, store, view, TypeOK, Boxed
  <1>18. QED
    BY <1>1, <1>2, <1>3, <1>4, <1>5, <1>6, <1>7, <1>8, <1>9, <1>10, <1>11, <1>12,
       <1>13, <1>14, <1>15, <1>16, <1>17
       DEF Next, Others, Viewing, Editing, DeleteReport, DeleteByCluster

\* The page, its requests and the rows keep their types.
THEOREM NotesTypeCorrect == Spec => []TypeOK
  <1>1. Init => TypeOK
    BY InitIInv DEF IInv
  <1>2. QED BY <1>1, TypeStep, PTL DEF Spec

-----------------------------------------------------------------------------
(* What is mounted, and what it waits for.                                  *)

LEMMA SaveFields ==
  ASSUME TypeOK, NEW s \in Saves, save[s] # Free
  PROVE  /\ save[s] \in Save
         /\ save[s].report \in Reports /\ save[s].seen \in Notes /\ save[s].notes \in Notes
         /\ save[s].stored \in BOOLEAN /\ save[s].view \in BOOLEAN
         /\ save[s].box \in BOOLEAN /\ save[s].fresh \in BOOLEAN
  BY DEF TypeOK, Save

\* A step after which the page shows the same, asks for nothing new and waits
\* for no more than before.
LEMMA MountStep ==
  ASSUME IInv,
         UNCHANGED <<page, detail, loading, overlapped>>,
         \A l \in Loads : load'[l] # Free =>
            load[l] # Free /\ load'[l].report = load[l].report,
         \A s \in Saves : save'[s] # Free =>
            /\ save[s] # Free /\ save'[s].report = save[s].report
            /\ save'[s].stored => save'[s].view
            /\ save'[s].view => save[s].view /\ (save[s].box => save'[s].box)
            /\ save'[s].box => save[s].box /\ save'[s].view
  PROVE  MountInv' /\ (~overlapped' => AskedOnce')
  <1>1. Boxed' = Boxed
    BY DEF Boxed
  <1>2. MountInv'
    <2>1. ASSUME page' = List PROVE detail' = NoDetail /\ loading' /\ ~Underway'
      BY <2>1 DEF IInv, NotesInv, MountInv, Underway
    <2>2. ASSUME NEW s \in Saves, save'[s] # Free
          PROVE  /\ save'[s].stored => save'[s].view
                 /\ save'[s].box => save'[s].view /\ Boxed'
      BY <1>1, <2>2 DEF IInv, NotesInv, MountInv
    <2>3. QED BY <2>1, <2>2 DEF MountInv
  <1>3. ASSUME ~overlapped' PROVE AskedOnce'
    <2>1. AskedOnce
      BY <1>3 DEF IInv, NotesInv
    <2>2. Boxed' => detail'.report = page'
      BY <1>1, <2>1 DEF AskedOnce
    <2>3. ASSUME NEW l \in Loads, load'[l] # Free
          PROVE  /\ loading' /\ load'[l].report = page'
                 /\ \A m \in Loads : load'[m] # Free => m = l
      BY <2>1, <2>3 DEF AskedOnce
    <2>4. ASSUME NEW s \in Saves, save'[s] # Free, save'[s].view
          PROVE  /\ save'[s].box /\ save'[s].report = page'
                 /\ \A u \in Saves : save'[u] # Free /\ save'[u].view => u = s
      BY <2>1, <2>4 DEF AskedOnce
    <2>5. QED BY <2>2, <2>3, <2>4 DEF AskedOnce
  <1>4. QED BY <1>2, <1>3

-----------------------------------------------------------------------------
(* The table and the page.                                                  *)

\* While the page is a report's, its row is in the table of rows.
LEMMA OwnRow ==
  ASSUME IInv, page \in Reports
  PROVE  row[page] \in Notes \cup {NoRow}
  BY DEF IInv, TypeOK

\* Rows of S change for somebody else; those outside S keep their notes.
LEMMA RowStep ==
  ASSUME IInv, NEW S \in SUBSET Reports,
         UNCHANGED <<view, load>>,
         stale' = (stale \/ page \in S),
         \A r \in Reports \ S : row[r] # NoRow => row'[r] = row[r],
         \A s \in Saves : save'[s] # Free =>
            /\ save[s] # Free
            /\ save'[s].report = save[s].report /\ save'[s].seen = save[s].seen
            /\ save'[s].notes = save[s].notes /\ save'[s].stored = save[s].stored
            /\ save'[s].view = save[s].view /\ save'[s].box = save[s].box
            /\ save'[s].fresh => save[s].fresh /\ save[s].report \notin S,
         \A s \in Saves : save[s] # Free => save'[s] # Free
  PROVE  NotesInv'
  <1>1. MountInv' /\ (~overlapped' => AskedOnce')
    <2>1. \A s \in Saves : save[s] # Free /\ save[s].stored => save[s].view
      BY DEF IInv, NotesInv, MountInv
    <2>2. \A s \in Saves : save[s] # Free /\ save[s].box => save[s].view
      BY DEF IInv, NotesInv, MountInv
    <2>3. QED BY <2>1, <2>2, MountStep DEF view
  <1>2. ASSUME ~overlapped', ~stale' PROVE AgreesWithTable'
    <2>1. AskedOnce /\ AgreesWithTable /\ page \notin S
      BY <1>2 DEF IInv, NotesInv, view
    <2>2. Boxed' = Boxed /\ page' = page /\ detail' = detail /\ load' = load
      BY DEF Boxed, view
    <2>3. ASSUME page \in Reports, row[page] \in Notes PROVE row'[page] = row[page]
      BY <2>1, <2>3, NotesAssumption
    <2>4. ASSUME NEW l \in Loads, load'[l] # Free, load'[l].answer \in Notes
          PROVE  row'[page'] = load'[l].answer
      <3>1. load[l] \in Load /\ load[l].report = page /\ row[page] = load[l].answer
        BY <2>1, <2>2, <2>4 DEF AskedOnce, AgreesWithTable, IInv, TypeOK
      <3>2. page \in Reports
        BY <3>1 DEF Load
      <3>3. QED BY <2>2, <2>3, <2>4, <3>1, <3>2
    <2>5. ASSUME NEW s \in Saves, save'[s] # Free, save'[s].stored
          PROVE  row'[page'] = save'[s].notes
      <3>1. save[s] # Free /\ save[s].stored /\ save[s].view /\ save'[s].notes = save[s].notes
        BY <2>5 DEF IInv, NotesInv, MountInv
      <3>2. save[s].report = page /\ row[page] = save[s].notes
        BY <2>1, <3>1 DEF AskedOnce, AgreesWithTable
      <3>3. page \in Reports /\ row[page] \in Notes
        BY <3>1, <3>2, SaveFields DEF IInv
      <3>4. QED BY <2>2, <2>3, <3>1, <3>2, <3>3
    <2>6. ASSUME Boxed', \A s \in Saves : save'[s] # Free => ~save'[s].stored
          PROVE  row'[page'] = detail'.notes
      <3>1. detail \in Detail /\ detail.report = page
        BY <2>1, <2>2, <2>6, BoxedDetail DEF AskedOnce, IInv
      <3>2. \A s \in Saves : save[s] # Free => ~save[s].stored
        BY <2>6
      <3>3. row[page] = detail.notes
        BY <2>1, <2>2, <2>6, <3>2 DEF AgreesWithTable
      <3>4. QED BY <2>2, <2>3, <3>1, <3>3 DEF Detail
    <2>7. QED BY <2>4, <2>5, <2>6 DEF AgreesWithTable
  <1>3. FreshIsSeen'
    <2> SUFFICES ASSUME NEW s \in Saves, save'[s] # Free, save'[s].fresh, ~save'[s].stored
                 PROVE  row'[save'[s].report] = save'[s].seen
      BY DEF FreshIsSeen
    <2>1. /\ save[s] # Free /\ save[s].fresh /\ ~save[s].stored /\ save[s].report \notin S
          /\ save'[s].report = save[s].report /\ save'[s].seen = save[s].seen
      OBVIOUS
    <2>2. row[save[s].report] = save[s].seen
      BY <2>1 DEF IInv, NotesInv, FreshIsSeen
    <2>3. save[s].report \in Reports /\ save[s].seen # NoRow
      BY <2>1, SaveFields, NotesAssumption DEF IInv
    <2>4. QED BY <2>1, <2>2, <2>3
  <1>4. QED BY <1>1, <1>2, <1>3 DEF NotesInv

LEMMA OthersStep == IInv /\ Others => NotesInv'
  <1> SUFFICES ASSUME IInv, Others PROVE NotesInv'
    OBVIOUS
  <1>t. TypeOK
    BY DEF IInv
  <1>1. ASSUME NEW r \in Reports, Upsert(r) PROVE NotesInv'
    <2>1. \A q \in Reports \ {} : row[q] # NoRow => row'[q] = row[q]
      BY <1>1, <1>t DEF Upsert, TypeOK
    <2>2. save' = save /\ stale' = (stale \/ page \in {}) /\ UNCHANGED <<view, load>>
      BY <1>1, <1>t DEF Upsert, TypeOK
    <2>3. \A s \in Saves : save'[s].fresh => save[s].fresh /\ save[s].report \notin {}
      BY <2>2
    <2>4. {} \in SUBSET Reports
      OBVIOUS
    <2>5. QED BY <2>1, <2>2, <2>3, <2>4, RowStep
  <1>2. ASSUME NEW S \in SUBSET Reports,
               save' = Outdated(S), stale' = (stale \/ page \in S), UNCHANGED <<view, load>>,
               \A q \in Reports \ S : row'[q] = row[q]
        PROVE  NotesInv'
    <2>1. ASSUME NEW s \in Saves
          PROVE /\ save'[s] # Free =>
                    /\ save[s] # Free
                    /\ save'[s].report = save[s].report /\ save'[s].seen = save[s].seen
                    /\ save'[s].notes = save[s].notes /\ save'[s].stored = save[s].stored
                    /\ save'[s].view = save[s].view /\ save'[s].box = save[s].box
                    /\ save'[s].fresh => save[s].fresh /\ save[s].report \notin S
                /\ save[s] # Free => save'[s] # Free
      BY <1>2, <1>t, <2>1, OutdatedType, SaveFields DEF Save
    <2>2. QED BY <1>2, <2>1, RowStep
  <1>3. ASSUME NEW S \in SUBSET Reports, Remove(S) PROVE NotesInv'
    BY <1>2, <1>3 DEF Remove
  <1>4. ASSUME NEW r \in Reports, OthersSave(r) PROVE NotesInv'
    <2>1. \A q \in Reports \ {r} : row'[q] = row[q]
      BY <1>4, <1>t DEF OthersSave, TypeOK
    <2>2. stale' = (stale \/ page \in {r}) /\ save' = Outdated({r}) /\ UNCHANGED <<view, load>>
      BY <1>4 DEF OthersSave
    <2>3. QED BY <1>2, <2>1, <2>2
  <1>5. QED BY <1>1, <1>3, <1>4 DEF Others, DeleteReport, DeleteByCluster

\* A step that leaves the rows and what each save is based on.
LEMMA FreshKept ==
  ASSUME IInv, UNCHANGED row,
         \A s \in Saves : save'[s] # Free /\ save'[s].fresh /\ ~save'[s].stored =>
            /\ save[s] # Free /\ save[s].fresh /\ ~save[s].stored
            /\ save'[s].report = save[s].report /\ save'[s].seen = save[s].seen
  PROVE  FreshIsSeen'
  BY DEF IInv, NotesInv, FreshIsSeen

\* What DetailView does to the saves when it renders.
LEMMA RenderSaves ==
  ASSUME TypeOK, NEW d, NEW l, NEW n, NEW f \in SaveFns, Render(d, l, n, f)
  PROVE  \A s \in Saves :
            /\ save'[s] = Free <=> f[s] = Free
            /\ f[s] # Free =>
                  /\ save'[s].report = f[s].report /\ save'[s].seen = f[s].seen
                  /\ save'[s].stored = f[s].stored /\ save'[s].view = f[s].view
                  /\ save'[s].notes = f[s].notes /\ save'[s].fresh = f[s].fresh
                  /\ save'[s].box => f[s].box /\ Boxed /\ Boxed'
  <1> SUFFICES ASSUME NEW s \in Saves
               PROVE  /\ save'[s] = Free <=> f[s] = Free
                      /\ f[s] # Free =>
                            /\ save'[s].report = f[s].report /\ save'[s].seen = f[s].seen
                            /\ save'[s].stored = f[s].stored /\ save'[s].view = f[s].view
                            /\ save'[s].notes = f[s].notes /\ save'[s].fresh = f[s].fresh
                            /\ save'[s].box => f[s].box /\ Boxed /\ Boxed'
    OBVIOUS
  <1>1. CASE Boxed /\ Boxed'
    <2>1. save' = f
      BY <1>1 DEF Render
    <2>2. QED BY <1>1, <2>1
  <1>2. CASE ~(Boxed /\ Boxed')
    <2>1. save' = Unboxed(f)
      BY <1>2 DEF Render
    <2>2. /\ save'[s] = Free <=> f[s] = Free
          /\ f[s] # Free => save'[s] = [f[s] EXCEPT !.box = FALSE]
      BY <2>1, UnboxedType
    <2>3. f[s] # Free => f[s] \in Save
      BY DEF SaveFns
    <2>4. ASSUME f[s] # Free
          PROVE  /\ save'[s].report = f[s].report /\ save'[s].seen = f[s].seen
                 /\ save'[s].stored = f[s].stored /\ save'[s].view = f[s].view
                 /\ save'[s].notes = f[s].notes /\ save'[s].fresh = f[s].fresh
                 /\ ~save'[s].box
      <3> DEFINE q == f[s]
      <3>1. q \in Save /\ save'[s] = [q EXCEPT !.box = FALSE]
        BY <2>2, <2>3, <2>4
      <3> HIDE DEF q
      <3>2. /\ save'[s].report = q.report /\ save'[s].seen = q.seen
            /\ save'[s].stored = q.stored /\ save'[s].view = q.view
            /\ save'[s].notes = q.notes /\ save'[s].fresh = q.fresh
            /\ ~save'[s].box
        BY <3>1 DEF Save
      <3>3. QED BY <3>2 DEF q
    <2>5. QED BY <2>2, <2>4
  <1>3. QED BY <1>1, <1>2

-----------------------------------------------------------------------------
(* The page and its GET requests.                                           *)

LEMMA OpenStep ==
  ASSUME IInv, NEW r \in Reports, Open(r)
  PROVE  NotesInv'
  <1>t. TypeOK /\ save \in SaveFns
    BY DEF IInv, TypeOK, SaveFns
  <1>1. PICK l \in Loads :
           /\ load[l] = Free
           /\ load' = [load EXCEPT ![l] = [report |-> r, answer |-> Pending]]
    BY DEF Open
  <1>2. page' = r /\ Render(detail, TRUE, draft, save) /\ overlapped' = Underway /\ UNCHANGED store
    BY DEF Open
  <1>3. loading' /\ ~Boxed'
    BY <1>2 DEF Render, Boxed
  <1>4. \A s \in Saves :
           /\ save'[s] = Free <=> save[s] = Free
           /\ save[s] # Free =>
                 /\ save'[s].report = save[s].report /\ save'[s].seen = save[s].seen
                 /\ save'[s].stored = save[s].stored /\ save'[s].view = save[s].view
                 /\ save'[s].notes = save[s].notes /\ save'[s].fresh = save[s].fresh
                 /\ save'[s].box => save[s].box /\ Boxed /\ Boxed'
    BY <1>t, <1>2, RenderSaves
  <1>5. \A s \in Saves : save[s] # Free /\ save[s].stored => save[s].view
    BY DEF IInv, NotesInv, MountInv
  <1>6. MountInv'
    <2>1. page' # List
      BY <1>2, NotesAssumption
    <2>2. QED BY <1>3, <1>4, <1>5, <2>1 DEF MountInv
  <1>7. ASSUME ~overlapped' PROVE AskedOnce' /\ AgreesWithTable'
    <2>1. /\ \A m \in Loads : load[m] = Free
          /\ \A s \in Saves : save[s] # Free => ~save[s].view
      BY <1>2, <1>7 DEF Underway
    <2>2. \A m \in Loads : load'[m] # Free =>
             m = l /\ load'[m].report = r /\ load'[m].answer = Pending
      BY <1>1, <1>t, <2>1 DEF TypeOK
    <2>3. \A s \in Saves : save'[s] # Free => ~save'[s].view /\ ~save'[s].stored
      BY <1>4, <1>5, <2>1
    <2>4. QED BY <1>2, <1>3, <2>2, <2>3, NotesAssumption DEF AskedOnce, AgreesWithTable
  <1>8. FreshIsSeen'
    BY <1>2, <1>4, FreshKept DEF store
  <1>9. QED BY <1>6, <1>7, <1>8 DEF NotesInv

LEMMA LeaveStep ==
  ASSUME IInv, Leave
  PROVE  NotesInv'
  <1>t. TypeOK /\ save \in SaveFns
    BY DEF IInv, TypeOK, SaveFns
  <1>1. ASSUME NEW s \in Saves, save'[s] # Free
        PROVE  /\ save[s] # Free /\ ~save[s].stored /\ ~save'[s].stored
               /\ ~save'[s].view /\ ~save'[s].box
               /\ save'[s].report = save[s].report /\ save'[s].seen = save[s].seen
               /\ save'[s].fresh = save[s].fresh
    <2>1. save[s] \in Save \cup {Free} /\ save'[s] = Forsaken(save[s])
      BY <1>t DEF Leave, SaveFns
    <2>2. /\ save[s] \in Save /\ ~save[s].stored
          /\ save'[s] = [save[s] EXCEPT !.view = FALSE, !.box = FALSE]
      BY <1>1, <2>1, ForsakenType
    <2>3. QED BY <2>2, FreeAssumption DEF Save
  <1>2. ~Boxed' /\ \A l \in Loads : load'[l] = Free
    BY DEF Leave, Boxed
  <1>3. MountInv'
    BY <1>1, <1>2 DEF Leave, MountInv, Underway
  <1>4. AskedOnce' /\ AgreesWithTable'
    BY <1>1, <1>2 DEF AskedOnce, AgreesWithTable
  <1>5. FreshIsSeen'
    BY <1>1, FreshKept DEF Leave, store
  <1>6. QED BY <1>3, <1>4, <1>5 DEF NotesInv

LEMMA ServeLoadStep ==
  ASSUME IInv, NEW l \in Loads, ServeLoad(l)
  PROVE  NotesInv'
  <1>t. TypeOK
    BY DEF IInv
  <1>1. \A m \in Loads : /\ load'[m] # Free => load[m] # Free /\ load'[m].report = load[m].report
                         /\ m # l => load'[m] = load[m]
    BY <1>t DEF ServeLoad, TypeOK, Load
  <1>2. load'[l].answer = row[load[l].report]
    BY <1>t DEF ServeLoad, TypeOK, Load
  <1>3. UNCHANGED <<row, page, detail, loading, overlapped, save>> /\ Boxed' = Boxed
    BY DEF ServeLoad, view, Boxed
  <1>4. MountInv' /\ (~overlapped' => AskedOnce')
    <2>1. \A s \in Saves : save[s] # Free =>
             /\ save[s].stored => save[s].view
             /\ save[s].box => save[s].view
      BY DEF IInv, NotesInv, MountInv
    <2>2. QED BY <1>1, <1>3, <2>1, MountStep
  <1>5. ASSUME ~overlapped' PROVE AgreesWithTable'
    <2>1. AskedOnce /\ MountInv
      BY <1>3, <1>5 DEF IInv, NotesInv
    <2>2. loading /\ load[l].report = page /\ \A m \in Loads : load[m] # Free => m = l
      BY <2>1 DEF AskedOnce, ServeLoad
    <2>3. ~Boxed
      BY <2>2 DEF Boxed
    <2>4. \A s \in Saves : save[s] # Free => ~save[s].stored
      BY <2>1, <2>3 DEF AskedOnce, MountInv
    <2>5. QED BY <1>1, <1>2, <1>3, <2>2, <2>3, <2>4 DEF AgreesWithTable
  <1>6. FreshIsSeen'
    BY <1>3, FreshKept
  <1>7. QED BY <1>4, <1>5, <1>6 DEF NotesInv

LEMMA LoadFailsStep ==
  ASSUME IInv, NEW l \in Loads, LoadFails(l)
  PROVE  NotesInv'
  <1>t. TypeOK
    BY DEF IInv
  <1>1. \A m \in Loads : /\ load'[m] # Free => load[m] # Free /\ load'[m].report = load[m].report
                         /\ m # l => load'[m] = load[m]
    BY <1>t DEF LoadFails, TypeOK, Load
  <1>2. load'[l].answer \notin Notes
    BY <1>t, NotesAssumption DEF LoadFails, TypeOK, Load
  <1>3. UNCHANGED <<row, page, detail, loading, overlapped, save, stale>> /\ Boxed' = Boxed
    BY DEF LoadFails, store, view, Boxed
  <1>4. MountInv' /\ (~overlapped' => AskedOnce')
    <2>1. \A s \in Saves : save[s] # Free =>
             /\ save[s].stored => save[s].view
             /\ save[s].box => save[s].view
      BY DEF IInv, NotesInv, MountInv
    <2>2. QED BY <1>1, <1>3, <2>1, MountStep
  <1>5. ASSUME ~overlapped', ~stale' PROVE AgreesWithTable'
    <2>1. AgreesWithTable
      BY <1>3, <1>5 DEF IInv, NotesInv
    <2>2. QED BY <1>1, <1>2, <1>3, <2>1 DEF AgreesWithTable
  <1>6. FreshIsSeen'
    BY <1>3, FreshKept
  <1>7. QED BY <1>4, <1>5, <1>6 DEF NotesInv

LEMMA ApplyLoadStep ==
  ASSUME IInv, NEW l \in Loads, ApplyLoad(l)
  PROVE  NotesInv'
  <1> DEFINE a == load[l].answer
             d == IF a = NoRow THEN NoDetail ELSE [report |-> load[l].report, notes |-> a]
  <1>t. TypeOK /\ MountInv /\ save \in SaveFns /\ load[l] \in Load
    BY DEF IInv, NotesInv, TypeOK, SaveFns, ApplyLoad
  <1>1. Render(d, FALSE, draft, save) /\ UNCHANGED <<row, stale, page, overlapped>>
    BY DEF ApplyLoad, store
  <1>2. \A m \in Loads : load'[m] # Free => load[m] # Free /\ m # l
    BY <1>t DEF ApplyLoad, TypeOK
  <1>3. \A s \in Saves :
           /\ save'[s] = Free <=> save[s] = Free
           /\ save[s] # Free =>
                 /\ save'[s].report = save[s].report /\ save'[s].seen = save[s].seen
                 /\ save'[s].stored = save[s].stored /\ save'[s].view = save[s].view
                 /\ save'[s].notes = save[s].notes /\ save'[s].fresh = save[s].fresh
                 /\ save'[s].box => save[s].box /\ Boxed /\ Boxed'
    <2> HIDE DEF d
    <2> QED BY <1>t, <1>1, RenderSaves
  <1>4. MountInv'
    <2>1. page' # List
      BY <1>t, <1>1 DEF MountInv, Underway, ApplyLoad
    <2>2. QED BY <1>t, <1>3, <2>1 DEF MountInv
  <1>5. ASSUME ~overlapped' PROVE AskedOnce' /\ (~stale' => AgreesWithTable')
    <2>1. AskedOnce
      BY <1>1, <1>5 DEF IInv, NotesInv
    <2>2. loading /\ load[l].report = page /\ \A m \in Loads : load'[m] = Free
      BY <1>2, <2>1 DEF AskedOnce, ApplyLoad
    <2>3. \A s \in Saves : save'[s] # Free => ~save'[s].view /\ ~save'[s].stored
      BY <1>t, <1>3, <2>1, <2>2 DEF AskedOnce, MountInv, Boxed
    <2>4. ASSUME Boxed'
          PROVE  a \in Notes /\ detail' = [report |-> page, notes |-> a]
      <3>1. detail' = d /\ detail' # NoDetail
        BY <1>1, <2>4 DEF Render, Boxed
      <3>2. a # NoRow
        BY <3>1
      <3>3. a \in Notes
        BY <1>t, <3>2 DEF ApplyLoad, Load
      <3>4. QED BY <2>2, <3>1, <3>2, <3>3
    <2>5. AskedOnce'
      BY <1>1, <2>2, <2>3, <2>4 DEF AskedOnce
    <2>6. ASSUME ~stale' PROVE AgreesWithTable'
      <3>1. a \in Notes => row[page] = a
        BY <1>1, <1>5, <2>6 DEF IInv, NotesInv, AgreesWithTable, ApplyLoad
      <3>2. QED BY <1>1, <2>2, <2>3, <2>4, <3>1 DEF AgreesWithTable
    <2>7. QED BY <2>5, <2>6
  <1>6. FreshIsSeen'
    BY <1>1, <1>3, FreshKept
  <1>7. QED BY <1>4, <1>5, <1>6 DEF NotesInv

-----------------------------------------------------------------------------
(* The notes and their PUT requests.                                        *)

\* A step that is only seen in the editor.
LEMMA EditorStep ==
  ASSUME IInv, UNCHANGED <<row, stale, page, detail, loading, overlapped, load, save>>
  PROVE  NotesInv'
  BY DEF IInv, NotesInv, MountInv, AskedOnce, AgreesWithTable, FreshIsSeen, Boxed, Underway

LEMMA PressSaveStep ==
  ASSUME IInv, PressSave
  PROVE  NotesInv'
  <1>t. TypeOK /\ MountInv /\ detail \in Detail
    BY BoxedDetail DEF IInv, NotesInv, PressSave
  <1> DEFINE q == [report |-> detail.report, seen |-> detail.notes, notes |-> draft,
                   stored |-> FALSE, view |-> TRUE, box |-> TRUE,
                   fresh |-> ~stale /\ ~overlapped]
  <1>1. PICK s \in Saves : save[s] = Free /\ save' = [save EXCEPT ![s] = q]
    BY DEF PressSave
  <1>2. save'[s] = q /\ \A u \in Saves \ {s} : save'[u] = save[u]
    BY <1>1, <1>t DEF TypeOK
  <1>3. /\ UNCHANGED <<row, stale, page, detail, loading, overlapped, load>>
        /\ Boxed /\ Boxed' /\ ~loading /\ ~Saving
    BY DEF PressSave, store, view, Boxed
  <1>4. MountInv'
    <2>1. page' # List
      BY <1>t, <1>3 DEF MountInv
    <2>2. QED BY <1>t, <1>2, <1>3, <2>1 DEF MountInv
  <1>5. ASSUME ~overlapped
        PROVE  /\ \A l \in Loads : load[l] = Free
               /\ \A u \in Saves : save[u] # Free => ~save[u].view /\ ~save[u].stored
               /\ detail.report = page
    BY <1>t, <1>3, <1>5 DEF IInv, NotesInv, AskedOnce, MountInv, Saving
  <1>6. ASSUME ~overlapped' PROVE AskedOnce'
    <2>1. \A u \in Saves : save'[u] # Free /\ save'[u].view => u = s
      BY <1>2, <1>3, <1>5, <1>6
    <2>2. QED BY <1>2, <1>3, <1>5, <1>6, <2>1 DEF AskedOnce
  <1>7. ASSUME ~overlapped, ~stale PROVE row[page] = detail.notes
    BY <1>3, <1>5, <1>7 DEF IInv, NotesInv, AgreesWithTable
  <1>8. ASSUME ~overlapped', ~stale' PROVE AgreesWithTable'
    <2>1. \A u \in Saves : save'[u] # Free => ~save'[u].stored
      BY <1>2, <1>3, <1>5, <1>8
    <2>2. QED BY <1>3, <1>5, <1>7, <1>8, <2>1 DEF AgreesWithTable
  <1>9. FreshIsSeen'
    <2>1. ASSUME q.fresh PROVE row[q.report] = q.seen
      BY <1>5, <1>7, <2>1
    <2>2. QED BY <1>2, <1>3, <2>1 DEF IInv, NotesInv, FreshIsSeen
  <1>10. QED BY <1>4, <1>6, <1>8, <1>9 DEF NotesInv

LEMMA SaveRefusedStep ==
  ASSUME IInv, NEW s \in Saves, SaveRefused(s)
  PROVE  NotesInv'
  <1>t. TypeOK /\ MountInv
    BY DEF IInv, NotesInv
  <1>1. /\ save'[s] = Free /\ ~save[s].stored
        /\ \A u \in Saves \ {s} : save'[u] = save[u]
    BY <1>t DEF SaveRefused, TypeOK
  <1>2. UNCHANGED <<row, stale, page, detail, loading, overlapped, load>> /\ Boxed' = Boxed
    BY DEF SaveRefused, store, view, Boxed
  <1>3. MountInv' /\ (~overlapped' => AskedOnce')
    <2>1. \A u \in Saves : save'[u] # Free => save[u] # Free /\ save'[u] = save[u]
      BY <1>1
    <2>2. QED BY <1>t, <1>2, <2>1, MountStep DEF MountInv
  <1>4. ASSUME ~overlapped', ~stale' PROVE AgreesWithTable'
    BY <1>1, <1>2, <1>4 DEF IInv, NotesInv, AgreesWithTable
  <1>5. FreshIsSeen'
    BY <1>1, <1>2, FreshKept
  <1>6. QED BY <1>3, <1>4, <1>5 DEF NotesInv

LEMMA LoseSaveStep ==
  ASSUME IInv, NEW s \in Saves, LoseSave(s)
  PROVE  NotesInv'
  <1>t. TypeOK /\ MountInv
    BY DEF IInv, NotesInv
  <1>1. /\ save'[s] = Forsaken(save[s])
        /\ \A u \in Saves \ {s} : save'[u] = save[u]
    BY <1>t DEF LoseSave, TypeOK
  <1>2. ASSUME save'[s] # Free
        PROVE  /\ save[s] # Free /\ ~save[s].stored /\ ~save'[s].stored
               /\ ~save'[s].view /\ ~save'[s].box
               /\ save'[s].report = save[s].report /\ save'[s].seen = save[s].seen
               /\ save'[s].fresh = save[s].fresh
    <2>1. /\ save[s] \in Save /\ ~save[s].stored
          /\ save'[s] = [save[s] EXCEPT !.view = FALSE, !.box = FALSE]
      BY <1>t, <1>1, <1>2, ForsakenType DEF TypeOK
    <2>2. QED BY <2>1, FreeAssumption DEF Save
  <1>3. /\ UNCHANGED <<row, page, detail, loading, overlapped, load>> /\ Boxed' = Boxed
        /\ stale' = (stale \/ save[s].stored) /\ save[s] # Free
    BY DEF LoseSave, view, Boxed
  <1>4. MountInv'
    <2>1. ASSUME page' = List PROVE detail' = NoDetail /\ loading' /\ ~Underway'
      <3>1. \A u \in Saves : save'[u] # Free => ~save'[u].view
        BY <1>t, <1>1, <1>2, <1>3, <2>1 DEF MountInv, Underway
      <3>2. QED BY <1>t, <1>3, <2>1, <3>1 DEF MountInv, Underway
    <2>2. QED BY <1>t, <1>1, <1>2, <1>3, <2>1 DEF MountInv
  <1>5. ASSUME ~overlapped' PROVE AskedOnce'
    BY <1>1, <1>2, <1>3, <1>5 DEF IInv, NotesInv, AskedOnce
  <1>6. ASSUME ~overlapped', ~stale' PROVE AgreesWithTable'
    <2>1. AgreesWithTable /\ ~save[s].stored
      BY <1>3, <1>6 DEF IInv, NotesInv
    <2>2. QED BY <1>1, <1>2, <1>3, <2>1 DEF AgreesWithTable
  <1>7. FreshIsSeen'
    BY <1>1, <1>2, <1>3, FreshKept
  <1>8. QED BY <1>4, <1>5, <1>6, <1>7 DEF NotesInv

LEMMA ServeSaveStep ==
  ASSUME IInv, NEW s \in Saves, ServeSave(s)
  PROVE  NotesInv'
  <1> DEFINE r == save[s].report
  <1>t. TypeOK /\ MountInv /\ save[s] \in Save /\ r \in Reports
    BY SaveFields DEF IInv, NotesInv, ServeSave
  <1>1. /\ save[s] # Free /\ ~save[s].stored /\ row[r] # NoRow
        /\ UNCHANGED <<page, detail, loading, overlapped, load>> /\ Boxed' = Boxed
        /\ row' = [row EXCEPT ![r] = save[s].notes]
        /\ stale' = (stale \/ (page = r /\ ~save[s].view))
    BY DEF ServeSave, view, Boxed
  <1>2. save'[s] = IF save[s].view THEN [save[s] EXCEPT !.stored = TRUE] ELSE Free
    <2>1. Outdated({r}) \in SaveFns
      BY <1>t, OutdatedType
    <2>2. QED BY <2>1 DEF ServeSave, SaveFns
  <1>3. ASSUME save'[s] # Free
        PROVE  /\ save[s].view /\ save'[s].stored /\ save'[s].view
               /\ save'[s].box = save[s].box /\ save'[s].report = r
               /\ save'[s].notes = save[s].notes
    BY <1>t, <1>2, <1>3 DEF Save
  <1>4. ASSUME NEW u \in Saves \ {s}, save'[u] # Free
        PROVE  /\ save[u] # Free
               /\ save'[u].report = save[u].report /\ save'[u].seen = save[u].seen
               /\ save'[u].notes = save[u].notes /\ save'[u].stored = save[u].stored
               /\ save'[u].view = save[u].view /\ save'[u].box = save[u].box
               /\ save'[u].fresh => save[u].fresh /\ save[u].report # r
    <2>1. Outdated({r}) \in SaveFns /\ save'[u] = Outdated({r})[u]
      BY <1>t, OutdatedType DEF ServeSave, SaveFns
    <2>2. save[u] # Free /\ save[u] \in Save
      BY <1>t, <1>4, <2>1, OutdatedType DEF TypeOK
    <2>3. save'[u] = IF save[u].report = r THEN [save[u] EXCEPT !.fresh = FALSE] ELSE save[u]
      BY <1>t, <2>1, <2>2, OutdatedType
    <2>4. QED BY <2>2, <2>3 DEF Save
  <1>5. MountInv' /\ (~overlapped' => AskedOnce')
    <2>1. \A u \in Saves : save'[u] # Free =>
             /\ save[u] # Free /\ save'[u].report = save[u].report
             /\ save'[u].stored => save'[u].view
             /\ save'[u].view => save[u].view /\ (save[u].box => save'[u].box)
             /\ save'[u].box => save[u].box /\ save'[u].view
      BY <1>t, <1>1, <1>3, <1>4 DEF MountInv
    <2>2. QED BY <1>1, <2>1, MountStep
  <1>6. ASSUME ~overlapped', ~stale' PROVE AgreesWithTable'
    <2>1. AskedOnce /\ AgreesWithTable
      BY <1>1, <1>6 DEF IInv, NotesInv
    <2>2. CASE save[s].view
      <3>1. Boxed /\ page = r /\ \A u \in Saves : save[u] # Free /\ save[u].view => u = s
        BY <1>t, <1>1, <2>1, <2>2 DEF AskedOnce, MountInv
      <3>2. \A l \in Loads : load[l] = Free
        BY <2>1, <3>1 DEF AskedOnce, Boxed
      <3>3. row'[page] = save[s].notes
        BY <1>t, <1>1, <3>1 DEF TypeOK
      <3>4. \A u \in Saves : save'[u] # Free /\ save'[u].stored => u = s
        BY <1>t, <1>4, <3>1 DEF MountInv
      <3>5. save'[s] # Free /\ save'[s].stored /\ save'[s].notes = save[s].notes
        <4>1. save'[s] \in Save
          BY <1>t, <1>2, <2>2 DEF Save
        <4>2. QED BY <1>3, <4>1, FreeAssumption
      <3>6. QED BY <1>1, <3>2, <3>3, <3>4, <3>5 DEF AgreesWithTable
    <2>3. CASE ~save[s].view
      <3>1. page # r /\ save'[s] = Free
        BY <1>1, <1>2, <1>6, <2>3
      <3>2. page \in Reports => row'[page] = row[page]
        BY <1>t, <1>1, <3>1 DEF TypeOK
      <3>3. ASSUME NEW l \in Loads, load'[l] # Free, load'[l].answer \in Notes
            PROVE  row'[page'] = load'[l].answer
        <4>1. load[l].report = page /\ load[l] \in Load /\ row[page] = load[l].answer
          BY <1>t, <1>1, <2>1, <3>3 DEF AskedOnce, AgreesWithTable, TypeOK
        <4>2. QED BY <1>1, <3>2, <4>1 DEF Load
      <3>4. ASSUME NEW u \in Saves, save'[u] # Free, save'[u].stored
            PROVE  row'[page'] = save'[u].notes
        <4>1. save[u] # Free /\ save[u].stored /\ save'[u].notes = save[u].notes
          BY <1>4, <3>1, <3>4
        <4>2. save[u].report = page /\ row[page] = save[u].notes
          BY <1>t, <2>1, <4>1 DEF AskedOnce, AgreesWithTable, MountInv
        <4>3. page \in Reports
          BY <1>t, <4>1, <4>2, SaveFields
        <4>4. QED BY <1>1, <3>2, <4>1, <4>2, <4>3
      <3>5. ASSUME Boxed', \A u \in Saves : save'[u] # Free => ~save'[u].stored
            PROVE  row'[page'] = detail'.notes
        <4>1. detail \in Detail /\ detail.report = page
          BY <1>t, <1>1, <2>1, <3>5, BoxedDetail DEF AskedOnce
        <4>2. ASSUME NEW u \in Saves, save[u] # Free PROVE ~save[u].stored
          <5>1. CASE u = s
            BY <1>1, <5>1
          <5>2. CASE u # s
            <6>1. Outdated({r})[u] # Free /\ save'[u] = Outdated({r})[u]
              BY <1>t, <4>2, <5>2, OutdatedType DEF ServeSave, SaveFns
            <6>2. QED BY <1>4, <3>5, <5>2, <6>1
          <5>3. QED BY <5>1, <5>2
        <4>3. row[page] = detail.notes
          BY <1>1, <2>1, <3>5, <4>2 DEF AgreesWithTable
        <4>4. QED BY <1>1, <3>2, <4>1, <4>3 DEF Detail
      <3>6. QED BY <3>3, <3>4, <3>5 DEF AgreesWithTable
    <2>4. QED BY <2>2, <2>3
  <1>7. FreshIsSeen'
    <2> SUFFICES ASSUME NEW u \in Saves, save'[u] # Free, save'[u].fresh, ~save'[u].stored
                 PROVE  row'[save'[u].report] = save'[u].seen
      BY DEF FreshIsSeen
    <2>1. u # s
      BY <1>3
    <2>2. /\ save[u] # Free /\ save[u].fresh /\ ~save[u].stored /\ save[u].report # r
          /\ save'[u].report = save[u].report /\ save'[u].seen = save[u].seen
      BY <1>4, <2>1
    <2>3. row[save[u].report] = save[u].seen
      BY <2>2 DEF IInv, NotesInv, FreshIsSeen
    <2>4. row'[save[u].report] = row[save[u].report]
      BY <1>t, <1>1, <2>2, SaveFields DEF TypeOK
    <2>5. QED BY <2>2, <2>3, <2>4
  <1>8. QED BY <1>5, <1>6, <1>7 DEF NotesInv

LEMMA SaveSucceedsStep ==
  ASSUME IInv, NEW s \in Saves, SaveSucceeds(s)
  PROVE  NotesInv'
  <1> DEFINE d == [report |-> save[s].report, notes |-> save[s].notes]
             n == IF save[s].box THEN Closed ELSE draft
             f == [save EXCEPT ![s] = Free]
  <1>t. /\ TypeOK /\ MountInv /\ save[s] \in Save /\ save[s] # Free /\ save[s].stored
        /\ save[s].view /\ f \in SaveFns /\ d \in Detail
    BY SaveFields DEF IInv, NotesInv, MountInv, SaveSucceeds, SaveFns, TypeOK, Detail
  <1>1. Render(d, loading, n, f) /\ UNCHANGED <<row, stale, page, overlapped, load>>
    BY DEF SaveSucceeds, store
  <1>2. \A u \in Saves :
           /\ save'[u] = Free <=> f[u] = Free
           /\ f[u] # Free =>
                 /\ save'[u].report = f[u].report /\ save'[u].seen = f[u].seen
                 /\ save'[u].stored = f[u].stored /\ save'[u].view = f[u].view
                 /\ save'[u].notes = f[u].notes /\ save'[u].fresh = f[u].fresh
                 /\ save'[u].box => f[u].box /\ Boxed /\ Boxed'
    <2> HIDE DEF d, n, f
    <2> QED BY <1>t, <1>1, RenderSaves
  <1>3. f[s] = Free /\ \A u \in Saves \ {s} : f[u] = save[u]
    BY <1>t DEF TypeOK
  <1>4. detail' = d /\ loading' = loading
    BY <1>1 DEF Render
  <1>5. MountInv'
    <2>1. page' # List
      BY <1>t, <1>1 DEF MountInv, Underway
    <2>2. QED BY <1>t, <1>2, <1>3, <2>1 DEF MountInv
  <1>6. ASSUME ~overlapped'
        PROVE  /\ AskedOnce /\ Boxed /\ Boxed' /\ save[s].report = page
               /\ \A l \in Loads : load[l] = Free
               /\ \A u \in Saves : save'[u] # Free => ~save'[u].view /\ ~save'[u].stored
    <2>1. AskedOnce
      BY <1>1, <1>6 DEF IInv, NotesInv
    <2>2. save[s].report = page /\ Boxed
      BY <1>t, <2>1 DEF AskedOnce, MountInv
    <2>3. Boxed'
      BY <1>t, <1>4, <2>2, FreeAssumption DEF Boxed
    <2>4. \A l \in Loads : load[l] = Free
      BY <2>1, <2>2 DEF AskedOnce, Boxed
    <2>5. \A u \in Saves : save'[u] # Free => ~save'[u].view /\ ~save'[u].stored
      BY <1>t, <1>2, <1>3, <2>1 DEF AskedOnce, MountInv
    <2>6. QED BY <2>1, <2>2, <2>3, <2>4, <2>5
  <1>7. ASSUME ~overlapped' PROVE AskedOnce'
    BY <1>1, <1>4, <1>6, <1>7 DEF AskedOnce
  <1>8. ASSUME ~overlapped', ~stale' PROVE AgreesWithTable'
    <2>1. row[page] = save[s].notes
      BY <1>t, <1>1, <1>8 DEF IInv, NotesInv, AgreesWithTable
    <2>2. QED BY <1>1, <1>4, <1>6, <1>8, <2>1 DEF AgreesWithTable
  <1>9. FreshIsSeen'
    BY <1>1, <1>2, <1>3, FreshKept
  <1>10. QED BY <1>5, <1>7, <1>8, <1>9 DEF NotesInv

-----------------------------------------------------------------------------
(* The theorems.                                                            *)

LEMMA IInvStep == IInv /\ [Next]_vars => IInv'
  <1> SUFFICES ASSUME IInv, [Next]_vars PROVE IInv'
    OBVIOUS
  <1>1. TypeOK'
    BY TypeStep DEF IInv
  <1>2. ASSUME Others PROVE NotesInv'
    BY <1>2, OthersStep
  <1>3. ASSUME Viewing PROVE NotesInv'
    BY <1>3, OpenStep, LeaveStep, ServeLoadStep, LoadFailsStep, ApplyLoadStep DEF Viewing
  <1>4. ASSUME Editing PROVE NotesInv'
    <2>1. ASSUME Edit \/ Type \/ Cancel PROVE NotesInv'
      BY <2>1, EditorStep DEF Edit, Type, Cancel, store
    <2>2. QED BY <1>4, <2>1, PressSaveStep, ServeSaveStep, SaveRefusedStep, LoseSaveStep,
                 SaveSucceedsStep DEF Editing
  <1>5. ASSUME UNCHANGED vars PROVE NotesInv'
    BY <1>5, EditorStep DEF vars, store, view
  <1>6. QED BY <1>1, <1>2, <1>3, <1>4, <1>5 DEF Next, IInv

\* The inductive invariant.
THEOREM NotesInvariant == Spec => []IInv
  <1>1. QED BY InitIInv, IInvStep, PTL DEF Spec

\* A page that has not asked again while it waited shows the content of the
\* report in its header (DetailView's effect).
THEOREM PagesShowTheirReport == Spec => []ShowsItsReport
  <1>1. IInv => ShowsItsReport
    BY DEF IInv, NotesInv, AskedOnce, ShowsItsReport
  <1>2. QED BY <1>1, NotesInvariant, PTL

\* A page that waits for nothing shows the notes that are in the table, with
\* the exceptions that ShowsStoredNotes names.
THEOREM PagesShowStoredNotes == Spec => []ShowsStoredNotes
  <1>1. IInv => ShowsStoredNotes
    <2> SUFFICES ASSUME IInv, Boxed, ~Underway, ~overlapped, ~stale
                 PROVE  row[page] = detail.notes
      BY DEF ShowsStoredNotes
    <2>1. \A s \in Saves : save[s] # Free => ~save[s].stored
      BY DEF IInv, NotesInv, MountInv, Underway
    <2>2. QED BY <2>1 DEF IInv, NotesInv, AgreesWithTable
  <1>2. QED BY <1>1, NotesInvariant, PTL

\* The scraper never writes over the notes of a row that stays.
THEOREM NotesSurviveTheScraper == Spec => NotesOutliveUpserts
  <1>1. IInv /\ [Next]_vars =>
           [\A r \in Reports :
              (row[r] # NoRow /\ row'[r] # NoRow /\ row'[r] # row[r])
                 => \/ OthersSave(r)
                    \/ \E s \in Saves : ServeSave(s) /\ save[s].report = r]_vars
    <2> SUFFICES ASSUME IInv, Next, NEW r \in Reports,
                        row[r] # NoRow, row'[r] # NoRow, row'[r] # row[r]
                 PROVE  \/ OthersSave(r)
                        \/ \E s \in Saves : ServeSave(s) /\ save[s].report = r
      OBVIOUS
    <2>t. row \in [Reports -> Notes \cup {NoRow}] /\ TypeOK
      BY DEF IInv, TypeOK
    <2>1. ASSUME Others PROVE OthersSave(r)
      <3>1. ASSUME NEW q \in Reports, Upsert(q) PROVE FALSE
        BY <2>t, <3>1 DEF Upsert
      <3>2. ASSUME NEW S \in SUBSET Reports, Remove(S) PROVE FALSE
        BY <2>t, <3>2 DEF Remove
      <3>3. ASSUME NEW q \in Reports, OthersSave(q) PROVE q = r
        BY <2>t, <3>3 DEF OthersSave
      <3>4. QED BY <2>1, <3>1, <3>2, <3>3 DEF Others, DeleteReport, DeleteByCluster
    <2>2. ASSUME Viewing PROVE FALSE
      BY <2>2 DEF Viewing, Open, Leave, ServeLoad, LoadFails, ApplyLoad, store
    <2>3. ASSUME Editing PROVE \E s \in Saves : ServeSave(s) /\ save[s].report = r
      <3>1. PICK s \in Saves : ServeSave(s)
        BY <2>3 DEF Editing, Edit, Type, Cancel, PressSave, SaveRefused, LoseSave,
                    SaveSucceeds, store
      <3>2. save[s].report = r
        BY <2>t, <3>1, SaveFields DEF ServeSave
      <3>3. QED BY <3>1, <3>2
    <2>4. QED BY <2>1, <2>2, <2>3 DEF Next
  <1>2. QED BY <1>1, NotesInvariant, PTL DEF Spec, NotesOutliveUpserts

\* A save that nobody has overtaken replaces the notes that its user has seen.
THEOREM SavesReplaceWhatWasSeen == Spec => OverwritesAreSeen
  <1>1. IInv => \A s \in Saves :
           (ServeSave(s) /\ save[s].fresh) => row[save[s].report] = save[s].seen
    BY DEF IInv, NotesInv, FreshIsSeen, ServeSave
  <1>2. IInv => [\A s \in Saves :
           (ServeSave(s) /\ save[s].fresh) => row[save[s].report] = save[s].seen]_vars
    BY <1>1
  <1>3. QED BY <1>2, NotesInvariant, PTL DEF OverwritesAreSeen

\* The page of a report as a view: what it newly shows is the report in its
\* header, unless its requests crossed.
THEOREM PagesAreViewing == Spec => DetailIsViewing
  <1>1. IInv /\ [Next]_vars => [overlapped \/ DetailShown!Next]_<<page, ShownReport>>
    <2> SUFFICES ASSUME IInv, [Next]_vars, ~overlapped
                 PROVE  DetailShown!Next \/ UNCHANGED <<page, ShownReport>>
      OBVIOUS
    <2>1. IInv'
      BY IInvStep
    <2>2. page' \in Reports \cup {List} /\ page \in Reports \cup {List}
      BY <2>1 DEF IInv, TypeOK
    <2>3. CASE \E r \in Reports : Open(r)
      <3>1. loading' = TRUE
        BY <2>3 DEF Open, Render
      <3>2. ShownReport' = List
        BY <3>1 DEF ShownReport, Boxed
      <3>3. QED BY <2>2, <3>2 DEF DetailShown!Next, DetailShown!Ask
    <2>4. CASE Leave
      <3>1. ShownReport' = List
        BY <2>4 DEF Leave, ShownReport, Boxed
      <3>2. QED BY <2>2, <3>1 DEF DetailShown!Next, DetailShown!Ask
    <2>5. CASE UNCHANGED <<page, overlapped>>
      <3>1. ShownReport' \in {page', List}
        BY <2>1, <2>5 DEF IInv, NotesInv, AskedOnce, ShownReport
      <3>2. QED BY <2>5, <3>1 DEF DetailShown!Next, DetailShown!Show
    <2>6. QED
      BY <2>3, <2>4, <2>5 DEF Next, Others, Viewing, Editing, Upsert, Remove, DeleteReport,
         DeleteByCluster, OthersSave, ServeLoad, LoadFails, ApplyLoad, Edit, Type, Cancel,
         PressSave, ServeSave, SaveRefused, LoseSave, SaveSucceeds, view, vars
  <1>2. QED BY <1>1, NotesInvariant, PTL DEF Spec, DetailIsViewing

=============================================================================
