-------------------------- MODULE AdminPagesProofs --------------------------
(***************************************************************************)
(* Proofs about the pages of App that administrate: the audit log, the      *)
(* alert rules, the tokens and the clusters.  Each page has an inductive    *)
(* invariant, which AppProofs lifts to App.                                 *)
(***************************************************************************)
EXTENDS App, SequenceTheorems, TLAPS

-----------------------------------------------------------------------------
(* Requests under way: sequences that grow at their end, and from which any  *)
(* element may leave.                                                        *)

\* A sequence is empty if it has no element.
LEMMA Emptiness ==
  ASSUME NEW S, NEW s \in Seq(S)
  PROVE  /\ s = <<>> <=> Len(s) = 0
         /\ s = <<>> <=> DOMAIN s = {}
         /\ Len(s) \in Nat
         /\ DOMAIN s = 1..Len(s)
         /\ \A i \in DOMAIN s : s[i] \in S
  BY EmptySeq, LenProperties, ElementOfSeq

\* Sending a request.
LEMMA Sending ==
  ASSUME NEW S, NEW s \in Seq(S), NEW e \in S
  PROVE  /\ Append(s, e) \in Seq(S)
         /\ Append(s, e) # <<>>
         /\ Len(Append(s, e)) = Len(s) + 1
         /\ \A j \in DOMAIN Append(s, e) : Append(s, e)[j] = e \/ (j \in DOMAIN s /\ Append(s, e)[j] = s[j])
         /\ Append(s, e)[Len(s) + 1] = e
         /\ Len(s) + 1 \in DOMAIN Append(s, e)
         /\ \A j \in DOMAIN s : j \in DOMAIN Append(s, e) /\ Append(s, e)[j] = s[j]
  <1>1. Append(s, e) \in Seq(S) /\ Len(Append(s, e)) = Len(s) + 1
    OBVIOUS
  <1>2. DOMAIN s = 1..Len(s) /\ DOMAIN Append(s, e) = 1..(Len(s) + 1) /\ Len(s) \in Nat
    BY <1>1, LenProperties
  <1>3. Append(s, e) # <<>>
    BY <1>1, <1>2, EmptySeq
  <1>4. \A j \in 1..(Len(s) + 1) : Append(s, e)[j] = IF j <= Len(s) THEN s[j] ELSE e
    OBVIOUS
  <1>5. QED BY <1>1, <1>2, <1>3, <1>4

\* The answer to a request.
LEMMA Answering ==
  ASSUME NEW S, NEW s \in Seq(S), NEW i \in DOMAIN s
  PROVE  /\ RemoveAt(s, i) \in Seq(S)
         /\ Len(RemoveAt(s, i)) = Len(s) - 1
         /\ \A j \in DOMAIN RemoveAt(s, i) :
               \E k \in DOMAIN s \ {i} : RemoveAt(s, i)[j] = s[k]
         /\ \A k \in DOMAIN s \ {i} :
               \E j \in DOMAIN RemoveAt(s, i) : RemoveAt(s, i)[j] = s[k]
  <1> DEFINE a == SubSeq(s, 1, i - 1)
             b == SubSeq(s, i + 1, Len(s))
  <1>1. DOMAIN s = 1..Len(s) /\ Len(s) \in Nat /\ i \in 1..Len(s)
    BY LenProperties
  <1>2. \A j \in 1..Len(s) : s[j] \in S
    BY ElementOfSeq
  <1>3. /\ a \in Seq(S) /\ Len(a) = i - 1
        /\ \A j \in 1..(i - 1) : a[j] = s[j]
    <2>1. \A j \in 1..(i - 1) : s[j] \in S
      BY <1>1, <1>2
    <2>2. /\ a \in Seq(S)
          /\ Len(a) = IF 1 <= i - 1 THEN i - 1 - 1 + 1 ELSE 0
          /\ \A j \in 1..(i - 1 - 1 + 1) : a[j] = s[1 + j - 1]
      BY <1>1, <2>1, SubSeqProperties
    <2>3. QED BY <1>1, <2>2
  <1>4. /\ b \in Seq(S) /\ Len(b) = Len(s) - i
        /\ \A j \in 1..(Len(s) - i) : b[j] = s[i + j]
    <2>1. \A j \in (i + 1)..Len(s) : s[j] \in S
      BY <1>1, <1>2
    <2>2. /\ b \in Seq(S)
          /\ Len(b) = IF i + 1 <= Len(s) THEN Len(s) - (i + 1) + 1 ELSE 0
          /\ \A j \in 1..(Len(s) - (i + 1) + 1) : b[j] = s[(i + 1) + j - 1]
      BY <1>1, <2>1, SubSeqProperties
    <2>3. QED BY <1>1, <2>2
  <1>5. RemoveAt(s, i) = a \o b
    BY DEF RemoveAt
  <1> HIDE DEF a, b
  <1>6. /\ RemoveAt(s, i) \in Seq(S)
        /\ Len(RemoveAt(s, i)) = Len(s) - 1
        /\ \A j \in 1..(Len(s) - 1) :
              RemoveAt(s, i)[j] = IF j < i THEN s[j] ELSE s[j + 1]
    <2>1. /\ a \o b \in Seq(S)
          /\ Len(a \o b) = Len(a) + Len(b)
          /\ \A j \in 1..(Len(a) + Len(b)) :
                (a \o b)[j] = IF j <= Len(a) THEN a[j] ELSE b[j - Len(a)]
      BY <1>3, <1>4, ConcatProperties
    <2>2. \A j \in 1..(Len(s) - 1) : (a \o b)[j] = IF j < i THEN s[j] ELSE s[j + 1]
      <3>1. TAKE j \in 1..(Len(s) - 1)
      <3>2. CASE j < i
        BY <1>1, <1>3, <1>4, <2>1, <3>2
      <3>3. CASE ~(j < i)
        <4>1. (a \o b)[j] = b[j - Len(a)]
          BY <1>1, <1>3, <1>4, <2>1, <3>3
        <4>2. j - Len(a) \in 1..(Len(s) - i) /\ i + (j - Len(a)) = j + 1
          BY <1>1, <1>3, <3>3
        <4>3. QED BY <1>4, <4>1, <4>2, <3>3
      <3>4. QED BY <3>2, <3>3
    <2>3. QED BY <1>1, <1>3, <1>4, <1>5, <2>1, <2>2
  <1>7. DOMAIN RemoveAt(s, i) = 1..(Len(s) - 1)
    BY <1>1, <1>6, LenProperties
  <1>8. \A j \in DOMAIN RemoveAt(s, i) : \E k \in DOMAIN s \ {i} : RemoveAt(s, i)[j] = s[k]
    <2>1. TAKE j \in DOMAIN RemoveAt(s, i)
    <2>2. CASE j < i
      <3>1. j \in DOMAIN s \ {i} BY <1>1, <1>7, <2>2
      <3>2. QED BY <1>6, <1>7, <2>2, <3>1
    <2>3. CASE ~(j < i)
      <3>1. j + 1 \in DOMAIN s \ {i} BY <1>1, <1>7, <2>3
      <3>2. QED BY <1>6, <1>7, <2>3, <3>1
    <2>4. QED BY <2>2, <2>3
  <1>9. \A k \in DOMAIN s \ {i} : \E j \in DOMAIN RemoveAt(s, i) : RemoveAt(s, i)[j] = s[k]
    <2>1. TAKE k \in DOMAIN s \ {i}
    <2>2. CASE k < i
      <3>1. k \in DOMAIN RemoveAt(s, i) BY <1>1, <1>7, <2>2
      <3>2. QED BY <1>6, <1>7, <2>2, <3>1
    <2>3. CASE k > i
      <3>1. k - 1 \in DOMAIN RemoveAt(s, i) /\ ~(k - 1 < i) /\ k - 1 + 1 = k BY <1>1, <1>7, <2>3
      <3>2. QED BY <1>6, <1>7, <2>3, <3>1
    <2>4. QED BY <1>1, <2>2, <2>3
  <1>10. QED BY <1>6, <1>8, <1>9

\* The same requests, each with other marks.
LEMMA Marking ==
  ASSUME NEW S, NEW s \in Seq(S), NEW t \in [DOMAIN s -> S]
  PROVE  /\ t \in Seq(S)
         /\ Len(t) = Len(s)
         /\ DOMAIN t = DOMAIN s
  <1>1. DOMAIN s = 1..Len(s) /\ Len(s) \in Nat
    BY LenProperties
  <1>2. t \in [1..Len(s) -> S]
    BY <1>1
  <1>3. t \in Seq(S)
    BY <1>1, <1>2, SeqDef
  <1>4. DOMAIN t = 1..Len(t) /\ Len(t) \in Nat /\ DOMAIN t = 1..Len(s)
    BY <1>2, <1>3, LenProperties
  <1>5. Len(t) = Len(s)
    BY <1>1, <1>4
  <1>6. QED BY <1>1, <1>3, <1>4, <1>5

-----------------------------------------------------------------------------
(* The audit log and its page.                                              *)

\* Unless it asked while it waited for another answer, every request under way
\* asks the present question, and one is under way, or answered, or failed.
AsksItsQuestion ==
    ~crossed =>
        /\ \A f \in DOMAIN fetch : fetch[f].of = question
        /\ \/ shownLog # Unasked /\ shownLog.of = question
           \/ fetch # <<>>
           \/ loadError # "none"

\* A page of the log that has rows, or is the first.
Within(q) == q.offset = 0 \/ q.offset < Matching(q.filter)

\* While the page is not adrift, whatever may be asked again is within the log,
\* and no count is too large.
StaysWithin ==
    ~adrift =>
        /\ Within(question)
        /\ \A f \in DOMAIN fetch :
              /\ Within(fetch[f].of)
              /\ fetch[f].total # Unasked => fetch[f].total <= Matching(fetch[f].of.filter)
        /\ cleanup # Unasked => Within(cleanup.then)
        /\ shownLog # Unasked =>
              /\ shownLog.total <= Matching(shownLog.of.filter)
              /\ shownLog.items = 0 => ~shownLog.some

AuditInv == AuditTypeOK /\ AsksItsQuestion /\ StaysWithin

\* What the type invariant says of the requests for a page of the log.
LEMMA FetchFacts ==
  ASSUME AuditTypeOK
  PROVE  /\ Len(fetch) \in Nat
         /\ fetch = <<>> <=> DOMAIN fetch = {}
         /\ \A f \in DOMAIN fetch :
               fetch[f] \in Fetch /\ fetch[f].of \in Question /\ fetch[f].of.filter \in Filters \cup {All}
         /\ \A g \in Filters \cup {All} : Matching(g) \in Nat /\ Matching(g) <= MaxRows
         /\ \A q \in Question : q.offset \in Nat /\ q.filter \in Filters \cup {All}
  <1>1. fetch \in Seq(Fetch)
    BY DEF AuditTypeOK
  <1>2. /\ Len(fetch) \in Nat
        /\ fetch = <<>> <=> DOMAIN fetch = {}
        /\ \A f \in DOMAIN fetch : fetch[f] \in Fetch
    BY <1>1, Emptiness
  <1>3. \A f \in DOMAIN fetch : fetch[f].of \in Question
    BY <1>2 DEF Fetch
  <1>4. \A q \in Question : q.offset \in Nat /\ q.filter \in Filters \cup {All}
    BY DEF Question
  <1>5. \A g \in Filters \cup {All} : Matching(g) \in Nat /\ Matching(g) <= MaxRows
    BY AuditAssumption DEF AuditTypeOK, Counts, Matching
  <1>6. QED BY <1>2, <1>3, <1>4, <1>5

\* fetchLogs sends a request for the question it was made for.
LEMMA FetchLogsFacts ==
  ASSUME AuditTypeOK, NEW q \in Question, FetchLogs(q)
  PROVE  /\ fetch' \in Seq(Fetch)
         /\ fetch' # <<>>
         /\ crossed' \in BOOLEAN
         /\ ~crossed' => q = question' /\ \A f \in DOMAIN fetch' : fetch'[f].of = question'
         /\ \A f \in DOMAIN fetch' :
               \/ fetch'[f] = [of |-> q, total |-> Unasked]
               \/ f \in DOMAIN fetch /\ fetch'[f] = fetch[f]
  <1> DEFINE e == [of |-> q, total |-> Unasked]
  <1>1. e \in Fetch /\ e.of = q /\ fetch \in Seq(Fetch)
    BY DEF Fetch, AuditTypeOK
  <1>2. fetch' = Append(fetch, e)
    BY DEF FetchLogs
  <1> HIDE DEF e
  <1>3. /\ fetch' \in Seq(Fetch) /\ fetch' # <<>>
        /\ \A j \in DOMAIN fetch' : fetch'[j] = e \/ (j \in DOMAIN fetch /\ fetch'[j] = fetch[j])
    BY <1>1, <1>2, Sending
  <1>4. crossed' = (q # question' \/ \E f \in DOMAIN fetch : fetch[f].of # q)
    BY DEF FetchLogs
  <1>5. ASSUME ~crossed' PROVE q = question' /\ \A f \in DOMAIN fetch' : fetch'[f].of = question'
    BY <1>1, <1>3, <1>4, <1>5
  <1>6. QED BY <1>3, <1>4, <1>5 DEF e

\* The answer to a request, or its failure, leaves the others.
LEMMA FetchLeaves ==
  ASSUME AuditTypeOK, NEW f \in DOMAIN fetch, fetch' = RemoveAt(fetch, f)
  PROVE  /\ fetch' \in Seq(Fetch)
         /\ \A g \in DOMAIN fetch' : \E k \in DOMAIN fetch : fetch'[g] = fetch[k]
  <1>1. fetch \in Seq(Fetch)
    BY DEF AuditTypeOK
  <1>2. QED BY <1>1, Answering

\* Asking a question, or none.
LEMMA AskFacts ==
  ASSUME AuditTypeOK, NEW q \in Question, Ask(q)
  PROVE  /\ question' = q
         /\ fetch' \in Seq(Fetch)
         /\ crossed' \in BOOLEAN
         /\ q = question => fetch' = fetch /\ crossed' = crossed
         /\ q # question =>
              /\ fetch' # <<>>
              /\ ~crossed' => \A f \in DOMAIN fetch' : fetch'[f].of = question'
         /\ \A f \in DOMAIN fetch' :
               \/ fetch'[f] = [of |-> q, total |-> Unasked]
               \/ f \in DOMAIN fetch /\ fetch'[f] = fetch[f]
  <1>1. CASE q = question
    BY <1>1 DEF Ask, AuditTypeOK
  <1>2. CASE q # question
    BY <1>2, FetchLogsFacts DEF Ask
  <1>3. QED BY <1>1, <1>2

LEMMA AuditInitInv == AuditInit => AuditInv
  <1> SUFFICES ASSUME AuditInit PROVE AuditInv
    OBVIOUS
  <1> DEFINE e == [of |-> FirstPage, total |-> Unasked]
  <1>1. FirstPage \in Question /\ FirstPage.offset = 0
    BY DEF FirstPage, Question
  <1>2. e \in Fetch /\ e.of = FirstPage /\ e.total = Unasked
    BY <1>1 DEF Fetch
  <1>3. fetch = <<e>>
    BY DEF AuditInit
  <1> HIDE DEF e
  <1>4. fetch \in Seq(Fetch) /\ DOMAIN fetch = {1} /\ fetch[1] = e
    BY <1>2, <1>3
  <1>5. AuditTypeOK
    BY <1>1, <1>4 DEF AuditInit, AuditTypeOK
  <1>6. AsksItsQuestion
    <2>1. fetch # <<>>
      BY <1>4
    <2>2. QED BY <1>2, <1>4, <2>1 DEF AuditInit, AsksItsQuestion
  <1>7. StaysWithin
    BY <1>1, <1>2, <1>4 DEF AuditInit, StaysWithin, Within
  <1>8. QED BY <1>5, <1>6, <1>7 DEF AuditInv

\* The log grows: what was within it stays so.
LEMMA InsertKeeps ==
  ASSUME AuditInv, Insert
  PROVE  AuditInv'
  <1> USE DEF AuditInv
  <1>1. apiLog' \in Counts /\ \A g \in Filters \cup {All} : apiLog'[g] >= apiLog[g]
    <2>1. PICK matched \in SUBSET Filters : apiLog' = [f \in Filters \cup {All} |->
             IF f \in matched \cup {All} THEN apiLog[f] + 1 ELSE apiLog[f]]
      BY DEF Insert
    <2>2. /\ \A g \in Filters \cup {All} : apiLog[g] \in Nat
          /\ \A g \in Filters : apiLog[g] <= apiLog[All]
          /\ apiLog[All] < MaxRows
      BY AuditAssumption DEF AuditTypeOK, Counts, Insert, Matching
    <2>3. \A g \in Filters \cup {All} : apiLog'[g] \in Nat /\ apiLog'[g] <= apiLog'[All] /\ apiLog'[g] >= apiLog[g]
      BY <2>1, <2>2
    <2>4. apiLog'[All] <= MaxRows
      BY <2>1, <2>2, AuditAssumption
    <2>5. \A g \in Filters \cup {All} : apiLog'[g] \in 0..MaxRows
      BY <2>2, <2>3, <2>4, AuditAssumption
    <2>6. apiLog' \in [Filters \cup {All} -> 0..MaxRows]
      BY <2>1, <2>5
    <2>7. QED BY <2>3, <2>6 DEF Counts
  <1>2. AuditTypeOK'
    BY <1>1 DEF Insert, AuditTypeOK, history
  <1>3. AsksItsQuestion'
    BY DEF Insert, AsksItsQuestion, history
  <1>4. StaysWithin'
    <2>1. UNCHANGED <<question, shownLog, fetch, cleanup, adrift>>
      BY DEF Insert, history
    <2>2. \A g \in Filters \cup {All} : Matching(g)' >= Matching(g) /\ Matching(g) \in Nat /\ Matching(g)' \in Nat
      BY <1>1, FetchFacts DEF Matching, Counts
    <2>3. \A q \in Question : Within(q) => Within(q)'
      BY <2>2, FetchFacts DEF Within, Matching
    <2>4. \A f \in DOMAIN fetch : fetch[f].of \in Question /\ fetch[f].total \in Nat \cup {Unasked} /\ fetch[f].of.filter \in Filters \cup {All}
      BY FetchFacts DEF Fetch
    <2>5. shownLog # Unasked => shownLog.of \in Question /\ shownLog.total \in Nat /\ shownLog.of.filter \in Filters \cup {All}
      BY DEF AuditTypeOK, Answer, Question
    <2>6. question \in Question /\ (cleanup # Unasked => cleanup.then \in Question)
      BY DEF AuditTypeOK, Cleanup
    <2>7. ASSUME ~adrift' PROVE StaysWithin'
      <3>1. /\ Within(question)
            /\ cleanup # Unasked => Within(cleanup.then)
            /\ \A f \in DOMAIN fetch :
                 /\ Within(fetch[f].of)
                 /\ fetch[f].total # Unasked => fetch[f].total <= Matching(fetch[f].of.filter)
            /\ shownLog # Unasked =>
                 /\ shownLog.total <= Matching(shownLog.of.filter)
                 /\ shownLog.items = 0 => ~shownLog.some
        BY <2>1, <2>7 DEF StaysWithin
      <3>2. Within(question)' /\ (cleanup' # Unasked => Within(cleanup.then)')
        BY <2>1, <2>3, <2>6, <3>1 DEF Within
      <3>3. (\A f \in DOMAIN fetch : Within(fetch[f].of))'
        BY <2>1, <2>3, <2>4, <3>1 DEF Within
      <3>4. \A f \in DOMAIN fetch : fetch[f].total # Unasked => fetch[f].total <= apiLog'[fetch[f].of.filter]
        BY <2>2, <2>4, <3>1 DEF Matching
      <3>5. shownLog # Unasked => shownLog.total <= apiLog'[shownLog.of.filter]
        BY <2>2, <2>5, <3>1 DEF Matching
      <3>6. QED BY <2>1, <3>1, <3>2, <3>3, <3>4, <3>5 DEF StaysWithin, Within, Matching
    <2>8. QED BY <2>7 DEF StaysWithin
  <1>5. QED BY <1>2, <1>3, <1>4

\* Rows are deleted, by this page or another: nothing is claimed after that,
\* unless none was.
LEMMA DeleteOldFacts ==
  ASSUME AuditInv, DeleteOld
  PROVE  apiLog' \in Counts /\ adrift' \in BOOLEAN /\ (~adrift' => ~adrift /\ apiLog' = apiLog)
  BY DEF DeleteOld, AuditInv, AuditTypeOK

LEMMA DeletingKeeps ==
  ASSUME AuditInv, OthersCleanup \/ DeleteStatement
  PROVE  AuditInv'
  <1> USE DEF AuditInv
  <1>1. apiLog' \in Counts /\ adrift' \in BOOLEAN /\ (~adrift' => ~adrift /\ apiLog' = apiLog)
    BY DeleteOldFacts DEF OthersCleanup, DeleteStatement
  <1>2. UNCHANGED <<question, shownLog, fetch, overlay, loadError, crossed>>
    BY DEF OthersCleanup, DeleteStatement
  <1>3. /\ cleanup' \in Cleanup \cup {Unasked}
        /\ cleanup' # Unasked => cleanup # Unasked /\ cleanup'.then = cleanup.then
    <2>1. CASE OthersCleanup
      BY <2>1 DEF OthersCleanup, AuditTypeOK
    <2>2. CASE DeleteStatement
      <3>1. cleanup \in Cleanup /\ cleanup' = [cleanup EXCEPT !.deleted = TRUE]
        BY <2>2 DEF DeleteStatement, AuditTypeOK
      <3>2. cleanup' \in Cleanup /\ cleanup'.then = cleanup.then
        BY <3>1 DEF Cleanup
      <3>3. QED BY <2>2, <3>2 DEF DeleteStatement
    <2>3. QED BY <2>1, <2>2
  <1>4. AuditTypeOK'
    BY <1>1, <1>2, <1>3 DEF AuditTypeOK
  <1>5. AsksItsQuestion'
    BY <1>2 DEF AsksItsQuestion
  <1>6. StaysWithin'
    BY <1>1, <1>2, <1>3 DEF StaysWithin, Within, Matching
  <1>7. QED BY <1>4, <1>5, <1>6

\* The count of a request is that of the log.
LEMMA CountKeeps ==
  ASSUME AuditInv, NEW f \in DOMAIN fetch, Count(f)
  PROVE  AuditInv'
  <1> USE DEF AuditInv
  <1> DEFINE n == apiLog[fetch[f].of.filter]
             e == [fetch[f] EXCEPT !.total = n]
  <1>1. n \in Nat /\ fetch[f] \in Fetch
    BY FetchFacts DEF Matching
  <1>2. fetch' = [fetch EXCEPT ![f] = e]
    BY DEF Count, Matching
  <1>3. e \in Fetch /\ e.of = fetch[f].of /\ e.total = n
    BY <1>1 DEF Fetch
  <1>4. UNCHANGED <<apiLog, question, shownLog, cleanup, overlay, loadError, crossed, adrift>>
    BY DEF Count, history
  <1>5. n = apiLog'[e.of.filter] /\ n <= n
    BY <1>1, <1>3, <1>4
  <1> HIDE DEF e, n
  <1>6. /\ fetch' \in Seq(Fetch)
        /\ DOMAIN fetch' = DOMAIN fetch
        /\ fetch'[f] = e
        /\ \A g \in DOMAIN fetch : g # f => fetch'[g] = fetch[g]
        /\ fetch # <<>> => fetch' # <<>>
    <2>1. fetch \in Seq(Fetch)
      BY DEF AuditTypeOK
    <2>2. fetch' \in [DOMAIN fetch -> Fetch]
      BY <1>2, <1>3, <2>1, Emptiness
    <2>3. fetch' \in Seq(Fetch) /\ DOMAIN fetch' = DOMAIN fetch /\ Len(fetch') = Len(fetch)
      BY <2>1, <2>2, Marking
    <2>4. fetch # <<>> => fetch' # <<>>
      BY <2>1, <2>3, Emptiness
    <2>5. QED BY <1>2, <2>3, <2>4
  <1>7. AuditTypeOK'
    BY <1>4, <1>6 DEF AuditTypeOK
  <1>8. AsksItsQuestion'
    BY <1>3, <1>4, <1>6 DEF AsksItsQuestion
  <1>9. StaysWithin'
    BY <1>3, <1>4, <1>5, <1>6 DEF StaysWithin, Within, Matching
  <1>10. QED BY <1>7, <1>8, <1>9

\* An answer: it shows rows, unless the log has none or was cleaned up.
LEMMA LogsArriveKeeps ==
  ASSUME AuditInv, NEW f \in DOMAIN fetch, LogsArrive(f)
  PROVE  AuditInv'
  <1> USE DEF AuditInv
  <1> DEFINE q == fetch[f].of
             n == apiLog[q.filter]
  <1>1. /\ fetch' \in Seq(Fetch)
        /\ \A g \in DOMAIN fetch' : \E k \in DOMAIN fetch : fetch'[g] = fetch[k]
    BY FetchLeaves DEF LogsArrive
  <1>2. q \in Question /\ q.offset \in Nat /\ n \in Nat /\ fetch[f].total \in Nat
    <2>1. fetch[f].total # Unasked
      BY DEF LogsArrive
    <2>2. fetch[f] \in Fetch /\ q \in Question /\ q.filter \in Filters \cup {All}
      BY FetchFacts
    <2>3. fetch[f].total \in Nat
      BY <2>1, <2>2 DEF Fetch
    <2>4. n \in Nat /\ q.offset \in Nat
      BY <2>2, FetchFacts DEF Matching
    <2>5. QED BY <2>2, <2>3, <2>4
  <1>3. ItemsAt(q) = IF n <= q.offset THEN 0 ELSE IF n - q.offset < PageSize THEN n - q.offset ELSE PageSize
    BY DEF ItemsAt, Matching
  <1>4. shownLog' = [of |-> q, items |-> ItemsAt(q), total |-> fetch[f].total, some |-> n > 0]
    BY DEF LogsArrive, Matching
  <1>5. UNCHANGED <<apiLog, question, cleanup, overlay, crossed, adrift>> /\ loadError' = "none"
    BY DEF LogsArrive, history
  <1> DEFINE i == ItemsAt(q)
  <1>6. i \in Nat /\ (i = 0 => n <= q.offset)
    BY <1>2, <1>3, AuditAssumption
  <1> DEFINE b == n > 0
             t == fetch[f].total
  <1>7. b \in BOOLEAN /\ t \in Nat
    BY <1>2
  <1>8. shownLog' = [of |-> q, items |-> i, total |-> t, some |-> b]
    BY <1>4
  <1> HIDE DEF i, b, t
  <1>9. /\ shownLog' \in Answer /\ shownLog' # Unasked
        /\ shownLog'.of = q /\ shownLog'.items = i /\ shownLog'.total = t /\ shownLog'.some = b
    <2>1. shownLog' \in Answer
      BY <1>2, <1>6, <1>8, <1>7 DEF Answer
    <2>2. QED BY <1>8, <2>1, UnaskedAssumption
  <1>10. AuditTypeOK'
    BY <1>1, <1>5, <1>9 DEF AuditTypeOK
  <1>11. AsksItsQuestion'
    BY <1>1, <1>5, <1>9 DEF AsksItsQuestion
  <1>12. StaysWithin'
    <2>1. ASSUME ~adrift' PROVE StaysWithin'
      <3>1. Within(q) /\ fetch[f].total <= n
        BY <1>2, <1>5, <2>1, UnaskedAssumption DEF StaysWithin, Matching
      <3>2. (i = 0 => ~b) /\ t <= n
        BY <1>2, <1>6, <3>1 DEF Within, Matching, b, t
      <3>3. QED BY <1>1, <1>5, <1>9, <2>1, <3>1, <3>2 DEF StaysWithin, Within, Matching
    <2>2. QED BY <2>1 DEF StaysWithin
  <1>13. QED BY <1>10, <1>11, <1>12

\* A failure, of a page of the log or of the statistics, shows an error; and the
\* statistics wipe it.
LEMMA FailuresKeep ==
  ASSUME AuditInv, StatsArrive \/ StatsFail \/ \E f \in DOMAIN fetch : LogsFail(f)
  PROVE  AuditInv'
  <1> USE DEF AuditInv
  <1>1. UNCHANGED <<apiLog, question, shownLog, cleanup, overlay, crossed, adrift>>
    BY DEF StatsArrive, StatsFail, LogsFail, history
  <1>2. loadError' \in {"shown", "wiped"}
    BY DEF StatsArrive, StatsFail, LogsFail
  <1>3. /\ fetch' \in Seq(Fetch)
        /\ \A g \in DOMAIN fetch' : \E k \in DOMAIN fetch : fetch'[g] = fetch[k]
    <2>1. CASE StatsArrive \/ StatsFail
      BY <2>1 DEF StatsArrive, StatsFail, AuditTypeOK
    <2>2. CASE \E f \in DOMAIN fetch : LogsFail(f)
      BY <2>2, FetchLeaves DEF LogsFail
    <2>3. QED BY <2>1, <2>2
  <1>4. AuditTypeOK'
    BY <1>1, <1>2, <1>3 DEF AuditTypeOK
  <1>5. AsksItsQuestion'
    BY <1>1, <1>2, <1>3 DEF AsksItsQuestion
  <1>6. StaysWithin'
    BY <1>1, <1>3 DEF StaysWithin, Within, Matching
  <1>7. QED BY <1>4, <1>5, <1>6

\* Sending a request for a page within the log.
LEMMA AskingKeeps ==
  ASSUME AuditInv, NEW q \in Question,
         UNCHANGED <<apiLog, shownLog, loadError>>,
         cleanup' \in {cleanup, Unasked},
         overlay' \in {"none", "popup", "dialog"},
         adrift' \in BOOLEAN, ~adrift' => ~adrift,
         question' \in Question,
         ~adrift' => Within(q) /\ Within(question'),
         fetch' \in Seq(Fetch), crossed' \in BOOLEAN,
         \/ question' = question /\ fetch' = fetch /\ crossed' = crossed
         \/ fetch' # <<>> /\ (~crossed' => \A f \in DOMAIN fetch' : fetch'[f].of = question'),
         \A f \in DOMAIN fetch' :
             \/ fetch'[f] = [of |-> q, total |-> Unasked]
             \/ f \in DOMAIN fetch /\ fetch'[f] = fetch[f]
  PROVE  AuditInv'
  <1> USE DEF AuditInv
  <1>1. AuditTypeOK'
    BY DEF AuditTypeOK
  <1>2. AsksItsQuestion'
    BY DEF AsksItsQuestion
  <1>3. StaysWithin'
    <2>1. ASSUME ~adrift' PROVE StaysWithin'
      <3>1. StaysWithin /\ ~adrift
        BY <2>1
      <3>2. Within(q) /\ Within(question')
        BY <2>1
      <3>3. \A f \in DOMAIN fetch' :
              /\ fetch'[f].of.offset = 0 \/ fetch'[f].of.offset < apiLog'[fetch'[f].of.filter]
              /\ fetch'[f].total # Unasked => fetch'[f].total <= apiLog'[fetch'[f].of.filter]
        <4>1. TAKE f \in DOMAIN fetch'
        <4>2. CASE fetch'[f] = [of |-> q, total |-> Unasked]
          BY <3>2, <4>2 DEF Within, Matching
        <4>3. CASE f \in DOMAIN fetch /\ fetch'[f] = fetch[f]
          BY <3>1, <4>3 DEF StaysWithin, Within, Matching
        <4>4. QED BY <4>2, <4>3
      <3>4. QED BY <3>1, <3>2, <3>3 DEF StaysWithin, Within, Matching
    <2>2. QED BY <2>1 DEF StaysWithin
  <1>4. QED BY <1>1, <1>2, <1>3

\* What the user asks for, and what handleCleanup asks for again.
LEMMA QuestionsKeep ==
  ASSUME AuditInv, Refresh \/ NextPage \/ PreviousPage \/ ApplyFilter \/ CleanupSucceeds
  PROVE  AuditInv'
  <1> USE DEF AuditInv
  <1>1. question \in Question /\ question.offset \in Nat /\ question.filter \in Filters \cup {All}
    BY FetchFacts DEF AuditTypeOK
  <1>2. CASE Refresh
    <2>1. UNCHANGED <<apiLog, question, shownLog, cleanup, overlay, loadError, adrift>>
      BY <1>2 DEF Refresh
    <2>2. FetchLogs(question)
      BY <1>2 DEF Refresh
    <2>3. ~adrift' => Within(question) /\ Within(question')
      BY <2>1 DEF StaysWithin
    <2>4. overlay' \in {"none", "popup", "dialog"} /\ adrift' \in BOOLEAN /\ question' \in Question /\ cleanup' \in {cleanup, Unasked}
      BY <1>1, <2>1 DEF AuditTypeOK
    <2>5. QED BY <1>1, <2>1, <2>2, <2>3, <2>4, FetchLogsFacts, AskingKeeps
  <1>3. CASE NextPage
    <2> DEFINE q == [question EXCEPT !.offset = question.offset + PageSize]
    <2>1. /\ q \in Question
          /\ q.offset = question.offset + PageSize
          /\ q.filter = question.filter
      BY <1>1, AuditAssumption DEF Question
    <2>2. Ask(q) /\ shownLog # Unasked /\ question.offset + PageSize < shownLog.total
      BY <1>3 DEF NextPage, NoneFound
    <2>3. UNCHANGED <<apiLog, shownLog, cleanup, loadError>> /\ overlay' = "none"
      BY <1>3 DEF NextPage
    <2>4. adrift' = (adrift \/ shownLog.of # question)
      BY <1>3 DEF NextPage
    <2> HIDE DEF q
    <2>5. ASSUME ~adrift' PROVE Within(q)
      <3>1. shownLog.of = question /\ shownLog.total <= Matching(question.filter)
        BY <2>2, <2>4, <2>5 DEF StaysWithin
      <3>2. shownLog.total \in Nat /\ Matching(question.filter) \in Nat
        BY <1>1, <2>2, FetchFacts DEF AuditTypeOK, Answer
      <3>3. QED BY <1>1, <2>1, <2>2, <3>1, <3>2, AuditAssumption DEF Within
    <2>6. adrift' \in BOOLEAN /\ (~adrift' => ~adrift)
      BY <2>4 DEF AuditTypeOK
    <2>7. question' = q
      BY <2>1, <2>2, AskFacts
    <2>8. QED BY <2>1, <2>2, <2>3, <2>5, <2>6, <2>7, AskFacts, AskingKeeps
  <1>4. CASE PreviousPage
    <2> DEFINE o == IF question.offset < PageSize THEN 0 ELSE question.offset - PageSize
               q == [question EXCEPT !.offset = o]
    <2>1. o \in Nat /\ o <= question.offset
      BY <1>1, AuditAssumption
    <2>2. Ask(q)
      BY <1>4 DEF PreviousPage
    <2>3. UNCHANGED <<apiLog, shownLog, cleanup, loadError, adrift>> /\ overlay' = "none"
      BY <1>4 DEF PreviousPage
    <2> HIDE DEF o
    <2>4. q \in Question /\ q.offset = o /\ q.filter = question.filter
      BY <1>1, <2>1 DEF Question
    <2> HIDE DEF q
    <2>5. ASSUME ~adrift' PROVE Within(q)
      <3>1. Within(question)
        BY <2>3, <2>5 DEF StaysWithin
      <3>2. Matching(question.filter) \in Nat
        BY <1>1, FetchFacts
      <3>3. QED BY <1>1, <2>1, <2>4, <3>1, <3>2 DEF Within
    <2>6. adrift' \in BOOLEAN /\ (~adrift' => ~adrift)
      BY <2>3 DEF AuditTypeOK
    <2>7. question' = q
      BY <2>2, <2>4, AskFacts
    <2>8. QED BY <2>2, <2>3, <2>4, <2>5, <2>6, <2>7, AskFacts, AskingKeeps
  <1>5. CASE ApplyFilter
    <2>1. PICK k \in Filters \cup {All} : Ask([offset |-> 0, filter |-> k])
      BY <1>5 DEF ApplyFilter
    <2> DEFINE q == [offset |-> 0, filter |-> k]
    <2>2. q \in Question /\ Within(q)
      BY DEF Question, Within
    <2>3. Ask(q)
      BY <2>1
    <2>4. UNCHANGED <<apiLog, shownLog, cleanup, loadError, adrift>> /\ overlay' = "none"
      BY <1>5 DEF ApplyFilter
    <2> HIDE DEF q
    <2>5. adrift' \in BOOLEAN /\ (~adrift' => ~adrift)
      BY <2>4 DEF AuditTypeOK
    <2>6. question' = q
      BY <2>2, <2>3, AskFacts
    <2>7. QED BY <2>2, <2>3, <2>4, <2>5, <2>6, AskFacts, AskingKeeps
  <1>6. CASE CleanupSucceeds
    <2> DEFINE q == cleanup.then
    <2>1. cleanup # Unasked /\ cleanup \in Cleanup /\ q \in Question
      BY <1>6 DEF CleanupSucceeds, AuditTypeOK, Cleanup
    <2>2. UNCHANGED <<apiLog, question, shownLog, loadError, adrift>> /\ cleanup' = Unasked
      BY <1>6 DEF CleanupSucceeds
    <2>3. FetchLogs(q)
      BY <1>6 DEF CleanupSucceeds
    <2>4. overlay' \in {"none", "popup", "dialog"}
      BY <1>6 DEF CleanupSucceeds, AuditTypeOK
    <2>5. ~adrift' => Within(q) /\ Within(question')
      BY <2>1, <2>2 DEF StaysWithin
    <2>6. adrift' \in BOOLEAN /\ (~adrift' => ~adrift) /\ question' \in Question
      BY <1>1, <2>2 DEF AuditTypeOK
    <2> HIDE DEF q
    <2>7. QED BY <2>1, <2>2, <2>3, <2>4, <2>5, <2>6, FetchLogsFacts, AskingKeeps
  <1>7. QED BY <1>2, <1>3, <1>4, <1>5, <1>6

\* Popups, the dialog, and the request to clean up, which captures the question.
LEMMA DialogsKeep ==
  ASSUME AuditInv, OpenPopup \/ OpenDialog \/ CloseOverlay \/ PressDeleteOldLogs \/ CleanupFails
  PROVE  AuditInv'
  <1> USE DEF AuditInv
  <1>1. UNCHANGED <<apiLog, question, shownLog, fetch, loadError, crossed, adrift>>
    BY DEF OpenPopup, OpenDialog, CloseOverlay, PressDeleteOldLogs, CleanupFails, history
  <1>2. overlay' \in {"none", "popup", "dialog"}
    BY DEF OpenPopup, OpenDialog, CloseOverlay, PressDeleteOldLogs, CleanupFails, AuditTypeOK
  <1>3. cleanup' \in {cleanup, Unasked, [deleted |-> FALSE, then |-> question]}
    BY DEF OpenPopup, OpenDialog, CloseOverlay, PressDeleteOldLogs, CleanupFails
  <1>4. [deleted |-> FALSE, then |-> question] \in Cleanup /\ question \in Question
    BY DEF AuditTypeOK, Cleanup
  <1>5. AuditTypeOK'
    BY <1>1, <1>2, <1>3, <1>4 DEF AuditTypeOK
  <1>6. AsksItsQuestion'
    BY <1>1 DEF AsksItsQuestion
  <1>7. StaysWithin'
    BY <1>1, <1>3, <1>4 DEF StaysWithin, Within, Matching
  <1>8. QED BY <1>5, <1>6, <1>7

LEMMA AuditStepInv == AuditInv /\ [AuditNext]_auditVars => AuditInv'
  <1> SUFFICES ASSUME AuditInv, [AuditNext]_auditVars PROVE AuditInv'
    OBVIOUS
  <1>1. CASE Log
    BY <1>1, InsertKeeps, DeletingKeeps, CountKeeps DEF Log
  <1>2. CASE \E f \in DOMAIN fetch : LogsArrive(f) \/ LogsFail(f)
    BY <1>2, LogsArriveKeeps, FailuresKeep
  <1>3. CASE \/ StatsArrive \/ StatsFail \/ Refresh \/ NextPage \/ PreviousPage
             \/ OpenPopup \/ ApplyFilter \/ OpenDialog \/ CloseOverlay
             \/ PressDeleteOldLogs \/ CleanupSucceeds \/ CleanupFails
    BY <1>3, FailuresKeep, QuestionsKeep, DialogsKeep
  <1>4. CASE UNCHANGED auditVars
    BY <1>4 DEF auditVars, history, AuditInv, AuditTypeOK, AsksItsQuestion, StaysWithin, Within, Matching
  <1>5. QED BY <1>1, <1>2, <1>3, <1>4 DEF AuditNext

\* What the invariant says to the user.
LEMMA AuditInvImplies == AuditInv => AuditTypeOK /\ ShowsLogOfItsFilters /\ PastTheEndOnlyAfterCleanup
  BY DEF AuditInv, AsksItsQuestion, StaysWithin, ShowsLogOfItsFilters, PastTheEndOnlyAfterCleanup, NoneFound

\* Every step of the audit page is one of Viewing, unless it crossed.
LEMMA LogStepIsViewing ==
  ASSUME AuditInv, [AuditNext]_auditVars
  PROVE  [crossed \/ LogShown!Next]_<<question, shownLog>>
  <1> SUFFICES ASSUME ~crossed
               PROVE  LogShown!Next \/ UNCHANGED <<question, shownLog>>
    OBVIOUS
  <1> USE DEF LogShown!Next, LogShown!Ask, LogShown!Show
  <1>1. question' \in Question
    BY AuditStepInv DEF AuditInv, AuditTypeOK
  <1>2. CASE UNCHANGED shownLog
    BY <1>1, <1>2
  <1>3. ASSUME NEW f \in DOMAIN fetch, LogsArrive(f)
        PROVE  LogShown!Show
    <2>1. fetch[f] \in Fetch /\ fetch[f].of = question
      BY <1>3, FetchFacts DEF AuditInv, AsksItsQuestion
    <2>2. shownLog'.of = question /\ UNCHANGED question
      BY <1>3, <2>1 DEF LogsArrive, history
    <2>3. QED BY <2>2
  <1>4. CASE \/ Log
             \/ \E f \in DOMAIN fetch : LogsFail(f)
             \/ StatsArrive \/ StatsFail \/ Refresh \/ NextPage \/ PreviousPage
             \/ OpenPopup \/ ApplyFilter \/ OpenDialog \/ CloseOverlay
             \/ PressDeleteOldLogs \/ CleanupSucceeds \/ CleanupFails
             \/ UNCHANGED auditVars
    <2>1. UNCHANGED shownLog
      BY <1>4 DEF Log, Insert, OthersCleanup, DeleteStatement, Count, LogsFail, StatsArrive,
                  StatsFail, Refresh, NextPage, PreviousPage, OpenPopup, ApplyFilter, OpenDialog,
                  CloseOverlay, PressDeleteOldLogs, CleanupSucceeds, CleanupFails, auditVars
    <2>2. QED BY <1>2, <2>1
  <1>5. QED BY <1>3, <1>4 DEF AuditNext

-----------------------------------------------------------------------------
(* The page of alert rules.                                                 *)

\* Unless it asked for the list twice at a time, the page waits for one list
\* at most; and unless the rules changed behind it, or a write of its own is
\* answered only now, that list, or the one it shows, is the stored one.
ListIsTrue ==
    ~rulesCrossed =>
        /\ Len(listing) <= 1
        /\ (~rulesMissed /\ \A w \in DOMAIN write : write[w].answer # "done") =>
              /\ listing = <<>> => rules = storedRules
              /\ \A l \in DOMAIN listing : listing[l].served => listing[l].names = storedRules

\* Every save under way was made from the form that is open, unless the form was
\* opened while another was.
SavesAreOwn ==
    (form # NoForm /\ ~form.hasty) => \A w \in Saving : write[w].own

AlertsInv == AlertsTypeOK /\ ListIsTrue /\ SavesAreOwn

LEMMA WriteFacts ==
  ASSUME AlertsTypeOK
  PROVE  /\ write \in Seq(Write) /\ listing \in Seq(Listing)
         /\ \A w \in DOMAIN write : write[w] \in Write
         /\ \A l \in DOMAIN listing : listing[l] \in Listing
         /\ listing = <<>> <=> DOMAIN listing = {}
         /\ Len(listing) \in Nat /\ DOMAIN listing = 1..Len(listing)
         /\ listing = <<>> <=> Len(listing) = 0
         /\ Saving \subseteq DOMAIN write
  BY Emptiness DEF AlertsTypeOK, Saving

\* The requests that write, when one of them is answered by the service, or the
\* form they were made from is closed.
LEMMA WriteMarked ==
  ASSUME AlertsTypeOK, NEW w \in DOMAIN write, NEW a \in {"unserved", "done", "refused"},
         write' = [write EXCEPT ![w].answer = a]
  PROVE  /\ write' \in Seq(Write)
         /\ DOMAIN write' = DOMAIN write
         /\ \A v \in DOMAIN write :
               /\ write'[v].kind = write[v].kind /\ write'[v].own = write[v].own
               /\ write'[v].answer = IF v = w THEN a ELSE write[v].answer
  <1> DEFINE e == [write[w] EXCEPT !.answer = a]
  <1>1. write[w] \in Write /\ \A v \in DOMAIN write : write[v] \in Write
    BY WriteFacts
  <1>2. e \in Write /\ e.kind = write[w].kind /\ e.own = write[w].own /\ e.answer = a
    BY <1>1 DEF Write
  <1>3. write' = [write EXCEPT ![w] = e]
    OBVIOUS
  <1> HIDE DEF e
  <1>4. write' \in [DOMAIN write -> Write]
    BY <1>1, <1>2, <1>3, WriteFacts, LenProperties
  <1>5. write' \in Seq(Write) /\ DOMAIN write' = DOMAIN write
    BY <1>4, WriteFacts, Marking
  <1>6. \A v \in DOMAIN write : write'[v] = IF v = w THEN e ELSE write[v]
    BY <1>3, WriteFacts
  <1>7. QED BY <1>2, <1>5, <1>6

LEMMA DisownedFacts ==
  ASSUME AlertsTypeOK
  PROVE  /\ Disowned \in Seq(Write)
         /\ DOMAIN Disowned = DOMAIN write
         /\ \A v \in DOMAIN write : Disowned[v].kind = write[v].kind /\ Disowned[v].answer = write[v].answer
  <1>1. \A v \in DOMAIN write : /\ [write[v] EXCEPT !.own = FALSE] \in Write
                                /\ [write[v] EXCEPT !.own = FALSE].kind = write[v].kind
                                /\ [write[v] EXCEPT !.own = FALSE].answer = write[v].answer
    BY WriteFacts DEF Write
  <1>2. Disowned \in [DOMAIN write -> Write]
    BY <1>1 DEF Disowned
  <1>3. Disowned \in Seq(Write) /\ DOMAIN Disowned = DOMAIN write
    BY <1>2, WriteFacts, Marking
  <1>4. \A v \in DOMAIN write : Disowned[v] = [write[v] EXCEPT !.own = FALSE]
    BY DEF Disowned
  <1>5. QED BY <1>1, <1>3, <1>4

\* refresh: one list is waited for, or the page remembers that it asked twice.
LEMMA RefreshRulesFacts ==
  ASSUME AlertsTypeOK, RefreshRules
  PROVE  /\ listing' \in Seq(Listing)
         /\ rulesLoading' \in BOOLEAN /\ rulesCrossed' \in BOOLEAN
         /\ ~rulesCrossed' =>
               /\ Len(listing') <= 1
               /\ listing' # <<>>
               /\ \A l \in DOMAIN listing' : ~listing'[l].served
  <1>1. UnservedListing \in Listing /\ UnservedListing.served = FALSE
    BY DEF UnservedListing, Listing
  <1>2. listing' = Append(listing, UnservedListing) /\ rulesCrossed' = (listing # <<>>) /\ rulesLoading' = TRUE
    BY DEF RefreshRules
  <1>3. /\ listing' \in Seq(Listing) /\ listing' # <<>> /\ Len(listing') = Len(listing) + 1
        /\ \A j \in DOMAIN listing' : listing'[j] = UnservedListing \/ (j \in DOMAIN listing /\ listing'[j] = listing[j])
    BY <1>1, <1>2, WriteFacts, Sending
  <1>4. rulesCrossed' \in BOOLEAN /\ (~rulesCrossed' => listing = <<>>)
    BY <1>2
  <1>5. ASSUME listing = <<>> PROVE Len(listing') <= 1 /\ \A l \in DOMAIN listing' : ~listing'[l].served
    <2>1. Len(listing) = 0 /\ DOMAIN listing = {}
      BY <1>5, WriteFacts
    <2>2. \A l \in DOMAIN listing' : listing'[l] = UnservedListing
      BY <1>3, <2>1
    <2>3. QED BY <1>1, <1>3, <2>1, <2>2
  <1>6. QED BY <1>2, <1>3, <1>4, <1>5

LEMMA AlertsInitInv == AlertsInit => AlertsInv
  <1> SUFFICES ASSUME AlertsInit PROVE AlertsInv
    OBVIOUS
  <1>1. UnservedListing \in Listing /\ UnservedListing.served = FALSE
    BY DEF UnservedListing, Listing
  <1>2. listing = <<UnservedListing>> /\ write = <<>>
    BY DEF AlertsInit
  <1>3. listing \in Seq(Listing) /\ DOMAIN listing = {1} /\ listing[1] = UnservedListing /\ Len(listing) = 1
    BY <1>1, <1>2
  <1>4. write \in Seq(Write) /\ DOMAIN write = {}
    BY <1>2
  <1>5. AlertsTypeOK
    BY <1>3, <1>4 DEF AlertsInit, AlertsTypeOK
  <1>6. ListIsTrue
    <2>1. listing # <<>>
      BY <1>3
    <2>2. QED BY <1>1, <1>3, <2>1 DEF ListIsTrue
  <1>7. SavesAreOwn
    BY DEF AlertsInit, SavesAreOwn
  <1>8. QED BY <1>5, <1>6, <1>7 DEF AlertsInv

\* What the service does.
LEMMA RuleServiceKeeps ==
  ASSUME AlertsInv,
         \/ OthersWriteRules
         \/ \E l \in DOMAIN listing : ServeRules(l)
         \/ \E w \in DOMAIN write : ServeWrite(w) \/ LoseWrite(w)
  PROVE  AlertsInv'
  <1> USE DEF AlertsInv
  <1>1. CASE OthersWriteRules
    BY <1>1 DEF OthersWriteRules, AlertsTypeOK, ListIsTrue, SavesAreOwn, Saving
  <1>2. CASE \E l \in DOMAIN listing : ServeRules(l)
    <2>1. PICK l \in DOMAIN listing : ServeRules(l)
      BY <1>2
    <2> DEFINE e == [served |-> TRUE, names |-> storedRules]
    <2>2. e \in Listing /\ e.names = storedRules
      BY DEF Listing, AlertsTypeOK
    <2>3. listing' = [listing EXCEPT ![l] = e] /\ rulesMissed' = FALSE
          /\ UNCHANGED <<storedRules, rules, form, write, rulesLoading, rulesCrossed>>
      BY <2>1 DEF ServeRules
    <2> HIDE DEF e
    <2>4. listing' \in [DOMAIN listing -> Listing]
      BY <2>2, <2>3, WriteFacts, LenProperties
    <2>5. listing' \in Seq(Listing) /\ DOMAIN listing' = DOMAIN listing /\ Len(listing') = Len(listing)
      BY <2>4, WriteFacts, Marking
    <2>6. AlertsTypeOK'
      BY <2>3, <2>5 DEF AlertsTypeOK
    <2>7. ListIsTrue'
      <3>1. ASSUME ~rulesCrossed PROVE \A k \in DOMAIN listing' : listing'[k] = e
        BY <3>1, <2>1, <2>3, <2>5, WriteFacts DEF ListIsTrue
      <3>2. listing' # <<>>
        BY <2>5, WriteFacts, Emptiness
      <3>3. QED BY <2>2, <2>3, <2>5, <3>1, <3>2 DEF ListIsTrue
    <2>8. SavesAreOwn'
      BY <2>3 DEF SavesAreOwn, Saving
    <2>9. QED BY <2>6, <2>7, <2>8
  <1>3. CASE \E w \in DOMAIN write : ServeWrite(w) \/ LoseWrite(w)
    <2>1. PICK w \in DOMAIN write : ServeWrite(w) \/ LoseWrite(w)
      BY <1>3
    <2>2. UNCHANGED <<rules, form, listing, rulesLoading, rulesCrossed>>
      BY <2>1 DEF ServeWrite, LoseWrite
    <2>3. PICK a \in {"done", "refused"} :
             /\ write' = [write EXCEPT ![w].answer = a]
             /\ storedRules' \subseteq RuleNames
             /\ rulesMissed' \in BOOLEAN
             /\ (a = "refused" /\ ~rulesMissed') =>
                   ~rulesMissed /\ write[w].answer # "done" /\ storedRules' = storedRules
      <3>1. CASE ServeWrite(w)
        <4> DEFINE r == write[w].rule
                   served == (write[w].kind = "create") = (r \notin storedRules)
        <4>1. r \in RuleNames
          BY WriteFacts DEF Write
        <4>2. /\ write[w].answer = "unserved"
              /\ write' = [write EXCEPT ![w].answer = IF served THEN "done" ELSE "refused"]
              /\ storedRules' = IF ~served THEN storedRules
                                ELSE IF write[w].kind = "delete" THEN storedRules \ {r}
                                ELSE storedRules \cup {r}
              /\ UNCHANGED rulesMissed
          BY <3>1 DEF ServeWrite
        <4> HIDE DEF served
        <4>3. storedRules' \subseteq RuleNames
          BY <4>1, <4>2 DEF AlertsTypeOK
        <4>4. CASE served
          BY <4>2, <4>3, <4>4 DEF AlertsTypeOK
        <4>5. CASE ~served
          BY <4>2, <4>3, <4>5 DEF AlertsTypeOK
        <4>6. QED BY <4>4, <4>5
      <3>2. CASE LoseWrite(w)
        BY <3>2 DEF LoseWrite, AlertsTypeOK
      <3>3. QED BY <2>1, <3>1, <3>2
    <2>4. /\ write' \in Seq(Write)
          /\ DOMAIN write' = DOMAIN write
          /\ \A v \in DOMAIN write :
               /\ write'[v].kind = write[v].kind /\ write'[v].own = write[v].own
               /\ write'[v].answer = IF v = w THEN a ELSE write[v].answer
      <3>1. a \in {"unserved", "done", "refused"} /\ write' = [write EXCEPT ![w].answer = a] /\ AlertsTypeOK
        BY <2>3
      <3> HIDE DEF AlertsInv
      <3>2. QED BY <3>1, WriteMarked
    <2>5. AlertsTypeOK'
      BY <2>2, <2>3, <2>4 DEF AlertsTypeOK
    <2>6. ListIsTrue'
      BY <2>2, <2>3, <2>4 DEF ListIsTrue
    <2>7. SavesAreOwn'
      BY <2>2, <2>4 DEF SavesAreOwn, Saving
    <2>8. QED BY <2>5, <2>6, <2>7
  <1>4. QED BY <1>1, <1>2, <1>3

\* The answers to the requests for the list.
LEMMA RulesAnsweredKeeps ==
  ASSUME AlertsInv, NEW l \in DOMAIN listing, RulesArrive(l) \/ RulesFail(l)
  PROVE  AlertsInv'
  <1> USE DEF AlertsInv
  <1>1. /\ listing' = RemoveAt(listing, l) /\ rulesLoading' = FALSE
        /\ UNCHANGED <<storedRules, form, write, rulesCrossed>>
    BY DEF RulesArrive, RulesFail
  <1>2. /\ listing' \in Seq(Listing) /\ Len(listing') = Len(listing) - 1
        /\ \A k \in DOMAIN listing' : \E j \in DOMAIN listing \ {l} : listing'[k] = listing[j]
    <2>1. listing \in Seq(Listing)
      BY WriteFacts
    <2>2. QED BY <1>1, <2>1, Answering
  <1>3. CASE RulesArrive(l)
    <2>1. rules' = listing[l].names /\ listing[l].served /\ UNCHANGED rulesMissed
      BY <1>3 DEF RulesArrive
    <2>2. rules' \subseteq RuleNames
      BY <2>1, WriteFacts DEF Listing
    <2>3. AlertsTypeOK'
      BY <1>1, <1>2, <2>1, <2>2 DEF AlertsTypeOK
    <2>4. ListIsTrue'
      BY <1>1, <1>2, <2>1, WriteFacts DEF ListIsTrue
    <2>5. SavesAreOwn'
      BY <1>1 DEF SavesAreOwn, Saving
    <2>6. QED BY <2>3, <2>4, <2>5
  <1>4. CASE RulesFail(l)
    <2>1. UNCHANGED rules /\ rulesMissed' = TRUE
      BY <1>4 DEF RulesFail
    <2>2. AlertsTypeOK'
      BY <1>1, <1>2, <2>1 DEF AlertsTypeOK
    <2>3. ListIsTrue'
      BY <1>1, <1>2, <2>1, WriteFacts DEF ListIsTrue
    <2>4. SavesAreOwn'
      BY <1>1 DEF SavesAreOwn, Saving
    <2>5. QED BY <2>2, <2>3, <2>4
  <1>5. QED BY <1>3, <1>4

\* A form opens, changes, or is cancelled.
LEMMA FormKeeps ==
  ASSUME AlertsInv,
         \/ TypeRule \/ CancelForm
         \/ \E r \in RuleNames \cup {New} : \E b \in BOOLEAN : OpenForm(r, b)
  PROVE  AlertsInv'
  <1> USE DEF AlertsInv
  <1>1. UNCHANGED <<storedRules, rules, listing, rulesLoading, rulesCrossed, rulesMissed>>
    BY DEF TypeRule, CancelForm, OpenForm
  <1>2. /\ write' \in Seq(Write)
        /\ DOMAIN write' = DOMAIN write
        /\ \A v \in DOMAIN write : write'[v].kind = write[v].kind /\ write'[v].answer = write[v].answer
    <2>1. write' \in {write, Disowned}
      BY DEF TypeRule, CancelForm, OpenForm
    <2>2. QED BY <2>1, WriteFacts, DisownedFacts
  <1>3. form' \in RuleForm \cup {NoForm}
    <2>1. CASE TypeRule
      <3>1. form \in RuleForm /\ form' = [form EXCEPT !.complete = ~form.complete]
        BY <2>1 DEF TypeRule, AlertsTypeOK
      <3>2. QED BY <3>1 DEF RuleForm
    <2>2. CASE CancelForm
      BY <2>2 DEF CancelForm
    <2>3. CASE \E r \in RuleNames \cup {New} : \E b \in BOOLEAN : OpenForm(r, b)
      BY <2>3 DEF OpenForm, RuleForm
    <2>4. QED BY <2>1, <2>2, <2>3
  <1>4. AlertsTypeOK'
    BY <1>1, <1>2, <1>3 DEF AlertsTypeOK
  <1>5. ListIsTrue'
    BY <1>1, <1>2 DEF ListIsTrue
  <1>6. SavesAreOwn'
    <2>1. CASE TypeRule
      <3>1. form \in RuleForm /\ form' = [form EXCEPT !.complete = ~form.complete] /\ UNCHANGED write /\ form # NoForm
        BY <2>1 DEF TypeRule, AlertsTypeOK
      <3>2. form'.hasty = form.hasty
        BY <3>1 DEF RuleForm
      <3>3. QED BY <3>1, <3>2 DEF SavesAreOwn, Saving
    <2>2. CASE CancelForm
      BY <2>2 DEF CancelForm, SavesAreOwn
    <2>3. CASE \E r \in RuleNames \cup {New} : \E b \in BOOLEAN : OpenForm(r, b)
      <3>1. ~form'.hasty => Saving = {}
        <4> DEFINE h == Saving # {}
        <4>1. PICK r \in RuleNames \cup {New}, b \in BOOLEAN : form' = [of |-> r, complete |-> b, hasty |-> h]
          BY <2>3 DEF OpenForm
        <4>2. h <=> Saving # {}
          OBVIOUS
        <4> HIDE DEF h
        <4>3. form'.hasty = h
          BY <4>1
        <4>4. QED BY <4>2, <4>3
      <3>2. Saving' = Saving
        BY <1>2 DEF Saving
      <3>3. QED BY <3>1, <3>2 DEF SavesAreOwn
    <2>4. QED BY <2>1, <2>2, <2>3
  <1>7. QED BY <1>4, <1>5, <1>6

\* A write is sent.
LEMMA WriteSent ==
  ASSUME AlertsInv, Submit \/ \E r \in RuleNames : RemoveRule(r)
  PROVE  AlertsInv'
  <1> USE DEF AlertsInv
  <1>1. UNCHANGED <<storedRules, rules, form, listing, rulesLoading, rulesCrossed, rulesMissed>>
    BY DEF Submit, RemoveRule
  <1>2. PICK e \in Write : /\ write' = Append(write, e)
                           /\ e.answer = "unserved"
                           /\ e.kind # "delete" => e.own
    <2>1. CASE Submit
      <3>1. form \in RuleForm
        BY <2>1 DEF Submit, AlertsTypeOK
      <3>2. PICK r \in IF form.of = New THEN RuleNames ELSE {form.of} :
               write' = Append(write, [kind |-> IF form.of = New THEN "create" ELSE "update",
                                       rule |-> r, own |-> TRUE, answer |-> "unserved"])
        BY <2>1 DEF Submit
      <3>3. r \in RuleNames
        BY <3>1, <3>2 DEF RuleForm
      <3> DEFINE k == IF form.of = New THEN "create" ELSE "update"
                 e == [kind |-> k, rule |-> r, own |-> TRUE, answer |-> "unserved"]
      <3>4. k \in {"create", "update", "delete"}
        OBVIOUS
      <3>5. write' = Append(write, e)
        BY <3>2
      <3> HIDE DEF k
      <3>6. e \in Write /\ e.answer = "unserved" /\ e.own
        BY <3>3, <3>4 DEF Write
      <3>7. QED BY <3>5, <3>6
    <2>2. CASE \E r \in RuleNames : RemoveRule(r)
      <3>1. PICK r \in RuleNames : RemoveRule(r)
        BY <2>2
      <3> DEFINE e == [kind |-> "delete", rule |-> r, own |-> FALSE, answer |-> "unserved"]
      <3>2. e \in Write /\ e.answer = "unserved" /\ e.kind = "delete"
        BY DEF Write
      <3>3. write' = Append(write, e)
        BY <3>1 DEF RemoveRule
      <3>4. QED BY <3>2, <3>3
    <2>3. QED BY <2>1, <2>2
  <1>3. /\ write' \in Seq(Write)
        /\ \A j \in DOMAIN write' : write'[j] = e \/ (j \in DOMAIN write /\ write'[j] = write[j])
        /\ \A j \in DOMAIN write : j \in DOMAIN write' /\ write'[j] = write[j]
    BY <1>2, WriteFacts, Sending
  <1>4. AlertsTypeOK'
    BY <1>1, <1>3 DEF AlertsTypeOK
  <1>5. ListIsTrue'
    BY <1>1, <1>3 DEF ListIsTrue
  <1>6. SavesAreOwn'
    BY <1>1, <1>2, <1>3 DEF SavesAreOwn, Saving
  <1>7. QED BY <1>4, <1>5, <1>6

\* The answer to a write: with its success, the list is asked for again.
LEMMA WriteAnswered ==
  ASSUME AlertsInv, NEW w \in DOMAIN write,
         SubmitSucceeds(w) \/ RemoveSucceeds(w) \/ WriteFails(w)
  PROVE  AlertsInv'
  <1> USE DEF AlertsInv
  <1>1. CASE SubmitSucceeds(w)
    <2>1. form' = NoForm /\ write' = RemoveAt(Disowned, w) /\ RefreshRules
          /\ UNCHANGED <<storedRules, rules, rulesMissed>>
      BY <1>1 DEF SubmitSucceeds
    <2>2. write' \in Seq(Write)
      BY <2>1, DisownedFacts, Answering
    <2>3. AlertsTypeOK'
      BY <2>1, <2>2, RefreshRulesFacts DEF AlertsTypeOK
    <2>4. ListIsTrue'
      BY <2>1, RefreshRulesFacts DEF ListIsTrue
    <2>5. SavesAreOwn'
      BY <2>1 DEF SavesAreOwn
    <2>6. QED BY <2>3, <2>4, <2>5
  <1>2. CASE RemoveSucceeds(w) \/ WriteFails(w)
    <2>1. write' = RemoveAt(write, w) /\ UNCHANGED <<storedRules, rules, form, rulesMissed>>
      BY <1>2 DEF RemoveSucceeds, WriteFails
    <2>2. /\ write' \in Seq(Write)
          /\ \A k \in DOMAIN write' : \E j \in DOMAIN write \ {w} : write'[k] = write[j]
          /\ \A j \in DOMAIN write \ {w} : \E k \in DOMAIN write' : write'[k] = write[j]
      BY <2>1, WriteFacts, Answering
    <2>3. SavesAreOwn'
      BY <2>1, <2>2 DEF SavesAreOwn, Saving
    <2>4. CASE RemoveSucceeds(w)
      <3>1. RefreshRules
        BY <2>4 DEF RemoveSucceeds
      <3>2. AlertsTypeOK'
        BY <2>1, <2>2, <3>1, RefreshRulesFacts DEF AlertsTypeOK
      <3>3. ListIsTrue'
        BY <3>1, RefreshRulesFacts DEF ListIsTrue
      <3>4. QED BY <2>3, <3>2, <3>3
    <2>5. CASE WriteFails(w)
      <3>1. write[w].answer = "refused" /\ UNCHANGED <<listing, rulesLoading, rulesCrossed>>
        BY <2>5 DEF WriteFails
      <3>2. AlertsTypeOK'
        BY <2>1, <2>2, <3>1 DEF AlertsTypeOK
      <3>3. ListIsTrue'
        <4>1. (\A k \in DOMAIN write' : write'[k].answer # "done") => \A j \in DOMAIN write : write[j].answer # "done"
          BY <2>2, <3>1
        <4>2. QED BY <2>1, <3>1, <4>1 DEF ListIsTrue
      <3>4. QED BY <2>3, <3>2, <3>3
    <2>6. QED BY <1>2, <2>4, <2>5
  <1>3. QED BY <1>1, <1>2

LEMMA AlertsStepInv == AlertsInv /\ [AlertsNext]_alertVars => AlertsInv'
  <1> SUFFICES ASSUME AlertsInv, [AlertsNext]_alertVars PROVE AlertsInv'
    OBVIOUS
  <1>1. CASE OthersWriteRules \/ \E l \in DOMAIN listing : ServeRules(l) \/ RulesArrive(l) \/ RulesFail(l)
    BY <1>1, RuleServiceKeeps, RulesAnsweredKeeps
  <1>2. CASE \E w \in DOMAIN write :
                ServeWrite(w) \/ LoseWrite(w) \/ SubmitSucceeds(w) \/ RemoveSucceeds(w) \/ WriteFails(w)
    BY <1>2, RuleServiceKeeps, WriteAnswered
  <1>3. CASE StartCreate \/ TypeRule \/ CancelForm \/ \E r \in RuleNames : StartEdit(r)
    BY <1>3, FormKeeps DEF StartCreate, StartEdit
  <1>4. CASE Submit \/ \E r \in RuleNames : RemoveRule(r)
    BY <1>4, WriteSent
  <1>5. CASE UNCHANGED alertVars
    BY <1>5 DEF alertVars, AlertsInv, AlertsTypeOK, ListIsTrue, SavesAreOwn, Saving
  <1>6. QED BY <1>1, <1>2, <1>3, <1>4, <1>5 DEF AlertsNext

\* What the invariant says to the user, of a list that waits for nothing ...
LEMMA AlertsInvImplies == AlertsInv => AlertsTypeOK /\ ListsStoredRules
  <1> SUFFICES ASSUME AlertsInv PROVE AlertsTypeOK /\ ListsStoredRules
    OBVIOUS
  <1>1. write = <<>> => DOMAIN write = {}
    OBVIOUS
  <1>2. QED BY <1>1 DEF AlertsInv, ListIsTrue, ListsStoredRules

\* ... and of the form: only a success takes it away, and that of a save of its
\* own, unless it was opened too early.
LEMMA FormStepSurvives ==
  ASSUME AlertsInv, [AlertsNext]_alertVars, form # NoForm, form' = NoForm
  PROVE  \/ CancelForm
         \/ form.hasty
         \/ \E w \in Saving : write[w].own /\ write' = RemoveAt(Disowned, w)
  <1>1. form' # form
    OBVIOUS
  <1>2. ASSUME NEW r \in RuleNames \cup {New}, NEW b \in BOOLEAN, OpenForm(r, b) PROVE FALSE
    <2>1. form' \in RuleForm
      BY <1>2 DEF OpenForm, RuleForm
    <2>2. QED BY <2>1, AlertAssumption
  <1>3. ASSUME TypeRule PROVE FALSE
    <2>1. form \in RuleForm /\ form' = [form EXCEPT !.complete = ~form.complete]
      BY <1>3 DEF TypeRule, AlertsInv, AlertsTypeOK
    <2>2. form' \in RuleForm
      BY <2>1 DEF RuleForm
    <2>3. QED BY <2>2, AlertAssumption
  <1>4. ASSUME NEW w \in DOMAIN write, SubmitSucceeds(w), ~form.hasty
        PROVE  w \in Saving /\ write[w].own /\ write' = RemoveAt(Disowned, w)
    BY <1>4 DEF SubmitSucceeds, AlertsInv, SavesAreOwn
  <1>5. CancelForm \/ \E w \in DOMAIN write : SubmitSucceeds(w)
    BY <1>1, <1>2, <1>3
    DEF AlertsNext, alertVars, OthersWriteRules, ServeRules, RulesArrive, RulesFail, ServeWrite, LoseWrite,
        RemoveSucceeds, WriteFails, StartCreate, StartEdit, Submit, RemoveRule
  <1>6. QED BY <1>4, <1>5

-----------------------------------------------------------------------------
(* The page of tokens.                                                      *)

\* As with the alert rules: one list is waited for at most, and it, or the one
\* shown, is the stored one.
TokenListIsTrue ==
    ~tokensCrossed =>
        /\ Len(tokenLoad) <= 1
        /\ (/\ ~tokensMissed
            /\ create # NoToken => create.answer # "done"
            /\ \A d \in DOMAIN delete : delete[d].answer # "done") =>
              /\ tokenLoad = <<>> => tokens = storedTokens
              /\ \A l \in DOMAIN tokenLoad : tokenLoad[l].served => tokenLoad[l].ids = storedTokens

\* What is under way was sent from the dialog that is open, unless that was
\* opened while something was; and a token is unseen only where no dialog is.
DialogsOwn ==
    /\ (createModal /\ ~hastyCreate /\ create # NoToken) => create.own
    /\ (deleteTarget # NoToken /\ ~hastyDelete) => \A d \in DOMAIN delete : delete[d].own
    /\ createdToken = "unseen" => ~createModal

TokensInv == TokensTypeOK /\ TokenListIsTrue /\ DialogsOwn

LEMMA TokenFacts ==
  ASSUME TokensTypeOK
  PROVE  /\ delete \in Seq(Delete) /\ tokenLoad \in Seq(TokenList)
         /\ \A d \in DOMAIN delete : delete[d] \in Delete
         /\ \A l \in DOMAIN tokenLoad : tokenLoad[l] \in TokenList
         /\ tokenLoad = <<>> <=> DOMAIN tokenLoad = {}
         /\ delete = <<>> <=> DOMAIN delete = {}
         /\ Len(tokenLoad) \in Nat /\ DOMAIN tokenLoad = 1..Len(tokenLoad)
         /\ tokenLoad = <<>> <=> Len(tokenLoad) = 0
         /\ create # NoToken => create \in Create
  BY Emptiness DEF TokensTypeOK

LEMMA OrphanedFacts ==
  ASSUME TokensTypeOK
  PROVE  Orphaned \in Seq(Delete) /\ DOMAIN Orphaned = DOMAIN delete
  <1>1. \A d \in DOMAIN delete : [delete[d] EXCEPT !.own = FALSE] \in Delete
    BY TokenFacts DEF Delete
  <1>2. Orphaned \in [DOMAIN delete -> Delete]
    BY <1>1 DEF Orphaned
  <1>3. QED BY <1>2, TokenFacts, Marking

LEMMA OrphanedAnswers ==
  ASSUME TokensTypeOK
  PROVE  \A d \in DOMAIN delete : Orphaned[d].answer = delete[d].answer
  <1>1. \A d \in DOMAIN delete : [delete[d] EXCEPT !.own = FALSE].answer = delete[d].answer
    BY TokenFacts DEF Delete
  <1>2. QED BY <1>1 DEF Orphaned

\* loadTokens: as refresh.
LEMMA LoadTokensFacts ==
  ASSUME TokensTypeOK, LoadTokens
  PROVE  /\ tokenLoad' \in Seq(TokenList)
         /\ tokensCrossed' \in BOOLEAN
         /\ ~tokensCrossed' =>
               /\ Len(tokenLoad') <= 1
               /\ tokenLoad' # <<>>
               /\ \A l \in DOMAIN tokenLoad' : ~tokenLoad'[l].served
  <1>1. UnservedList \in TokenList /\ UnservedList.served = FALSE
    BY DEF UnservedList, TokenList
  <1>2. tokenLoad' = Append(tokenLoad, UnservedList) /\ tokensCrossed' = (tokenLoad # <<>>)
    BY DEF LoadTokens
  <1>3. /\ tokenLoad' \in Seq(TokenList) /\ tokenLoad' # <<>> /\ Len(tokenLoad') = Len(tokenLoad) + 1
        /\ \A j \in DOMAIN tokenLoad' :
              tokenLoad'[j] = UnservedList \/ (j \in DOMAIN tokenLoad /\ tokenLoad'[j] = tokenLoad[j])
    BY <1>1, <1>2, TokenFacts, Sending
  <1>4. tokensCrossed' \in BOOLEAN /\ (~tokensCrossed' => tokenLoad = <<>>)
    BY <1>2
  <1>5. ASSUME tokenLoad = <<>> PROVE Len(tokenLoad') <= 1 /\ \A l \in DOMAIN tokenLoad' : ~tokenLoad'[l].served
    <2>1. Len(tokenLoad) = 0 /\ DOMAIN tokenLoad = {}
      BY <1>5, TokenFacts
    <2>2. \A l \in DOMAIN tokenLoad' : tokenLoad'[l] = UnservedList
      BY <1>3, <2>1
    <2>3. QED BY <1>1, <1>3, <2>1, <2>2
  <1>6. QED BY <1>3, <1>4, <1>5

LEMMA TokensInitInv == TokensInit => TokensInv
  <1> SUFFICES ASSUME TokensInit PROVE TokensInv
    OBVIOUS
  <1>1. UnservedList \in TokenList /\ UnservedList.served = FALSE
    BY DEF UnservedList, TokenList
  <1>2. tokenLoad = <<UnservedList>> /\ delete = <<>>
    BY DEF TokensInit
  <1>3. tokenLoad \in Seq(TokenList) /\ DOMAIN tokenLoad = {1} /\ tokenLoad[1] = UnservedList /\ Len(tokenLoad) = 1
    BY <1>1, <1>2
  <1>4. delete \in Seq(Delete) /\ DOMAIN delete = {}
    BY <1>2
  <1>5. TokensTypeOK
    BY <1>3, <1>4 DEF TokensInit, TokensTypeOK
  <1>6. TokenListIsTrue
    <2>1. tokenLoad # <<>>
      BY <1>3
    <2>2. QED BY <1>1, <1>3, <2>1 DEF TokenListIsTrue
  <1>7. DialogsOwn
    BY DEF TokensInit, DialogsOwn
  <1>8. QED BY <1>5, <1>6, <1>7 DEF TokensInv

\* The list, as the service and the page see it.
LEMMA TokenListKeeps ==
  ASSUME TokensInv,
         \/ OthersWriteTokens
         \/ \E l \in DOMAIN tokenLoad : ServeTokens(l) \/ TokensArrive(l) \/ TokensFail(l)
  PROVE  TokensInv'
  <1> USE DEF TokensInv
  <1>1. UNCHANGED <<createUI, deleteUI>>
    BY DEF OthersWriteTokens, ServeTokens, TokensArrive, TokensFail
  <1>2. UNCHANGED <<createModal, createdToken, create, hastyCreate, deleteTarget, confirmed, delete, hastyDelete>>
    BY <1>1 DEF createUI, deleteUI
  <1>3. DialogsOwn'
    BY <1>2 DEF DialogsOwn
  <1>4. CASE OthersWriteTokens
    BY <1>2, <1>3, <1>4 DEF OthersWriteTokens, TokensTypeOK, TokenListIsTrue
  <1>5. CASE \E l \in DOMAIN tokenLoad : ServeTokens(l)
    <2>1. PICK l \in DOMAIN tokenLoad : ServeTokens(l)
      BY <1>5
    <2> DEFINE e == [served |-> TRUE, ids |-> storedTokens]
    <2>2. e \in TokenList /\ e.ids = storedTokens
      BY DEF TokenList, TokensTypeOK
    <2>3. tokenLoad' = [tokenLoad EXCEPT ![l] = e] /\ tokensMissed' = FALSE
          /\ UNCHANGED <<storedTokens, tokens, tokensCrossed>>
      BY <2>1 DEF ServeTokens
    <2> HIDE DEF e
    <2>4. tokenLoad' \in [DOMAIN tokenLoad -> TokenList]
      BY <2>2, <2>3, TokenFacts, LenProperties
    <2>5. tokenLoad' \in Seq(TokenList) /\ DOMAIN tokenLoad' = DOMAIN tokenLoad /\ Len(tokenLoad') = Len(tokenLoad)
      BY <2>4, TokenFacts, Marking
    <2>6. TokensTypeOK'
      BY <1>2, <2>3, <2>5 DEF TokensTypeOK
    <2>7. TokenListIsTrue'
      <3>1. ASSUME ~tokensCrossed PROVE \A k \in DOMAIN tokenLoad' : tokenLoad'[k] = e
        BY <3>1, <2>1, <2>3, <2>5, TokenFacts DEF TokenListIsTrue
      <3>2. tokenLoad' # <<>>
        BY <2>5, TokenFacts, Emptiness
      <3>3. QED BY <2>2, <2>3, <2>5, <3>1, <3>2 DEF TokenListIsTrue
    <2>8. QED BY <1>3, <2>6, <2>7
  <1>6. CASE \E l \in DOMAIN tokenLoad : TokensArrive(l) \/ TokensFail(l)
    <2>1. PICK l \in DOMAIN tokenLoad : TokensArrive(l) \/ TokensFail(l)
      BY <1>6
    <2>2. tokenLoad' = RemoveAt(tokenLoad, l) /\ UNCHANGED <<storedTokens, tokensCrossed>>
      BY <2>1 DEF TokensArrive, TokensFail
    <2>3. tokenLoad \in Seq(TokenList)
      BY TokenFacts
    <2>4. tokenLoad' \in Seq(TokenList) /\ Len(tokenLoad') = Len(tokenLoad) - 1
      BY <2>2, <2>3, Answering
    <2>5. \/ tokens' = tokenLoad[l].ids /\ tokenLoad[l].served /\ UNCHANGED tokensMissed
          \/ UNCHANGED tokens /\ tokensMissed' = TRUE
      BY <2>1 DEF TokensArrive, TokensFail
    <2>6. tokens' \subseteq Ids /\ tokensMissed' \in BOOLEAN
      BY <2>5, TokenFacts DEF TokensTypeOK, TokenList
    <2>7. TokensTypeOK'
      BY <1>2, <2>2, <2>4, <2>6 DEF TokensTypeOK
    <2>8. ASSUME ~tokensCrossed PROVE Len(tokenLoad) = 1 /\ Len(tokenLoad') = 0 /\ DOMAIN tokenLoad' = {}
      BY <2>3, <2>4, <2>8, TokenFacts, Emptiness DEF TokenListIsTrue
    <2>9. TokenListIsTrue'
      BY <1>2, <2>2, <2>5, <2>8 DEF TokenListIsTrue
    <2>10. QED BY <1>3, <2>7, <2>9
  <1>7. QED BY <1>4, <1>5, <1>6

\* The dialog that creates a token, and its request.
LEMMA CreateMarked ==
  ASSUME TokensTypeOK, create # NoToken, NEW a \in {"unserved", "done", "refused"}, NEW o \in BOOLEAN
  PROVE  /\ [create EXCEPT !.answer = a] \in Create
         /\ [create EXCEPT !.answer = a].answer = a
         /\ [create EXCEPT !.answer = a].own = create.own
         /\ [create EXCEPT !.own = o] \in Create
         /\ [create EXCEPT !.own = o].answer = create.answer
  <1>1. create \in Create
    BY TokenFacts
  <1>2. QED BY <1>1 DEF Create

LEMMA CreateKeeps ==
  ASSUME TokensInv,
         ServeCreate \/ CreateRefused \/ OpenCreate \/ CloseCreate \/ PressCreate \/ CreateSucceeds \/ CreateFails
  PROVE  TokensInv'
  <1> USE DEF TokensInv
  <1>1. NoToken \notin Create
    BY TokenAssumption
  <1>2. UNCHANGED <<deleteTarget, confirmed, delete, hastyDelete, tokens>>
    BY DEF ServeCreate, CreateRefused, OpenCreate, CloseCreate, PressCreate, CreateSucceeds, CreateFails,
           deleteUI, listUI
  <1>3. CASE ServeCreate \/ CreateRefused
    <2>1. /\ create # NoToken
          /\ UNCHANGED <<createModal, createdToken, hastyCreate, tokenLoad, tokensCrossed>>
      BY <1>3 DEF ServeCreate, CreateRefused, listUI
    <2>2. PICK a \in {"done", "refused"} : create' = [create EXCEPT !.answer = a]
      BY <1>3 DEF ServeCreate, CreateRefused
    <2>3. create' \in Create /\ create'.answer = a /\ create'.own = create.own
      BY <2>1, <2>2, CreateMarked
    <2>4. CASE ServeCreate
      <3>1. storedTokens' \subseteq Ids /\ UNCHANGED tokensMissed /\ create'.answer = "done"
        BY <2>1, <2>4, CreateMarked DEF ServeCreate, TokensTypeOK, listUI
      <3>2. TokensTypeOK'
        BY <1>2, <2>1, <2>3, <3>1 DEF TokensTypeOK
      <3>3. TokenListIsTrue'
        BY <1>1, <2>1, <2>3, <3>1 DEF TokenListIsTrue
      <3>4. DialogsOwn'
        BY <1>2, <2>1, <2>3 DEF DialogsOwn
      <3>5. QED BY <3>2, <3>3, <3>4
    <2>5. CASE CreateRefused
      <3>1. UNCHANGED storedTokens /\ tokensMissed' = (tokensMissed \/ create.answer = "done")
        BY <2>5 DEF CreateRefused
      <3>2. TokensTypeOK'
        BY <1>2, <2>1, <2>3, <3>1 DEF TokensTypeOK
      <3>3. TokenListIsTrue'
        BY <1>2, <2>1, <3>1 DEF TokenListIsTrue
      <3>4. DialogsOwn'
        BY <1>2, <2>1, <2>3 DEF DialogsOwn
      <3>5. QED BY <3>2, <3>3, <3>4
    <2>6. QED BY <1>3, <2>4, <2>5
  <1>4. CASE OpenCreate
    <2>1. /\ createModal' = TRUE
          /\ createdToken' = IF createdToken = "none" THEN "none" ELSE "seen"
          /\ hastyCreate' = (create # NoToken)
          /\ UNCHANGED <<storedTokens, create, tokenLoad, tokensCrossed, tokensMissed>>
      BY <1>4 DEF OpenCreate, listUI
    <2>2. TokensTypeOK'
      BY <1>2, <2>1 DEF TokensTypeOK
    <2>3. TokenListIsTrue'
      BY <1>2, <2>1 DEF TokenListIsTrue
    <2>4. DialogsOwn'
      BY <1>2, <2>1 DEF DialogsOwn
    <2>5. QED BY <2>2, <2>3, <2>4
  <1>5. CASE CloseCreate
    <2>1. /\ createModal' = FALSE /\ createdToken' = "none"
          /\ create' = IF create = NoToken THEN NoToken ELSE [create EXCEPT !.own = FALSE]
          /\ UNCHANGED <<storedTokens, hastyCreate, tokenLoad, tokensCrossed, tokensMissed>>
      BY <1>5 DEF CloseCreate, listUI
    <2>2. /\ create' \in Create \cup {NoToken}
          /\ create' # NoToken <=> create # NoToken
          /\ create # NoToken => create'.answer = create.answer
      BY <1>1, <2>1, CreateMarked
    <2>3. TokensTypeOK'
      BY <1>2, <2>1, <2>2 DEF TokensTypeOK
    <2>4. TokenListIsTrue'
      BY <1>2, <2>1, <2>2 DEF TokenListIsTrue
    <2>5. DialogsOwn'
      BY <1>2, <2>1 DEF DialogsOwn
    <2>6. QED BY <2>3, <2>4, <2>5
  <1>6. CASE PressCreate
    <2>1. /\ create' = [answer |-> "unserved", own |-> TRUE]
          /\ create = NoToken
          /\ UNCHANGED <<storedTokens, createModal, createdToken, hastyCreate, tokenLoad, tokensCrossed, tokensMissed>>
      BY <1>6 DEF PressCreate, listUI
    <2>2. create' \in Create /\ create'.answer = "unserved" /\ create'.own
      BY <2>1 DEF Create
    <2>3. TokensTypeOK'
      BY <1>2, <2>1, <2>2 DEF TokensTypeOK
    <2>4. TokenListIsTrue'
      BY <1>2, <2>1, <2>2 DEF TokenListIsTrue
    <2>5. DialogsOwn'
      BY <1>2, <2>1, <2>2 DEF DialogsOwn
    <2>6. QED BY <2>3, <2>4, <2>5
  <1>7. CASE CreateSucceeds
    <2>1. /\ createdToken' = IF createModal THEN "seen" ELSE "unseen"
          /\ create' = NoToken
          /\ LoadTokens
          /\ UNCHANGED <<storedTokens, createModal, hastyCreate, tokensMissed>>
      BY <1>7 DEF CreateSucceeds
    <2>2. TokensTypeOK'
      BY <1>2, <2>1, LoadTokensFacts DEF TokensTypeOK
    <2>3. TokenListIsTrue'
      BY <2>1, LoadTokensFacts DEF TokenListIsTrue
    <2>4. DialogsOwn'
      BY <1>2, <2>1 DEF DialogsOwn
    <2>5. QED BY <2>2, <2>3, <2>4
  <1>8. CASE CreateFails
    <2>1. /\ create # NoToken /\ create.answer = "refused" /\ create' = NoToken
          /\ UNCHANGED <<storedTokens, createModal, createdToken, hastyCreate, tokenLoad, tokensCrossed, tokensMissed>>
      BY <1>8 DEF CreateFails, listUI
    <2>2. TokensTypeOK'
      BY <1>2, <2>1 DEF TokensTypeOK
    <2>3. TokenListIsTrue'
      BY <1>2, <2>1 DEF TokenListIsTrue
    <2>4. DialogsOwn'
      BY <1>2, <2>1 DEF DialogsOwn
    <2>5. QED BY <2>2, <2>3, <2>4
  <1>9. QED BY <1>3, <1>4, <1>5, <1>6, <1>7, <1>8

\* The dialog that deletes a token, and its requests.
LEMMA DeleteDialogKeeps ==
  ASSUME TokensInv, Confirm \/ CloseDelete \/ PressDelete \/ \E i \in Ids : OpenDelete(i)
  PROVE  TokensInv'
  <1> USE DEF TokensInv
  <1>1. UNCHANGED <<storedTokens, tokens, tokenLoad, tokensCrossed, tokensMissed, createModal, createdToken, create, hastyCreate>>
    BY DEF Confirm, CloseDelete, PressDelete, OpenDelete, createUI, listUI
  <1>2. CASE Confirm \/ \E i \in Ids : OpenDelete(i)
    <2>1. UNCHANGED delete /\ confirmed' \in BOOLEAN /\ deleteTarget' \in Ids \cup {NoToken} /\ hastyDelete' \in BOOLEAN
          /\ (UNCHANGED <<deleteTarget, hastyDelete>> \/ (~hastyDelete' => delete = <<>>))
      BY <1>2 DEF Confirm, OpenDelete, TokensTypeOK
    <2>2. TokensTypeOK'
      BY <1>1, <2>1 DEF TokensTypeOK
    <2>3. TokenListIsTrue'
      BY <1>1, <2>1 DEF TokenListIsTrue
    <2>4. DialogsOwn'
      BY <1>1, <2>1, TokenFacts DEF DialogsOwn
    <2>5. QED BY <2>2, <2>3, <2>4
  <1>3. CASE CloseDelete
    <2>1. deleteTarget' = NoToken /\ confirmed' = FALSE /\ delete' = Orphaned /\ UNCHANGED hastyDelete
      BY <1>3 DEF CloseDelete
    <2>2. TokensTypeOK'
      BY <1>1, <2>1, OrphanedFacts DEF TokensTypeOK
    <2>3. TokenListIsTrue'
      BY <1>1, <2>1, OrphanedFacts, OrphanedAnswers DEF TokenListIsTrue
    <2>4. DialogsOwn'
      BY <1>1, <2>1 DEF DialogsOwn
    <2>5. QED BY <2>2, <2>3, <2>4
  <1>4. CASE PressDelete
    <2> DEFINE e == [id |-> deleteTarget, answer |-> "unserved", own |-> TRUE]
    <2>1. e \in Delete /\ e.answer = "unserved" /\ e.own
      BY <1>4 DEF PressDelete, TokensTypeOK, Delete
    <2>2. delete' = Append(delete, e) /\ UNCHANGED <<deleteTarget, confirmed, hastyDelete>>
      BY <1>4 DEF PressDelete
    <2> HIDE DEF e
    <2>3. /\ delete' \in Seq(Delete)
          /\ \A j \in DOMAIN delete' : delete'[j] = e \/ (j \in DOMAIN delete /\ delete'[j] = delete[j])
          /\ \A j \in DOMAIN delete : j \in DOMAIN delete' /\ delete'[j] = delete[j]
      BY <2>1, <2>2, TokenFacts, Sending
    <2>4. TokensTypeOK'
      BY <1>1, <2>2, <2>3 DEF TokensTypeOK
    <2>5. TokenListIsTrue'
      BY <1>1, <2>1, <2>3 DEF TokenListIsTrue
    <2>6. DialogsOwn'
      BY <1>1, <2>1, <2>2, <2>3 DEF DialogsOwn
    <2>7. QED BY <2>4, <2>5, <2>6
  <1>5. QED BY <1>2, <1>3, <1>4

LEMMA DeletionsKeep ==
  ASSUME TokensInv, NEW d \in DOMAIN delete, ServeDelete(d) \/ DeleteAnswered(d) \/ DeleteLost(d)
  PROVE  TokensInv'
  <1> USE DEF TokensInv
  <1>1. UNCHANGED <<tokens, createModal, createdToken, create, hastyCreate, hastyDelete>>
    BY DEF ServeDelete, DeleteAnswered, DeleteLost, createUI, listUI
  <1>2. delete \in Seq(Delete)
    BY TokenFacts
  <1>3. CASE ServeDelete(d)
    <2> DEFINE e == [delete[d] EXCEPT !.answer = "done"]
    <2>1. e \in Delete /\ e.answer = "done" /\ e.own = delete[d].own
      BY TokenFacts DEF Delete
    <2>2. /\ delete' = [delete EXCEPT ![d] = e]
          /\ storedTokens' \in {storedTokens, storedTokens \ {delete[d].id}}
          /\ UNCHANGED <<deleteTarget, confirmed, tokenLoad, tokensCrossed, tokensMissed>>
      BY <1>3 DEF ServeDelete, listUI
    <2> HIDE DEF e
    <2>3. delete' \in [DOMAIN delete -> Delete]
      BY <2>1, <2>2, TokenFacts, LenProperties
    <2>4. delete' \in Seq(Delete) /\ DOMAIN delete' = DOMAIN delete
      BY <1>2, <2>3, Marking
    <2>5. delete'[d] = e /\ \A j \in DOMAIN delete : j # d => delete'[j] = delete[j]
      BY <2>2
    <2>6. TokensTypeOK'
      BY <1>1, <2>2, <2>4 DEF TokensTypeOK
    <2>7. TokenListIsTrue'
      BY <1>1, <2>1, <2>2, <2>4, <2>5 DEF TokenListIsTrue
    <2>8. DialogsOwn'
      BY <1>1, <2>1, <2>2, <2>4, <2>5 DEF DialogsOwn
    <2>9. QED BY <2>6, <2>7, <2>8
  <1>4. CASE DeleteAnswered(d)
    <2>1. /\ deleteTarget' = NoToken /\ confirmed' = FALSE
          /\ delete' = RemoveAt(Orphaned, d)
          /\ LoadTokens /\ UNCHANGED <<storedTokens, tokensMissed>>
      BY <1>4 DEF DeleteAnswered
    <2>2. delete' \in Seq(Delete)
      BY <2>1, OrphanedFacts, Answering
    <2>3. TokensTypeOK'
      BY <1>1, <2>1, <2>2, LoadTokensFacts DEF TokensTypeOK
    <2>4. TokenListIsTrue'
      BY <2>1, LoadTokensFacts DEF TokenListIsTrue
    <2>5. DialogsOwn'
      BY <1>1, <2>1 DEF DialogsOwn
    <2>6. QED BY <2>3, <2>4, <2>5
  <1>5. CASE DeleteLost(d)
    <2>1. /\ tokensMissed' = (tokensMissed \/ delete[d].answer = "done")
          /\ delete' = RemoveAt(delete, d)
          /\ UNCHANGED <<storedTokens, deleteTarget, confirmed, tokenLoad, tokensCrossed>>
      BY <1>5 DEF DeleteLost
    <2>2. /\ delete' \in Seq(Delete)
          /\ \A k \in DOMAIN delete' : \E j \in DOMAIN delete \ {d} : delete'[k] = delete[j]
          /\ \A j \in DOMAIN delete \ {d} : \E k \in DOMAIN delete' : delete'[k] = delete[j]
      BY <1>2, <2>1, Answering
    <2>3. TokensTypeOK'
      BY <1>1, <2>1, <2>2 DEF TokensTypeOK
    <2>4. TokenListIsTrue'
      <3>1. (~tokensMissed' /\ \A k \in DOMAIN delete' : delete'[k].answer # "done")
              => ~tokensMissed /\ \A j \in DOMAIN delete : delete[j].answer # "done"
        BY <2>1, <2>2
      <3>2. QED BY <1>1, <2>1, <3>1 DEF TokenListIsTrue
    <2>5. DialogsOwn'
      BY <1>1, <2>1, <2>2 DEF DialogsOwn
    <2>6. QED BY <2>3, <2>4, <2>5
  <1>6. QED BY <1>3, <1>4, <1>5

LEMMA TokensStepInv == TokensInv /\ [TokensNext]_tokenVars => TokensInv'
  <1> SUFFICES ASSUME TokensInv, [TokensNext]_tokenVars PROVE TokensInv'
    OBVIOUS
  <1>1. CASE OthersWriteTokens \/ \E l \in DOMAIN tokenLoad : ServeTokens(l) \/ TokensArrive(l) \/ TokensFail(l)
    BY <1>1, TokenListKeeps
  <1>2. CASE ServeCreate \/ CreateRefused \/ OpenCreate \/ CloseCreate \/ PressCreate \/ CreateSucceeds \/ CreateFails
    BY <1>2, CreateKeeps
  <1>3. CASE Confirm \/ CloseDelete \/ PressDelete \/ \E i \in Ids : OpenDelete(i)
    BY <1>3, DeleteDialogKeeps
  <1>4. CASE \E d \in DOMAIN delete : ServeDelete(d) \/ DeleteAnswered(d) \/ DeleteLost(d)
    BY <1>4, DeletionsKeep
  <1>5. CASE UNCHANGED tokenVars
    BY <1>5 DEF tokenVars, createUI, deleteUI, listUI, TokensInv, TokensTypeOK, TokenListIsTrue, DialogsOwn
  <1>6. QED BY <1>1, <1>2, <1>3, <1>4, <1>5 DEF TokensNext

\* What the invariant says to the user, of a list that waits for nothing, ...
LEMMA TokensInvImplies == TokensInv => TokensTypeOK /\ ListsStoredTokens
  <1> SUFFICES ASSUME TokensInv PROVE TokensTypeOK /\ ListsStoredTokens
    OBVIOUS
  <1>1. delete = <<>> => DOMAIN delete = {}
    OBVIOUS
  <1>2. QED BY <1>1 DEF TokensInv, TokenListIsTrue, ListsStoredTokens

\* ... of a token that is not seen yet ...
LEMMA TokenStepIsSeen ==
  ASSUME TokensInv, [TokensNext]_tokenVars, createdToken = "unseen"
  PROVE  createdToken' # "none"
  <1>1. ~createModal
    BY DEF TokensInv, DialogsOwn
  <1>2. QED
    BY <1>1 DEF TokensNext, tokenVars, createUI, deleteUI, listUI, OthersWriteTokens, ServeTokens, ServeCreate,
       CreateRefused, ServeDelete, TokensArrive, TokensFail, OpenCreate, CloseCreate, PressCreate, CreateSucceeds,
       CreateFails, OpenDelete, Confirm, CloseDelete, PressDelete, DeleteAnswered, DeleteLost

\* ... and of the dialogs.
LEMMA DialogStepSurvives ==
  ASSUME TokensInv, [TokensNext]_tokenVars
  PROVE  /\ (createModal /\ createdToken = "none" /\ createdToken' # "none") =>
               hastyCreate \/ (create # NoToken /\ create.own)
         /\ (deleteTarget # NoToken /\ deleteTarget' = NoToken) =>
               \/ CloseDelete
               \/ hastyDelete
               \/ \E d \in DOMAIN delete : delete[d].own /\ delete' = RemoveAt(Orphaned, d)
  <1>1. ASSUME createModal, createdToken = "none", createdToken' # "none" PROVE CreateSucceeds
    BY <1>1 DEF TokensNext, tokenVars, createUI, deleteUI, listUI, OthersWriteTokens, ServeTokens, ServeCreate,
       CreateRefused, ServeDelete, TokensArrive, TokensFail, OpenCreate, CloseCreate, PressCreate,
       CreateFails, OpenDelete, Confirm, CloseDelete, PressDelete, DeleteAnswered, DeleteLost
  <1>2. ASSUME deleteTarget # NoToken, deleteTarget' = NoToken
        PROVE  CloseDelete \/ \E d \in DOMAIN delete : DeleteAnswered(d)
    BY <1>2 DEF TokensNext, tokenVars, createUI, deleteUI, listUI, OthersWriteTokens, ServeTokens, ServeCreate,
       CreateRefused, ServeDelete, TokensArrive, TokensFail, OpenCreate, CloseCreate, PressCreate,
       CreateSucceeds, CreateFails, OpenDelete, Confirm, PressDelete, DeleteLost
  <1>3. createModal /\ CreateSucceeds => hastyCreate \/ (create # NoToken /\ create.own)
    BY DEF CreateSucceeds, TokensInv, DialogsOwn
  <1>4. ASSUME NEW d \in DOMAIN delete, DeleteAnswered(d), deleteTarget # NoToken
        PROVE  hastyDelete \/ (delete[d].own /\ delete' = RemoveAt(Orphaned, d))
    BY <1>4 DEF DeleteAnswered, TokensInv, DialogsOwn
  <1>5. QED BY <1>1, <1>2, <1>3, <1>4

-----------------------------------------------------------------------------
(* The page of clusters.                                                    *)

\* Step 2 has a name, and every registration under way was sent from it, unless
\* it was opened while another was.
RegistrationsAreOwn ==
    step = 2 =>
        /\ draft # NoCluster
        /\ ~hastyStep => \A i \in DOMAIN registering : registering[i].own

ClustersInv == ClustersTypeOK /\ RegistrationsAreOwn

LEMMA ClusterFacts ==
  ASSUME ClustersTypeOK
  PROVE  /\ polls \in Seq(Poll) /\ registering \in Seq(Registering)
         /\ \A i \in DOMAIN polls : polls[i] \in Poll
         /\ \A i \in DOMAIN registering : registering[i] \in Registering
         /\ registering = <<>> <=> DOMAIN registering = {}
  BY Emptiness DEF ClustersTypeOK

LEMMA DetachedFacts ==
  ASSUME ClustersTypeOK
  PROVE  Detached \in Seq(Registering) /\ DOMAIN Detached = DOMAIN registering
  <1>1. \A i \in DOMAIN registering : [registering[i] EXCEPT !.own = FALSE] \in Registering
    BY ClusterFacts DEF Registering
  <1>2. Detached \in [DOMAIN registering -> Registering]
    BY <1>1 DEF Detached
  <1>3. QED BY <1>2, ClusterFacts, Marking

LEMMA NothingIsNoAnswer == Nothing \in [ok : BOOLEAN, names : SUBSET ClusterNames]
  BY DEF Nothing

\* fetchClusters sends one more poll.
LEMMA FetchClustersFacts ==
  ASSUME ClustersTypeOK, FetchClusters
  PROVE  polls' \in Seq(Poll)
  <1>1. UnservedPoll \in Poll
    BY NothingIsNoAnswer DEF UnservedPoll, Poll
  <1>2. QED BY <1>1, ClusterFacts, Sending DEF FetchClusters

LEMMA ClustersInitInv == ClustersInit => ClustersInv
  <1> SUFFICES ASSUME ClustersInit PROVE ClustersInv
    OBVIOUS
  <1>1. UnservedPoll \in Poll
    BY NothingIsNoAnswer DEF UnservedPoll, Poll
  <1>2. polls \in Seq(Poll)
    BY <1>1 DEF ClustersInit
  <1>3. registering \in Seq(Registering)
    BY DEF ClustersInit
  <1>4. ClustersTypeOK
    BY <1>2, <1>3 DEF ClustersInit, ClustersTypeOK
  <1>5. RegistrationsAreOwn
    BY DEF ClustersInit, RegistrationsAreOwn
  <1>6. QED BY <1>4, <1>5 DEF ClustersInv

\* The list: what it polls, and how the answers fill it.
LEMMA PollKeeps ==
  ASSUME ClustersInv,
         \/ OthersRegister \/ Scrape \/ PollAgain
         \/ \E i \in DOMAIN polls : ServePoll(i) \/ PollArrives(i)
  PROVE  ClustersInv'
  <1> USE DEF ClustersInv
  <1>1. UNCHANGED <<step, draft, registering, hastyStep, doomed, deletion>>
    BY DEF OthersRegister, Scrape, PollAgain, ServePoll, PollArrives, wizardUI, dialogUI
  <1>2. RegistrationsAreOwn'
    BY <1>1 DEF RegistrationsAreOwn
  <1>3. CASE OthersRegister \/ Scrape
    BY <1>1, <1>2, <1>3 DEF OthersRegister, Scrape, rowUI, ClustersTypeOK
  <1>4. CASE PollAgain
    <2>1. polls' \in Seq(Poll) /\ UNCHANGED <<registered, synced, rowUI>>
      BY <1>4, FetchClustersFacts DEF PollAgain
    <2>2. QED BY <1>1, <1>2, <2>1 DEF rowUI, ClustersTypeOK
  <1>5. CASE \E i \in DOMAIN polls : ServePoll(i)
    <2>1. PICK i \in DOMAIN polls : ServePoll(i)
      BY <1>5
    <2>2. PICK r \in BOOLEAN, s \in BOOLEAN :
             polls' = [polls EXCEPT ![i] =
                 [served |-> TRUE,
                  registered |-> IF r THEN [ok |-> TRUE, names |-> registered] ELSE Nothing,
                  synced |-> IF s THEN [ok |-> TRUE, names |-> synced] ELSE Nothing]]
      BY <2>1 DEF ServePoll
    <2> DEFINE a == IF r THEN [ok |-> TRUE, names |-> registered] ELSE Nothing
               b == IF s THEN [ok |-> TRUE, names |-> synced] ELSE Nothing
               e == [served |-> TRUE, registered |-> a, synced |-> b]
    <2>3. a \in [ok : BOOLEAN, names : SUBSET ClusterNames] /\ b \in [ok : BOOLEAN, names : SUBSET ClusterNames]
      BY NothingIsNoAnswer DEF ClustersTypeOK
    <2>4. polls' = [polls EXCEPT ![i] = e]
      BY <2>2
    <2> HIDE DEF a, b
    <2>5. e \in Poll
      BY <2>3 DEF Poll
    <2> HIDE DEF e
    <2>6. polls' \in [DOMAIN polls -> Poll]
      BY <2>4, <2>5, ClusterFacts, LenProperties
    <2>7. polls' \in Seq(Poll)
      BY <2>6, ClusterFacts, Marking
    <2>8. UNCHANGED <<registered, synced, rowUI>>
      BY <2>1 DEF ServePoll
    <2>9. QED BY <1>1, <1>2, <2>7, <2>8 DEF rowUI, ClustersTypeOK
  <1>6. CASE \E i \in DOMAIN polls : PollArrives(i)
    <2>1. PICK i \in DOMAIN polls : PollArrives(i)
      BY <1>6
    <2>2. polls' = RemoveAt(polls, i) /\ polls \in Seq(Poll)
      BY <2>1, ClusterFacts DEF PollArrives
    <2>3. polls' \in Seq(Poll)
      BY <2>2, Answering
    <2>4. /\ polls[i].registered \in [ok : BOOLEAN, names : SUBSET ClusterNames]
          /\ polls[i].synced \in [ok : BOOLEAN, names : SUBSET ClusterNames]
      BY ClusterFacts DEF Poll
    <2>5. clusters' \subseteq ClusterNames /\ dbClusters' \subseteq ClusterNames
      BY <2>1, <2>4 DEF PollArrives, ClustersTypeOK
    <2>6. dbLoaded' \in BOOLEAN /\ UNCHANGED <<registered, synced>>
      BY <2>1 DEF PollArrives
    <2>7. QED BY <1>1, <1>2, <2>3, <2>5, <2>6 DEF ClustersTypeOK
  <1>7. QED BY <1>3, <1>4, <1>5, <1>6

\* The wizard.
LEMMA WizardKeeps ==
  ASSUME ClustersInv,
         \/ TypeName \/ NextStep \/ Back \/ PressRegister
         \/ \E i \in DOMAIN registering : ServeRegister(i) \/ RegisterSucceeds(i) \/ RegisterFails(i)
  PROVE  ClustersInv'
  <1> USE DEF ClustersInv
  <1>1. UNCHANGED <<synced, clusters, dbClusters, dbLoaded, doomed, deletion>>
    BY DEF TypeName, NextStep, Back, PressRegister, ServeRegister, RegisterSucceeds, RegisterFails, rowUI, dialogUI
  <1>2. CASE TypeName
    BY <1>1, <1>2 DEF TypeName, ClustersTypeOK, RegistrationsAreOwn
  <1>3. CASE NextStep
    <2>1. /\ UNCHANGED <<registered, polls, draft, registering>> /\ step' = 2
          /\ hastyStep' = (registering # <<>>) /\ draft # NoCluster
      BY <1>3 DEF NextStep
    <2>2. ClustersTypeOK'
      BY <1>1, <2>1 DEF ClustersTypeOK
    <2>3. RegistrationsAreOwn'
      BY <2>1, ClusterFacts DEF RegistrationsAreOwn
    <2>4. QED BY <2>2, <2>3
  <1>4. CASE Back
    <2>1. UNCHANGED <<registered, polls, draft, hastyStep>> /\ step' = 1 /\ registering' = Detached
      BY <1>4 DEF Back
    <2>2. ClustersTypeOK'
      BY <1>1, <2>1, DetachedFacts DEF ClustersTypeOK
    <2>3. RegistrationsAreOwn'
      BY <2>1 DEF RegistrationsAreOwn
    <2>4. QED BY <2>2, <2>3
  <1>5. CASE PressRegister
    <2> DEFINE e == [name |-> draft, own |-> TRUE, answer |-> "unserved"]
    <2>1. /\ UNCHANGED <<registered, polls, step, draft, hastyStep>>
          /\ registering' = Append(registering, e)
      BY <1>5 DEF PressRegister
    <2>2. e \in Registering /\ e.own
      BY <1>5 DEF PressRegister, RegistrationsAreOwn, ClustersTypeOK, Registering
    <2> HIDE DEF e
    <2>3. /\ registering' \in Seq(Registering)
          /\ \A j \in DOMAIN registering' :
                registering'[j] = e \/ (j \in DOMAIN registering /\ registering'[j] = registering[j])
      BY <2>1, <2>2, ClusterFacts, Sending
    <2>4. ClustersTypeOK'
      BY <1>1, <2>1, <2>3 DEF ClustersTypeOK
    <2>5. RegistrationsAreOwn'
      BY <2>1, <2>2, <2>3 DEF RegistrationsAreOwn
    <2>6. QED BY <2>4, <2>5
  <1>6. CASE \E i \in DOMAIN registering : ServeRegister(i)
    <2>1. PICK i \in DOMAIN registering : ServeRegister(i)
      BY <1>6
    <2>2. UNCHANGED <<polls, step, draft, hastyStep>>
      BY <2>1 DEF ServeRegister
    <2>3. PICK a \in {"done", "refused"} : registering' = [registering EXCEPT ![i].answer = a]
      BY <2>1 DEF ServeRegister
    <2> DEFINE e == [registering[i] EXCEPT !.answer = a]
    <2>4. e \in Registering /\ e.own = registering[i].own /\ registering[i].name \in ClusterNames
      BY ClusterFacts DEF Registering
    <2>5. registering' = [registering EXCEPT ![i] = e]
      BY <2>3
    <2> HIDE DEF e
    <2>6. registering' \in [DOMAIN registering -> Registering]
      BY <2>4, <2>5, ClusterFacts, LenProperties
    <2>7. registering' \in Seq(Registering) /\ DOMAIN registering' = DOMAIN registering
      BY <2>6, ClusterFacts, Marking
    <2>8. registered' \subseteq ClusterNames
      BY <2>1, <2>4 DEF ServeRegister, ClustersTypeOK
    <2>9. ClustersTypeOK'
      BY <1>1, <2>2, <2>7, <2>8 DEF ClustersTypeOK
    <2>10. RegistrationsAreOwn'
      <3>1. registering'[i] = e /\ \A j \in DOMAIN registering : j # i => registering'[j] = registering[j]
        BY <2>5
      <3>2. QED BY <2>2, <2>4, <2>7, <3>1 DEF RegistrationsAreOwn
    <2>11. QED BY <2>9, <2>10
  <1>7. CASE \E i \in DOMAIN registering : RegisterSucceeds(i)
    <2>1. PICK i \in DOMAIN registering : RegisterSucceeds(i)
      BY <1>7
    <2>2. /\ step' = 1 /\ registering' = RemoveAt(Detached, i) /\ FetchClusters
          /\ UNCHANGED <<registered, draft, hastyStep>>
      BY <2>1 DEF RegisterSucceeds
    <2>3. registering' \in Seq(Registering)
      BY <2>2, DetachedFacts, Answering
    <2>4. ClustersTypeOK'
      BY <1>1, <2>2, <2>3, FetchClustersFacts DEF ClustersTypeOK
    <2>5. RegistrationsAreOwn'
      BY <2>2 DEF RegistrationsAreOwn
    <2>6. QED BY <2>4, <2>5
  <1>8. CASE \E i \in DOMAIN registering : RegisterFails(i)
    <2>1. PICK i \in DOMAIN registering : RegisterFails(i)
      BY <1>8
    <2>2. registering' = RemoveAt(registering, i) /\ UNCHANGED <<registered, polls, step, draft, hastyStep>>
      BY <2>1 DEF RegisterFails
    <2>3. registering \in Seq(Registering)
      BY ClusterFacts
    <2>4. /\ registering' \in Seq(Registering)
          /\ \A k \in DOMAIN registering' : \E j \in DOMAIN registering \ {i} : registering'[k] = registering[j]
      BY <2>2, <2>3, Answering
    <2>5. ClustersTypeOK'
      BY <1>1, <2>2, <2>4 DEF ClustersTypeOK
    <2>6. RegistrationsAreOwn'
      BY <2>2, <2>4 DEF RegistrationsAreOwn
    <2>7. QED BY <2>5, <2>6
  <1>9. QED BY <1>2, <1>3, <1>4, <1>5, <1>6, <1>7, <1>8

\* The dialog that deletes a cluster.
LEMMA DeletionKeeps ==
  ASSUME ClustersInv,
         \/ ServeDeletion \/ CancelDeletion \/ ConfirmDeletion \/ DeletionAnswered \/ DeletionLost
         \/ \E n \in ClusterNames : OpenDeletion(n)
  PROVE  ClustersInv'
  <1> USE DEF ClustersInv
  <1>1. UNCHANGED <<synced, clusters, dbClusters, dbLoaded, step, draft, registering, hastyStep>>
    BY DEF ServeDeletion, CancelDeletion, ConfirmDeletion, DeletionAnswered, DeletionLost, OpenDeletion, rowUI, wizardUI
  <1>2. RegistrationsAreOwn'
    BY <1>1 DEF RegistrationsAreOwn
  <1>3. polls' \in Seq(Poll)
    BY FetchClustersFacts, ClusterFacts
    DEF ServeDeletion, CancelDeletion, ConfirmDeletion, DeletionAnswered, DeletionLost, OpenDeletion
  <1>4. registered' \subseteq ClusterNames
    BY DEF ServeDeletion, CancelDeletion, ConfirmDeletion, DeletionAnswered, DeletionLost, OpenDeletion, ClustersTypeOK
  <1>5. doomed' \in ClusterNames \cup {NoCluster} /\ deletion' \in {"none", "unserved", "done", "lost"}
    BY DEF ServeDeletion, CancelDeletion, ConfirmDeletion, DeletionAnswered, DeletionLost, OpenDeletion, ClustersTypeOK
  <1>6. QED BY <1>1, <1>2, <1>3, <1>4, <1>5 DEF ClustersTypeOK

LEMMA ClustersStepInv == ClustersInv /\ [ClustersNext]_clusterVars => ClustersInv'
  <1> SUFFICES ASSUME ClustersInv, [ClustersNext]_clusterVars PROVE ClustersInv'
    OBVIOUS
  <1>1. CASE UNCHANGED clusterVars
    BY <1>1 DEF clusterVars, rowUI, wizardUI, dialogUI, ClustersInv, ClustersTypeOK, RegistrationsAreOwn
  <1>2. CASE ClustersNext
    BY <1>2, PollKeeps, WizardKeeps, DeletionKeeps DEF ClustersNext
  <1>3. QED BY <1>1, <1>2

\* What the invariant says of step 2.
LEMMA WizardStepSurvives ==
  ASSUME ClustersInv, [ClustersNext]_clusterVars, step = 2, step' = 1
  PROVE  \/ Back
         \/ hastyStep
         \/ \E i \in DOMAIN registering :
               /\ registering[i].own /\ registering[i].answer = "done"
               /\ registering' = RemoveAt(Detached, i)
  <1>1. Back \/ \E i \in DOMAIN registering : RegisterSucceeds(i)
    BY DEF ClustersNext, clusterVars, rowUI, wizardUI, dialogUI, OthersRegister, Scrape, ServePoll, ServeRegister,
       ServeDeletion, PollArrives, PollAgain, TypeName, NextStep, PressRegister, RegisterFails,
       OpenDeletion, CancelDeletion, ConfirmDeletion, DeletionAnswered, DeletionLost
  <1>2. ASSUME NEW i \in DOMAIN registering, RegisterSucceeds(i), ~hastyStep
        PROVE  registering[i].own /\ registering[i].answer = "done" /\ registering' = RemoveAt(Detached, i)
    BY <1>2 DEF RegisterSucceeds, ClustersInv, RegistrationsAreOwn
  <1>3. QED BY <1>1, <1>2

\* Every row has the status it should have, and every answer that is still to
\* arrive would leave it so; the rows may be missing, for a list that could not
\* be fetched is an empty one.
RowsAreTrue ==
    /\ dbLoaded /\ dbClusters = synced
    /\ clusters \in {registered, {}}
    /\ \A i \in DOMAIN polls : polls[i].served =>
          /\ polls[i].registered.names \in {registered, {}}
          /\ polls[i].synced.ok => polls[i].synced.names = synced

\* The safety core of ClustersSettle: while nobody registers or deletes, and
\* nothing is synced or purged, a list that is true stays so, however many polls
\* overlap, are answered out of order, or fail by halves
\* (ClustersPage.tsx:406-437).
ListStaysTrue ==
    [][(RowsAreTrue /\ UNCHANGED <<registered, synced>>) => RowsAreTrue']_clusterVars

\* What RowsAreTrue says of a row.
LEMMA TrueRows ==
  ASSUME RowsAreTrue, NEW n \in ClusterNames, Row(n) # "none"
  PROVE  n \in registered /\ Row(n) = IF n \in synced THEN "Synced" ELSE "Awaiting first sync"
  BY DEF RowsAreTrue, Row

\* One more poll changes nothing yet.
LEMMA PollSentKeepsRows ==
  ASSUME ClustersInv, RowsAreTrue, FetchClusters, UNCHANGED <<registered, synced, rowUI>>
  PROVE  RowsAreTrue'
  <1>1. UnservedPoll \in Poll /\ ~UnservedPoll.served
    BY NothingIsNoAnswer DEF UnservedPoll, Poll
  <1>2. \A j \in DOMAIN polls' : polls'[j] = UnservedPoll \/ (j \in DOMAIN polls /\ polls'[j] = polls[j])
    BY <1>1, ClusterFacts, Sending DEF FetchClusters, ClustersInv
  <1>3. QED BY <1>1, <1>2 DEF RowsAreTrue, rowUI

LEMMA ListStepStaysTrue ==
  ASSUME ClustersInv, [ClustersNext]_clusterVars, RowsAreTrue, UNCHANGED <<registered, synced>>
  PROVE  RowsAreTrue'
  <1> USE DEF ClustersInv
  <1>1. CASE UNCHANGED <<rowUI, polls>>
    BY <1>1 DEF RowsAreTrue, rowUI
  <1>2. CASE PollAgain \/ DeletionAnswered \/ \E i \in DOMAIN registering : RegisterSucceeds(i)
    BY <1>2, PollSentKeepsRows DEF PollAgain, DeletionAnswered, RegisterSucceeds
  <1>3. CASE \E i \in DOMAIN polls : ServePoll(i)
    <2>1. PICK i \in DOMAIN polls : ServePoll(i)
      BY <1>3
    <2>2. PICK r \in BOOLEAN, s \in BOOLEAN :
             polls' = [polls EXCEPT ![i] =
                 [served |-> TRUE,
                  registered |-> IF r THEN [ok |-> TRUE, names |-> registered] ELSE Nothing,
                  synced |-> IF s THEN [ok |-> TRUE, names |-> synced] ELSE Nothing]]
      BY <2>1 DEF ServePoll
    <2> DEFINE a == IF r THEN [ok |-> TRUE, names |-> registered] ELSE Nothing
               b == IF s THEN [ok |-> TRUE, names |-> synced] ELSE Nothing
               e == [served |-> TRUE, registered |-> a, synced |-> b]
    <2>3. a.names \in {registered, {}} /\ (b.ok => b.names = synced)
      BY DEF Nothing
    <2>4. polls' = [polls EXCEPT ![i] = e]
      BY <2>2
    <2> HIDE DEF a, b
    <2>5. e.registered.names \in {registered, {}} /\ (e.synced.ok => e.synced.names = synced)
      BY <2>3
    <2> HIDE DEF e
    <2>6. DOMAIN polls' = DOMAIN polls /\ polls'[i] = e /\ \A j \in DOMAIN polls : j # i => polls'[j] = polls[j]
      BY <2>4
    <2>7. UNCHANGED rowUI
      BY <2>1 DEF ServePoll
    <2>8. QED BY <2>5, <2>6, <2>7 DEF RowsAreTrue, rowUI
  <1>4. CASE \E i \in DOMAIN polls : PollArrives(i)
    <2>1. PICK i \in DOMAIN polls : PollArrives(i)
      BY <1>4
    <2>2. \A j \in DOMAIN polls' : \E k \in DOMAIN polls : polls'[j] = polls[k]
      BY <2>1, ClusterFacts, Answering DEF PollArrives
    <2>3. clusters' \in {registered, {}} /\ dbClusters' = synced /\ dbLoaded'
      BY <2>1 DEF PollArrives, RowsAreTrue
    <2>4. QED BY <2>2, <2>3 DEF RowsAreTrue
  <1>5. QED
    BY <1>1, <1>2, <1>3, <1>4 DEF ClustersNext, clusterVars, OthersRegister, Scrape, ServeRegister,
       ServeDeletion, TypeName, NextStep, Back, PressRegister, RegisterFails,
       OpenDeletion, CancelDeletion, ConfirmDeletion, DeletionLost

=============================================================================
