------------------------- MODULE RegistrationProofs -------------------------
(***************************************************************************)
(* Proofs about Registration, for any Secrets, names and requests.          *)
(***************************************************************************)
EXTENDS Registration, TLAPS

\* The strengthening that all three safety properties follow from.
IInv == TypeOK /\ HandlerInv

\* A record of the right fields is an object.
LEMMA ObjectType ==
  ASSUME NEW n \in Names \cup {Unlisted}, NEW v \in 0..MaxRevision
  PROVE  [name |-> n, rv |-> v] \in Object
  BY DEF Object

\* The places of a handler.
LEMMA PlacesDistinct ==
  ASSUME TypeOK, NEW r \in Requests
  PROVE  at[r] \in {"idle", "create", "get", "update", "list", "delete",
                    "ok", "failed", "notFound"}
  BY DEF TypeOK, Calls, Answers

\* A registration works on a Secret.
LEMMA KeyType ==
  ASSUME TypeOK, NEW r \in Requests
  PROVE  KeyOf(r) \in Secrets
  BY RegistrationAssumption DEF TypeOK, KeyOf

\* It starts right.
LEMMA InitIInv == Init => IInv
  <1> SUFFICES ASSUME Init PROVE IInv
    OBVIOUS
  <1>1. TypeOK
    BY RegistrationAssumption DEF Init, TypeOK, Calls, Answers
  <1>2. HandlerInv
    <2>1. ASSUME NEW k \in Secrets, secret[k] # Absent PROVE secret[k].rv <= revision
      BY <2>1, RegistrationAssumption DEF Init, Object
    <2>2. ASSUME NEW r \in Requests PROVE RequestInv(r)
      BY <2>2 DEF Init, RequestInv, Uninterfered, Registering
    <2>3. QED BY <2>1, <2>2 DEF HandlerInv
  <1>3. QED BY <1>1, <1>2 DEF IInv

\* What the API server does with a write: the types stay, versions are new,
\* and the standing Secrets are those that still register the name.
LEMMA PutFacts ==
  ASSUME IInv, NEW k \in Secrets, NEW n \in Names \cup {Unlisted}, Put(k, n)
  PROVE  /\ secret' \in [Secrets -> Object \cup {Absent}]
         /\ revision' = revision + 1 /\ revision' \in 0..MaxRevision
         /\ secret'[k] # Absent /\ secret'[k].rv = revision + 1
         /\ \A j \in Secrets \ {k} : secret'[j] = secret[j]
         /\ \A j \in Secrets : secret'[j] # Absent => secret'[j].rv <= revision'
         /\ standing' \in [Requests -> SUBSET Secrets]
         /\ \A r \in Requests : standing'[r] \subseteq standing[r]
         /\ \A r \in Requests : \A j \in standing'[r] :
               secret'[j] # Absent /\ secret'[j].name = asked[r]
  <1>1. revision' = revision + 1 /\ revision' \in 0..MaxRevision
    BY RegistrationAssumption DEF Put, IInv, TypeOK
  <1>2. [name |-> n, rv |-> revision + 1] \in Object
    BY <1>1, ObjectType
  <1>3. secret' = [secret EXCEPT ![k] = [name |-> n, rv |-> revision + 1]]
    BY DEF Put
  <1>4. secret' \in [Secrets -> Object \cup {Absent}]
    BY <1>2, <1>3 DEF IInv, TypeOK
  <1>5. secret'[k] = [name |-> n, rv |-> revision + 1]
    BY <1>3 DEF IInv, TypeOK
  <1>6. secret'[k] # Absent /\ secret'[k].rv = revision + 1
    BY <1>2, <1>5, RegistrationAssumption
  <1>7. \A j \in Secrets \ {k} : secret'[j] = secret[j]
    BY <1>3 DEF IInv, TypeOK
  <1>8. ASSUME NEW j \in Secrets, secret'[j] # Absent PROVE secret'[j].rv <= revision'
    <2>1. CASE j = k
      BY <2>1, <1>1, <1>6
    <2>2. CASE j # k
      <3>1. secret'[j] = secret[j] /\ secret[j] \in Object
        BY <2>2, <1>7, <1>8 DEF IInv, TypeOK
      <3>2. secret[j].rv <= revision /\ secret[j].rv \in 0..MaxRevision
        BY <3>1, <1>8 DEF IInv, HandlerInv, Object
      <3>3. QED BY <3>1, <3>2, <1>1 DEF IInv, TypeOK
    <2>3. QED BY <2>1, <2>2
  <1>9. standing' = [r \in Requests |-> {j \in standing[r] :
                        secret'[j] # Absent /\ secret'[j].name = asked[r]}]
    BY DEF Put, StandingNow
  <1>10. standing' \in [Requests -> SUBSET Secrets]
    BY <1>9 DEF IInv, TypeOK
  <1>11. QED BY <1>1, <1>4, <1>6, <1>7, <1>8, <1>9, <1>10

\* What it does with a delete.
LEMMA RemoveFacts ==
  ASSUME IInv, NEW k \in Secrets, Remove(k)
  PROVE  /\ secret' \in [Secrets -> Object \cup {Absent}]
         /\ revision' = revision
         /\ secret'[k] = Absent
         /\ \A j \in Secrets \ {k} : secret'[j] = secret[j]
         /\ \A j \in Secrets : secret'[j] # Absent => secret'[j].rv <= revision'
         /\ standing' \in [Requests -> SUBSET Secrets]
         /\ \A r \in Requests : standing'[r] \subseteq standing[r] \ {k}
         /\ \A r \in Requests : \A j \in standing'[r] :
               secret'[j] # Absent /\ secret'[j].name = asked[r]
  <1>1. secret' = [secret EXCEPT ![k] = Absent] /\ revision' = revision
    BY DEF Remove
  <1>2. standing' = [r \in Requests |-> {j \in standing[r] :
                        secret'[j] # Absent /\ secret'[j].name = asked[r]}]
    BY DEF Remove, StandingNow
  <1>3. secret'[k] = Absent
    BY <1>1 DEF IInv, TypeOK
  <1>4. \A j \in Secrets \ {k} : secret'[j] = secret[j]
    BY <1>1 DEF IInv, TypeOK
  <1>5. secret' \in [Secrets -> Object \cup {Absent}]
    BY <1>1 DEF IInv, TypeOK
  <1>6. standing' \in [Requests -> SUBSET Secrets]
    BY <1>2 DEF IInv, TypeOK
  <1>7. \A j \in Secrets : secret'[j] # Absent => secret'[j].rv <= revision'
    BY <1>1, <1>3, <1>4 DEF IInv, HandlerInv
  <1>8. QED BY <1>1, <1>2, <1>3, <1>4, <1>5, <1>6, <1>7

\* What either leaves for the handlers that are not its author.
Wrote(k) ==
  /\ \A j \in Secrets \ {k} : secret'[j] = secret[j]
  /\ secret'[k] # Absent => secret'[k].rv = revision + 1
  /\ revision' \in {revision, revision + 1}
  /\ \A r \in Requests : standing'[r] \subseteq standing[r]
  /\ \A r \in Requests : \A j \in standing'[r] :
        secret'[j] # Absent /\ secret'[j].name = asked[r]

\* A handler whose own variables stay keeps its invariant when somebody else
\* writes or deletes a Secret: either it has nothing to do with that Secret, or
\* it is marked as interfered with, and the version it has read is outdated.
LEMMA OtherHandler ==
  ASSUME IInv, NEW k \in Secrets, Wrote(k), NEW x \in Requests,
         at'[x] = at[x], asked'[x] = asked[x], read'[x] = read[x], left'[x] = left[x],
         (x \in interfered \/ x \in Concerned(k)) => x \in interfered'
  PROVE  RequestInv(x)'
  <1> USE DEF IInv, HandlerInv
  <1>1. RequestInv(x)
    OBVIOUS
  <1>2. KeyOf(x)' = KeyOf(x) /\ KeyOf(x) \in Secrets
    BY KeyType DEF KeyOf
  <1>3. standing'[x] \subseteq Registering(asked[x])'
    BY <1>1 DEF Wrote, RequestInv, Registering, TypeOK
  <1>4. at[x] = "update" =>
          /\ read[x] # Absent
          /\ read[x].rv <= revision'
          /\ ReadIsCurrent(x)' => secret'[KeyOf(x)] = read[x]
    <2> SUFFICES ASSUME at[x] = "update"
                 PROVE  /\ read[x] # Absent
                        /\ read[x].rv <= revision'
                        /\ ReadIsCurrent(x)' => secret'[KeyOf(x)] = read[x]
      OBVIOUS
    <2>1. read[x] # Absent /\ read[x].rv <= revision /\ read[x].rv \in 0..MaxRevision
      BY <1>1 DEF RequestInv, TypeOK, Object
    <2>2. revision \in 0..MaxRevision /\ revision' \in {revision, revision + 1}
      BY DEF TypeOK, Wrote
    <2>3. read[x].rv <= revision'
      BY <2>1, <2>2, RegistrationAssumption
    <2>4. CASE KeyOf(x) = k
      <3>1. ~ReadIsCurrent(x)'
        BY <2>1, <2>2, <2>4, <1>2, RegistrationAssumption DEF Wrote, ReadIsCurrent
      <3>2. QED BY <3>1, <2>1, <2>3
    <2>5. CASE KeyOf(x) # k
      <3>1. secret'[KeyOf(x)] = secret[KeyOf(x)]
        BY <2>5, <1>2 DEF Wrote
      <3>2. ReadIsCurrent(x)' => ReadIsCurrent(x)
        BY <3>1, <1>2 DEF ReadIsCurrent
      <3>3. QED BY <3>1, <3>2, <1>1, <2>1, <2>3 DEF RequestInv
    <2>6. QED BY <2>4, <2>5
  <1>5. x \notin interfered' => Uninterfered(x)'
    <2> SUFFICES ASSUME x \notin interfered' PROVE Uninterfered(x)'
      OBVIOUS
    <2>1. x \notin Concerned(k) /\ Uninterfered(x)
      BY <1>1 DEF RequestInv
    <2>2. at[x] \in {"get", "update"} => secret'[KeyOf(x)] = secret[KeyOf(x)]
      BY <2>1, <1>2 DEF Concerned, Wrote
    <2>3. at[x] = "delete" => \A j \in left[x] : secret'[j] = secret[j]
      BY <2>1 DEF Concerned, Wrote, TypeOK
    <2>4. QED BY <2>1, <2>2, <2>3, <1>2 DEF Uninterfered
  <1>6. /\ at[x] \in {"idle", "create", "get", "update"} => standing'[x] = {}
        /\ at[x] = "delete" => standing'[x] \subseteq left[x]
        /\ at[x] \in {"ok", "notFound"} => standing'[x] = {}
    <2>1. standing'[x] \subseteq standing[x]
      BY DEF Wrote
    <2>2. QED BY <1>1, <2>1 DEF RequestInv
  <1>7. QED BY <1>2, <1>3, <1>4, <1>5, <1>6 DEF RequestInv

\* A handler keeps its invariant while neither it nor the Secrets change.
LEMMA SameHandler ==
  ASSUME IInv, NEW x \in Requests, UNCHANGED <<secret, revision>>,
         at'[x] = at[x], asked'[x] = asked[x], read'[x] = read[x], left'[x] = left[x],
         standing'[x] = standing[x], x \in interfered => x \in interfered'
  PROVE  RequestInv(x)'
  BY DEF IInv, HandlerInv, RequestInv, Uninterfered, ReadIsCurrent, Registering, KeyOf

\* A write or a delete by hand.
LEMMA HandIInv ==
  ASSUME IInv, NEW k \in Secrets, HandWrites(k) \/ HandDeletes(k)
  PROVE  IInv'
  <1>1. CASE HandWrites(k)
    <2>1. PICK n \in Names \cup {Unlisted} : Put(k, n)
      BY <1>1 DEF HandWrites
    <2>2. Wrote(k)
      BY <2>1, PutFacts DEF Wrote
    <2>3. TypeOK'
      BY <1>1, <2>1, PutFacts DEF HandWrites, IInv, TypeOK, Concerned
    <2>4. ASSUME NEW x \in Requests PROVE RequestInv(x)'
      BY <1>1, <2>2, OtherHandler DEF HandWrites
    <2>5. HandlerInv'
      BY <2>1, <2>4, PutFacts DEF HandlerInv
    <2>6. QED BY <2>3, <2>5 DEF IInv
  <1>2. CASE HandDeletes(k)
    <2>1. Remove(k)
      BY <1>2 DEF HandDeletes
    <2>2. Wrote(k)
      BY <2>1, RemoveFacts DEF Wrote
    <2>3. TypeOK'
      BY <1>2, <2>1, RemoveFacts DEF HandDeletes, IInv, TypeOK, Concerned
    <2>4. ASSUME NEW x \in Requests PROVE RequestInv(x)'
      BY <1>2, <2>2, OtherHandler DEF HandDeletes
    <2>5. HandlerInv'
      BY <2>1, <2>4, RemoveFacts DEF HandlerInv
    <2>6. QED BY <2>3, <2>5 DEF IInv
  <1>3. QED BY <1>1, <1>2


\* A handler goes to its next place; the others stay where they are.
LEMMA GotoFacts ==
  ASSUME TypeOK, NEW r \in Requests, NEW place \in {"idle"} \cup Calls \cup Answers,
         Goto(r, place)
  PROVE  /\ at' \in [Requests -> {"idle"} \cup Calls \cup Answers]
         /\ at'[r] = place
         /\ \A x \in Requests \ {r} : at'[x] = at[x]
  BY DEF TypeOK, Goto

\* A request arrives.
LEMMA ReceiveIInv ==
  ASSUME IInv, NEW r \in Requests, Receive(r)
  PROVE  IInv'
  <1> USE DEF IInv
  <1>1. PICK n \in Names :
          /\ asked' = [asked EXCEPT ![r] = n]
          /\ \/ Goto(r, "create") /\ UNCHANGED standing
             \/ Goto(r, "list") /\ standing' = [standing EXCEPT ![r] = Registering(n)]
    BY DEF Receive
  <1>2. /\ at' \in [Requests -> {"idle"} \cup Calls \cup Answers]
        /\ at'[r] \in {"create", "list"}
        /\ \A x \in Requests \ {r} : at'[x] = at[x]
    BY <1>1, GotoFacts DEF Calls
  <1>3. asked'[r] = n /\ \A x \in Requests \ {r} : asked'[x] = asked[x]
    BY <1>1 DEF TypeOK
  <1>4. UNCHANGED <<secret, revision, read, left>> /\ interfered' = interfered \ {r}
    BY DEF Receive
  <1>5. standing' \in [Requests -> SUBSET Secrets]
        /\ \A x \in Requests \ {r} : standing'[x] = standing[x]
    BY <1>1 DEF TypeOK, Registering
  <1>6. TypeOK'
    <2>1. asked' \in [Requests -> Names]
      BY <1>1 DEF TypeOK
    <2>2. \A x \in Requests : at'[x] = "delete" => left'[x] # {}
      BY <1>2, <1>4 DEF TypeOK
    <2>3. QED BY <1>2, <1>4, <1>5, <2>1, <2>2 DEF TypeOK
  <1>7. RequestInv(r)'
    <2>1. RequestInv(r) /\ at[r] = "idle"
      BY DEF HandlerInv, Receive
    <2>2. CASE at'[r] = "create"
      <3>1. standing'[r] = {}
        BY <2>1, <2>2, <1>1, GotoFacts DEF RequestInv, Calls
      <3>2. QED BY <2>2, <3>1 DEF RequestInv, Uninterfered
    <2>3. CASE at'[r] = "list"
      <3>1. standing'[r] = Registering(n)
        BY <2>3, <1>1, GotoFacts DEF TypeOK, Calls
      <3>2. Registering(n) = Registering(asked[r])'
        BY <1>3, <1>4 DEF Registering
      <3>3. QED BY <2>3, <3>1, <3>2 DEF RequestInv, Uninterfered
    <2>4. QED BY <1>2, <2>2, <2>3
  <1>8. ASSUME NEW x \in Requests \ {r} PROVE RequestInv(x)'
    BY <1>2, <1>3, <1>4, <1>5, SameHandler
  <1>9. HandlerInv'
    BY <1>4, <1>7, <1>8 DEF HandlerInv
  <1>10. QED BY <1>6, <1>9

\* A registration writes its Secret: Create or Update.
LEMMA RegisterIInv ==
  ASSUME IInv, NEW r \in Requests, Put(KeyOf(r), asked[r]),
         at[r] \in {"create", "update"}, NEW lost \in {"get", "failed"},
         Written(r, KeyOf(r), "ok", lost), UNCHANGED <<asked, read, left>>
  PROVE  IInv'
  <1> USE DEF IInv
  <1>1. KeyOf(r) \in Secrets /\ asked[r] \in Names \cup {Unlisted}
    BY KeyType DEF TypeOK
  <1>2. Wrote(KeyOf(r))
    BY <1>1, PutFacts DEF Wrote
  <1>3. /\ at' \in [Requests -> {"idle"} \cup Calls \cup Answers]
        /\ at'[r] = "ok" \/ (at'[r] = lost /\ r \in interfered')
        /\ \A x \in Requests \ {r} : at'[x] = at[x]
    <2>1. CASE Goto(r, "ok")
      BY <2>1, GotoFacts DEF Answers
    <2>2. CASE Goto(r, lost) /\ interfered' = interfered \cup Concerned(KeyOf(r)) \cup {r}
      BY <2>2, GotoFacts DEF Calls, Answers
    <2>3. QED BY <2>1, <2>2 DEF Written
  <1>4. \A x \in Requests \ {r} :
          (x \in interfered \/ x \in Concerned(KeyOf(r))) => x \in interfered'
    BY DEF Written
  <1>5. interfered' \subseteq Requests
    BY DEF Written, TypeOK, Concerned
  <1>6. TypeOK'
    <2>1. \A x \in Requests : at'[x] = "delete" => left'[x] # {}
      BY <1>3 DEF TypeOK
    <2>2. QED BY <1>1, <1>3, <1>5, <2>1, PutFacts DEF TypeOK
  <1>7. RequestInv(r)'
    <2>1. standing'[r] = {}
      BY <1>2 DEF HandlerInv, RequestInv, Wrote
    <2>2. r \notin interfered' => at'[r] = "ok"
      BY <1>3
    <2>3. at'[r] \in {"ok", "get", "failed"}
      BY <1>3
    <2>4. r \notin interfered' => Uninterfered(r)'
      BY <2>2 DEF Uninterfered
    <2>5. QED BY <2>1, <2>3, <2>4 DEF RequestInv
  <1>8. ASSUME NEW x \in Requests \ {r} PROVE RequestInv(x)'
    BY <1>1, <1>2, <1>3, <1>4, OtherHandler
  <1>9. HandlerInv'
    BY <1>1, <1>7, <1>8, PutFacts DEF HandlerInv
  <1>10. QED BY <1>6, <1>9

\* A call that changes nothing at the API server and reads at most one Secret.
LEMMA QuietIInv ==
  ASSUME IInv, NEW r \in Requests,
         CreateRefused(r) \/ Get(r) \/ UpdateRefused(r) \/ DeleteRefused(r) \/ CallFails(r)
  PROVE  IInv'
  <1> USE DEF IInv
  <1>1. PICK place \in {"get", "update", "failed"} : Goto(r, place)
    BY DEF CreateRefused, Get, UpdateRefused, DeleteRefused, CallFails
  <1>2. /\ at' \in [Requests -> {"idle"} \cup Calls \cup Answers]
        /\ at'[r] = place
        /\ \A x \in Requests \ {r} : at'[x] = at[x]
    BY <1>1, GotoFacts DEF Calls, Answers
  <1>3. UNCHANGED <<secret, revision, standing, asked, left>>
        /\ interfered \subseteq interfered' /\ interfered' \subseteq interfered \cup {r}
    BY DEF CreateRefused, Get, UpdateRefused, DeleteRefused, CallFails, apiServer
  <1>4. read' \in [Requests -> Object \cup {Absent}]
        /\ \A x \in Requests \ {r} : read'[x] = read[x]
    <2>1. CASE read' = read
      BY <2>1 DEF TypeOK
    <2>2. CASE Get(r) /\ read' = [read EXCEPT ![r] = secret[KeyOf(r)]]
      BY <2>2, KeyType DEF TypeOK
    <2>3. QED BY <2>1, <2>2 DEF CreateRefused, Get, UpdateRefused, DeleteRefused, CallFails
  <1>5. TypeOK'
    <2>1. \A x \in Requests : at'[x] = "delete" => left'[x] # {}
      BY <1>2, <1>3 DEF TypeOK
    <2>2. QED BY <1>2, <1>3, <1>4, <2>1 DEF TypeOK
  <1>6. RequestInv(r) /\ KeyOf(r)' = KeyOf(r) /\ KeyOf(r) \in Secrets
    BY <1>3, KeyType DEF HandlerInv, KeyOf
  <1>7. RequestInv(r)'
    <2>1. standing'[r] \subseteq Registering(asked[r])'
      BY <1>3, <1>6 DEF RequestInv, Registering
    <2>2. place \in {"get", "update"} => standing'[r] = {}
      BY <1>1, <1>2, <1>3, <1>6 DEF RequestInv, CreateRefused, Get, UpdateRefused,
                          DeleteRefused, CallFails, Goto, TypeOK
    <2>3. place = "update" =>
            /\ at[r] = "get" /\ secret[KeyOf(r)] # Absent
            /\ read'[r] = secret[KeyOf(r)]
      BY <1>2 DEF CreateRefused, Get, UpdateRefused, DeleteRefused, CallFails, Goto, TypeOK
    <2>4. place = "update" => read'[r] # Absent /\ read'[r].rv <= revision'
      BY <2>3, <1>3, <1>6 DEF HandlerInv
    <2>5. ASSUME r \notin interfered' PROVE place # "failed" /\ Uninterfered(r)'
      <3>1. r \notin interfered /\ Uninterfered(r) /\ ~CallFails(r)
        BY <1>3, <1>6, <2>5 DEF RequestInv, CallFails
      <3>2. CASE CreateRefused(r)
        <4>1. at'[r] = "get" /\ secret[KeyOf(r)] # Absent
          BY <3>2, GotoFacts DEF CreateRefused, Calls
        <4>2. QED BY <4>1, <1>2, <1>3, <1>6 DEF Uninterfered
      <3>3. CASE Get(r)
        <4>1. secret[KeyOf(r)] # Absent /\ at'[r] = "update"
          BY <3>1, <3>3, GotoFacts DEF Get, Uninterfered, Calls
        <4>2. QED BY <4>1, <2>3, <1>2, <1>3, <1>6 DEF Uninterfered
      <3>4. CASE UpdateRefused(r)
        BY <3>1, <3>4, <1>6 DEF UpdateRefused, Uninterfered, ReadIsCurrent, RequestInv
      <3>5. CASE DeleteRefused(r)
        BY <3>1, <3>5 DEF DeleteRefused, Uninterfered
      <3>6. QED BY <3>1, <3>2, <3>3, <3>4, <3>5
    <2>6. QED BY <1>2, <1>3, <1>6, <2>1, <2>2, <2>3, <2>4, <2>5 DEF RequestInv, ReadIsCurrent
  <1>8. ASSUME NEW x \in Requests \ {r} PROVE RequestInv(x)'
    BY <1>2, <1>3, <1>4, SameHandler
  <1>9. HandlerInv'
    BY <1>3, <1>7, <1>8 DEF HandlerInv
  <1>10. QED BY <1>5, <1>9


\* The Secrets to delete are listed.
LEMMA ListIInv ==
  ASSUME IInv, NEW r \in Requests, List(r)
  PROVE  IInv'
  <1> USE DEF IInv
  <1>1. left'[r] = Registering(asked[r])
        /\ left' \in [Requests -> SUBSET Secrets]
        /\ \A x \in Requests \ {r} : left'[x] = left[x]
    BY DEF List, TypeOK, Registering
  <1>2. PICK place \in {"notFound", "delete"} :
          Goto(r, place) /\ (place = "notFound" <=> left'[r] = {})
    BY DEF List
  <1>3. /\ at' \in [Requests -> {"idle"} \cup Calls \cup Answers]
        /\ at'[r] = place
        /\ \A x \in Requests \ {r} : at'[x] = at[x]
    BY <1>2, GotoFacts DEF Calls, Answers
  <1>4. UNCHANGED <<secret, revision, standing, asked, read, interfered>>
    BY DEF List, apiServer
  <1>5. TypeOK'
    <2>1. \A x \in Requests : at'[x] = "delete" => left'[x] # {}
      BY <1>1, <1>2, <1>3 DEF TypeOK
    <2>2. QED BY <1>1, <1>3, <1>4, <2>1 DEF TypeOK
  <1>6. RequestInv(r)'
    <2>1. standing[r] \subseteq left'[r]
      BY <1>1 DEF HandlerInv, RequestInv
    <2>2. Registering(asked[r])' = Registering(asked[r])
      BY <1>4 DEF Registering
    <2>3. \A k \in left'[r] : secret[k] # Absent
      BY <1>1 DEF Registering
    <2>4. Uninterfered(r)'
      BY <1>3, <1>4, <2>3 DEF Uninterfered
    <2>5. QED BY <1>1, <1>2, <1>3, <1>4, <2>1, <2>2, <2>4 DEF RequestInv
  <1>7. ASSUME NEW x \in Requests \ {r} PROVE RequestInv(x)'
    BY <1>1, <1>3, <1>4, SameHandler
  <1>8. HandlerInv'
    BY <1>4, <1>6, <1>7 DEF HandlerInv
  <1>9. QED BY <1>5, <1>8

\* One of them is deleted.
LEMMA DeleteIInv ==
  ASSUME IInv, NEW r \in Requests, Delete(r)
  PROVE  IInv'
  <1> USE DEF IInv
  <1>1. PICK k \in left[r] :
          /\ Remove(k)
          /\ left' = [left EXCEPT ![r] = @ \ {k}]
          /\ Written(r, k, IF left'[r] = {} THEN "ok" ELSE "delete", "failed")
    BY DEF Delete
  <1>2. k \in Secrets /\ Wrote(k)
    BY <1>1, RemoveFacts DEF TypeOK, Wrote
  <1>3. /\ left' \in [Requests -> SUBSET Secrets]
        /\ left'[r] = left[r] \ {k}
        /\ \A x \in Requests \ {r} : left'[x] = left[x]
    BY <1>1 DEF TypeOK
  <1>4. UNCHANGED <<asked, read>> /\ at[r] = "delete"
    BY DEF Delete
  <1>5. /\ at' \in [Requests -> {"idle"} \cup Calls \cup Answers]
        /\ \/ at'[r] = "ok" /\ left'[r] = {}
           \/ at'[r] = "delete" /\ left'[r] # {}
           \/ at'[r] = "failed" /\ r \in interfered'
        /\ \A x \in Requests \ {r} : at'[x] = at[x]
    BY <1>1, GotoFacts DEF Written, Calls, Answers
  <1>6. interfered' \subseteq Requests
        /\ interfered \subseteq interfered'
        /\ \A x \in Requests \ {r} : x \in Concerned(k) => x \in interfered'
    BY <1>1 DEF Written, TypeOK, Concerned
  <1>7. TypeOK'
    <2>1. \A x \in Requests : at'[x] = "delete" => left'[x] # {}
      BY <1>3, <1>5 DEF TypeOK
    <2>2. QED BY <1>1, <1>2, <1>3, <1>4, <1>5, <1>6, <2>1, RemoveFacts DEF TypeOK
  <1>8. RequestInv(r)'
    <2>1. RequestInv(r)
      BY DEF HandlerInv
    <2>2. standing'[r] \subseteq left'[r]
      <3>1. standing'[r] \subseteq standing[r] \ {k}
        BY <1>1, <1>2, RemoveFacts
      <3>2. QED BY <3>1, <2>1, <1>3, <1>4 DEF RequestInv
    <2>3. standing'[r] \subseteq Registering(asked[r])'
      BY <1>2, <1>4, <1>7 DEF Wrote, Registering, TypeOK
    <2>4. ASSUME r \notin interfered' PROVE Uninterfered(r)'
      <3>1. \A j \in left[r] : secret[j] # Absent
        BY <2>1, <2>4, <1>4, <1>6 DEF RequestInv, Uninterfered
      <3>2. \A j \in left'[r] : secret'[j] # Absent
        BY <3>1, <1>2, <1>3 DEF Wrote, TypeOK
      <3>3. QED BY <3>2, <2>4, <1>5 DEF Uninterfered
    <2>5. QED BY <1>5, <2>2, <2>3, <2>4 DEF RequestInv
  <1>9. ASSUME NEW x \in Requests \ {r} PROVE RequestInv(x)'
    BY <1>2, <1>3, <1>4, <1>5, <1>6, OtherHandler
  <1>10. HandlerInv'
    BY <1>1, <1>2, <1>8, <1>9, RemoveFacts DEF HandlerInv
  <1>11. QED BY <1>7, <1>10

\* A handler is done, or its process ends.
LEMMA LeaveIInv ==
  ASSUME IInv, NEW r \in Requests, Leave(r)
  PROVE  IInv'
  <1> USE DEF IInv
  <1>1. /\ at' \in [Requests -> {"idle"} \cup Calls \cup Answers]
        /\ at'[r] = "idle"
        /\ \A x \in Requests \ {r} : at'[x] = at[x]
    BY GotoFacts DEF Leave
  <1>2. /\ read' = [read EXCEPT ![r] = Absent]
        /\ left' = [left EXCEPT ![r] = {}]
        /\ standing' = [standing EXCEPT ![r] = {}]
        /\ interfered' = interfered \ {r}
        /\ UNCHANGED <<secret, revision, asked>>
    BY DEF Leave
  <1>3. TypeOK'
    <2>1. \A x \in Requests : at'[x] = "delete" => left'[x] # {}
      BY <1>1, <1>2 DEF TypeOK
    <2>2. QED BY <1>1, <1>2, <2>1 DEF TypeOK
  <1>4. RequestInv(r)'
    BY <1>1, <1>2 DEF RequestInv, Uninterfered, TypeOK
  <1>5. ASSUME NEW x \in Requests \ {r} PROVE RequestInv(x)'
    <2>1. read'[x] = read[x] /\ left'[x] = left[x] /\ standing'[x] = standing[x]
      BY <1>2 DEF TypeOK
    <2>2. QED BY <1>1, <1>2, <2>1, SameHandler
  <1>6. HandlerInv'
    BY <1>2, <1>4, <1>5 DEF HandlerInv
  <1>7. QED BY <1>3, <1>6

\* Every step keeps the invariant.
LEMMA NextIInv == IInv /\ [Next]_vars => IInv'
  <1> SUFFICES ASSUME IInv, [Next]_vars PROVE IInv'
    OBVIOUS
  <1>1. CASE UNCHANGED vars
    BY <1>1 DEF IInv, TypeOK, HandlerInv, RequestInv, Uninterfered, ReadIsCurrent,
         Registering, KeyOf, vars, apiServer
  <1>2. ASSUME NEW k \in Secrets, HandWrites(k) \/ HandDeletes(k) PROVE IInv'
    BY <1>2, HandIInv
  <1>3. ASSUME NEW r \in Requests, Receive(r) PROVE IInv'
    BY <1>3, ReceiveIInv
  <1>4. ASSUME NEW r \in Requests, Register(r) PROVE IInv'
    <2>1. CASE Create(r)
      BY <2>1, RegisterIInv DEF Create
    <2>2. CASE Update(r)
      BY <2>2, RegisterIInv DEF Update
    <2>3. CASE CreateRefused(r) \/ Get(r) \/ UpdateRefused(r)
      BY <2>3, QuietIInv
    <2>4. QED BY <1>4, <2>1, <2>2, <2>3 DEF Register
  <1>5. ASSUME NEW r \in Requests, Deregister(r) PROVE IInv'
    BY <1>5, ListIInv, DeleteIInv, QuietIInv DEF Deregister
  <1>6. ASSUME NEW r \in Requests, CallFails(r) PROVE IInv'
    BY <1>6, QuietIInv
  <1>7. ASSUME NEW r \in Requests, Leave(r) PROVE IInv'
    BY <1>7, LeaveIInv
  <1>8. QED BY <1>1, <1>2, <1>3, <1>4, <1>5, <1>6, <1>7 DEF Next

\* The invariant of every behaviour.
LEMMA AlwaysIInv == Spec => []IInv
  BY InitIInv, NextIInv, PTL DEF Spec

\* The registration API keeps its types, for any number of requests.
THEOREM RegistrationTypeCorrect == Spec => []TypeOK
  <1>1. IInv => TypeOK
    BY DEF IInv
  <1>2. QED BY <1>1, AlwaysIInv, PTL

\* A delete that has answered left no Secret that registered the name all
\* along (deleteRegisteredCluster).
THEOREM DeletedIsAlwaysGone == Spec => []DeletedIsGone
  <1>1. IInv => DeletedIsGone
    BY DEF IInv, HandlerInv, RequestInv, DeletedIsGone
  <1>2. QED BY <1>1, AlwaysIInv, PTL

\* A request that fails met a failing call or another writer (registerCluster,
\* deleteRegisteredCluster).
THEOREM FailuresHaveCauses == Spec => []FailureHasCause
  <1>1. IInv => FailureHasCause
    BY DEF IInv, HandlerInv, RequestInv, Uninterfered, FailureHasCause
  <1>2. QED BY <1>1, AlwaysIInv, PTL

\* No update in place overwrites what its request has not read
\* (registerCluster).
THEOREM UpdatesAreNeverLost == Spec => NoLostUpdate
  <1> DEFINE Kept == \A r \in Requests :
        (/\ at[r] = "update" /\ at'[r] # "update"
         /\ secret'[KeyOf(r)] # secret[KeyOf(r)]) => secret[KeyOf(r)] = read[r]
  <1>1. IInv /\ [Next]_vars => [Kept]_vars
    <2> SUFFICES ASSUME IInv, Next, NEW r \in Requests,
                        at[r] = "update", at'[r] # "update",
                        secret'[KeyOf(r)] # secret[KeyOf(r)]
                 PROVE  secret[KeyOf(r)] = read[r]
      BY DEF Kept
    <2>1. ASSUME NEW k \in Secrets, HandWrites(k) \/ HandDeletes(k) PROVE FALSE
      BY <2>1 DEF HandWrites, HandDeletes
    <2>2. ASSUME NEW x \in Requests, x # r,
                 Receive(x) \/ Register(x) \/ Deregister(x) \/ CallFails(x) \/ Leave(x)
          PROVE  FALSE
      <3>1. PICK place \in {"idle"} \cup Calls \cup Answers : Goto(x, place)
        BY <2>2 DEF Receive, Register, Deregister, CallFails, Leave, Create, CreateRefused,
             Get, Update, UpdateRefused, List, Delete, DeleteRefused, Written, Calls, Answers
      <3>2. at'[r] = at[r]
        BY <2>2, <3>1, GotoFacts DEF IInv
      <3>3. QED BY <3>2
    <2>3. CASE Update(r)
      BY <2>3 DEF Update, IInv, HandlerInv, RequestInv
    <2>4. ASSUME Receive(r) \/ CallFails(r) \/ Leave(r) \/ Deregister(r) \/
                 Create(r) \/ CreateRefused(r) \/ Get(r) \/ UpdateRefused(r)
          PROVE  FALSE
      BY <2>4 DEF Receive, CallFails, Leave, Deregister, Create, CreateRefused, Get,
           UpdateRefused, List, Delete, DeleteRefused, apiServer
    <2>5. QED BY <2>1, <2>2, <2>3, <2>4 DEF Next, Register
  <1>2. QED BY <1>1, AlwaysIInv, PTL DEF Spec, NoLostUpdate


=============================================================================
