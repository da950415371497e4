---------------------------- MODULE Registration ----------------------------
(***************************************************************************)
(* The registration API of server mode (internal/api/clusters.go): requests *)
(* register and delete clusters by reading and writing Secrets, one call to *)
(* the API server at a time.  Requests of any replica, and users with       *)
(* kubectl, work on the same Secrets; between two calls of a request        *)
(* anything may happen to them.                                             *)
(***************************************************************************)
EXTENDS Naturals

CONSTANTS
    Secrets,       \* names of Secrets in the hub's namespace
    Names,         \* cluster names
    SecretOf,      \* the Secret a registration writes: "cluster-" + name
    Requests,      \* the handlers that run at the same time
    Unlisted,      \* the name of a Secret without the label or without a name
    Absent,        \* no Secret
    MaxRevision    \* bound: resource versions the API server hands out

\* A Secret: the name it registers; what else it says is told apart by its
\* resource version.
Object == [name : Names \cup {Unlisted}, rv : 0..MaxRevision]

ASSUME RegistrationAssumption ==
    /\ SecretOf \in [Names -> Secrets]
    /\ Absent \notin Object
    /\ MaxRevision \in Nat

VARIABLES
    secret,     \* the Secrets as the API server has them
    revision,   \* the last resource version handed out
    at,         \* the call each handler makes next, or its answer
    asked,      \* the cluster each handler was called for
    read,       \* registerCluster's existing
    left,       \* deleteRegisteredCluster: the listed Secrets still to delete
    interfered, \* history: the handlers that met another writer or a failing call
    standing    \* history: the Secrets that register the name since the delete began

apiServer == <<secret, revision, standing>>
vars == <<apiServer, at, asked, read, left, interfered>>

-----------------------------------------------------------------------------

Calls   == {"create", "get", "update", "list", "delete"}
Answers == {"ok", "failed", "notFound"}

KeyOf(r) == SecretOf[asked[r]]

\* What the list of cluster Secrets has under the name n.
Registering(n) == {k \in Secrets : secret[k] # Absent /\ secret[k].name = n}

\* The handlers that have to do with the Secret k in their next calls.
Concerned(k) == {r \in Requests :
    \/ at[r] \in {"create", "get", "update"} /\ k = KeyOf(r)
    \/ at[r] = "delete" /\ k \in left[r]}

\* The Secret still has the resource version that the handler has read.
ReadIsCurrent(r) == secret[KeyOf(r)] # Absent /\ secret[KeyOf(r)].rv = read[r].rv

Goto(r, place) == at' = [at EXCEPT ![r] = place]

Init ==
    /\ secret \in [Secrets -> {o \in Object : o.rv = 0} \cup {Absent}]
    /\ revision = 0
    /\ at = [r \in Requests |-> "idle"]
    /\ asked \in [Requests -> Names]
    /\ read = [r \in Requests |-> Absent]
    /\ left = [r \in Requests |-> {}]
    /\ interfered = {}
    /\ standing = [r \in Requests |-> {}]

-----------------------------------------------------------------------------
(* The API server (external): a write hands out a new resource version, a   *)
(* list is in the order of the names, a delete takes no precondition.       *)

\* The Secrets that registered a handler's name and still do.
StandingNow ==
    standing' = [r \in Requests |-> {k \in standing[r] :
                    secret'[k] # Absent /\ secret'[k].name = asked[r]}]

Put(k, n) ==
    /\ revision < MaxRevision
    /\ revision' = revision + 1
    /\ secret' = [secret EXCEPT ![k] = [name |-> n, rv |-> revision + 1]]
    /\ StandingNow

Remove(k) ==
    /\ secret[k] # Absent
    /\ secret' = [secret EXCEPT ![k] = Absent]
    /\ StandingNow
    /\ UNCHANGED revision

\* Users apply, edit and delete Secrets by hand.
HandWrites(k) ==
    /\ \E n \in Names \cup {Unlisted} : Put(k, n)
    /\ interfered' = interfered \cup Concerned(k)
    /\ UNCHANGED <<at, asked, read, left>>

HandDeletes(k) ==
    /\ Remove(k)
    /\ interfered' = interfered \cup Concerned(k)
    /\ UNCHANGED <<at, asked, read, left>>

(***************************************************************************)
(* The handlers.                                                            *)
(***************************************************************************)

\* A write of handler r to k is done: it goes on to done, or to lost if the
\* response does not arrive.
Written(r, k, done, lost) ==
    \/ Goto(r, done) /\ interfered' = interfered \cup (Concerned(k) \ {r})
    \/ Goto(r, lost) /\ interfered' = interfered \cup Concerned(k) \cup {r}

\* A request arrives.
Receive(r) ==
    /\ at[r] = "idle"
    /\ \E n \in Names :
          /\ asked' = [asked EXCEPT ![r] = n]
          /\ \/ Goto(r, "create") /\ UNCHANGED standing
             \/ Goto(r, "list") /\ standing' = [standing EXCEPT ![r] = Registering(n)]
    /\ interfered' = interfered \ {r}
    /\ UNCHANGED <<secret, revision, read, left>>

Create(r) ==
    /\ at[r] = "create"
    /\ secret[KeyOf(r)] = Absent
    /\ Put(KeyOf(r), asked[r])
    /\ Written(r, KeyOf(r), "ok", "get")
    /\ UNCHANGED <<asked, read, left>>

\* Mutant: the handler does not try to update a Secret that exists.
CreateRefusedFails(r) ==
    /\ at[r] = "create"
    /\ secret[KeyOf(r)] # Absent
    /\ Goto(r, "failed")
    /\ UNCHANGED <<apiServer, asked, read, left, interfered>>

\* The Secret exists.
CreateRefused(r) ==
    /\ at[r] = "create"
    /\ secret[KeyOf(r)] # Absent
    /\ Goto(r, "get")
    /\ UNCHANGED <<apiServer, asked, read, left, interfered>>

Get(r) ==
    /\ at[r] = "get"
    /\ IF secret[KeyOf(r)] = Absent
       THEN Goto(r, "failed") /\ UNCHANGED read
       ELSE Goto(r, "update") /\ read' = [read EXCEPT ![r] = secret[KeyOf(r)]]
    /\ UNCHANGED <<apiServer, asked, left, interfered>>

\* Mutant: the update is sent without the resource version that was read.
UpdateForced(r) ==
    /\ at[r] = "update"
    /\ secret[KeyOf(r)] # Absent
    /\ Put(KeyOf(r), asked[r])
    /\ Written(r, KeyOf(r), "ok", "failed")
    /\ UNCHANGED <<asked, read, left>>

\* Update carries the resource version of the object that was read.
Update(r) ==
    /\ at[r] = "update"
    /\ ReadIsCurrent(r)
    /\ Put(KeyOf(r), asked[r])
    /\ Written(r, KeyOf(r), "ok", "failed")
    /\ UNCHANGED <<asked, read, left>>

\* The Secret was written or deleted since.
UpdateRefused(r) ==
    /\ at[r] = "update"
    /\ ~ReadIsCurrent(r)
    /\ Goto(r, "failed")
    /\ UNCHANGED <<apiServer, asked, read, left, interfered>>

\* Mutant: the handler starts to delete whether or not anything is listed.
ListUnchecked(r) ==
    /\ at[r] = "list"
    /\ left' = [left EXCEPT ![r] = Registering(asked[r])]
    /\ Goto(r, "delete")
    /\ UNCHANGED <<apiServer, asked, read, interfered>>

List(r) ==
    /\ at[r] = "list"
    /\ left' = [left EXCEPT ![r] = Registering(asked[r])]
    /\ Goto(r, IF left'[r] = {} THEN "notFound" ELSE "delete")
    /\ UNCHANGED <<apiServer, asked, read, interfered>>

\* Mutant: the handler returns after the first Secret it has deleted.
DeleteFirst(r) ==
    /\ at[r] = "delete"
    /\ \E k \in left[r] :
          /\ Remove(k)
          /\ left' = [left EXCEPT ![r] = @ \ {k}]
          /\ Written(r, k, "ok", "failed")
    /\ UNCHANGED <<asked, read>>

\* The next of the listed Secrets is deleted.
Delete(r) ==
    /\ at[r] = "delete"
    /\ \E k \in left[r] :
          /\ Remove(k)
          /\ left' = [left EXCEPT ![r] = @ \ {k}]
          /\ Written(r, k, IF left'[r] = {} THEN "ok" ELSE "delete", "failed")
    /\ UNCHANGED <<asked, read>>

\* It is not there any more; the rest of the list stays.
DeleteRefused(r) ==
    /\ at[r] = "delete"
    /\ \E k \in left[r] : secret[k] = Absent
    /\ Goto(r, "failed")
    /\ UNCHANGED <<apiServer, asked, read, left, interfered>>

\* A call fails without effect; any error of Create leads to Get.
CallFails(r) ==
    /\ at[r] \in Calls
    /\ Goto(r, IF at[r] = "create" THEN "get" ELSE "failed")
    /\ interfered' = interfered \cup {r}
    /\ UNCHANGED <<apiServer, asked, read, left>>

\* The handler has answered, or its process ends in the middle.
Leave(r) ==
    /\ at[r] # "idle"
    /\ Goto(r, "idle")
    /\ read' = [read EXCEPT ![r] = Absent]
    /\ left' = [left EXCEPT ![r] = {}]
    /\ standing' = [standing EXCEPT ![r] = {}]
    /\ interfered' = interfered \ {r}
    /\ UNCHANGED <<secret, revision, asked>>

-----------------------------------------------------------------------------

Register(r) == Create(r) \/ CreateRefused(r) \/ Get(r) \/ Update(r) \/ UpdateRefused(r)

Deregister(r) == List(r) \/ Delete(r) \/ DeleteRefused(r)

Next ==
    \/ \E k \in Secrets : HandWrites(k) \/ HandDeletes(k)
    \/ \E r \in Requests :
          Receive(r) \/ Register(r) \/ Deregister(r) \/ CallFails(r) \/ Leave(r)

Spec == Init /\ [][Next]_vars

-----------------------------------------------------------------------------

\* Every variable has its type; a handler that deletes has something to delete.
TypeOK ==
    /\ secret \in [Secrets -> Object \cup {Absent}]
    /\ revision \in 0..MaxRevision
    /\ at \in [Requests -> {"idle"} \cup Calls \cup Answers]
    /\ asked \in [Requests -> Names]
    /\ read \in [Requests -> Object \cup {Absent}]
    /\ left \in [Requests -> SUBSET Secrets]
    /\ \A r \in Requests : at[r] = "delete" => left[r] # {}
    /\ interfered \subseteq Requests
    /\ standing \in [Requests -> SUBSET Secrets]

\* An update in place replaces the very object its request has read: what
\* another request or a user wrote in between is never overwritten unseen,
\* also by an update whose response is lost (registerCluster).
NoLostUpdate ==
    [][\A r \in Requests :
          (/\ at[r] = "update" /\ at'[r] # "update"
           /\ secret'[KeyOf(r)] # secret[KeyOf(r)])
              => secret[KeyOf(r)] = read[r]]_vars

\* Once a delete has answered, with success or with "not found", no Secret is
\* left that has registered the name ever since the delete was called
\* (deleteRegisteredCluster goes on to the end of its list).
DeletedIsGone ==
    \A r \in Requests : at[r] \in {"ok", "notFound"} => standing[r] = {}

\* A request only fails because of a failing call, or because somebody else
\* wrote or deleted the Secrets it works on between two of its calls.
FailureHasCause ==
    \A r \in Requests : at[r] = "failed" => r \in interfered

\* The inductive invariant behind them.
Uninterfered(r) ==
    /\ at[r] = "get" => secret[KeyOf(r)] # Absent
    /\ at[r] = "update" => secret[KeyOf(r)] = read[r]
    /\ at[r] = "delete" => \A k \in left[r] : secret[k] # Absent
    /\ at[r] # "failed"

RequestInv(r) ==
    /\ standing[r] \subseteq Registering(asked[r])
    /\ at[r] \in {"idle", "create", "get", "update"} => standing[r] = {}
    /\ at[r] = "delete" => standing[r] \subseteq left[r]
    /\ at[r] \in {"ok", "notFound"} => standing[r] = {}
    /\ at[r] = "update" =>
          /\ read[r] # Absent
          /\ read[r].rv <= revision
          /\ ReadIsCurrent(r) => secret[KeyOf(r)] = read[r]
    /\ r \notin interfered => Uninterfered(r)

HandlerInv ==
    /\ \A k \in Secrets : secret[k] # Absent => secret[k].rv <= revision
    /\ \A r \in Requests : RequestInv(r)

=============================================================================
