---------------------------- MODULE ClustersPage ----------------------------
(***************************************************************************)
(* The page of edge clusters (web/src/pages/ClustersPage.tsx): the list,    *)
(* which is polled, the wizard that registers a cluster in two steps, and   *)
(* the dialog that deletes one.  The registrations behind it are those of   *)
(* Registration, the synced clusters those of the report store; here, both  *)
(* are what the page can see of them.                                       *)
(*                                                                          *)
(* One mount of the page, of a user who can administrate.                   *)
(***************************************************************************)
EXTENDS Naturals, SequencesExt

CONSTANTS
    ClusterNames,  \* the names of clusters
    NoCluster,     \* no cluster; the wizard's name is empty
    MaxPolls,      \* bound: polls under way
    MaxClusterWrites \* bound: requests to register or to delete under way

ASSUME ClusterAssumption ==
    /\ NoCluster \notin ClusterNames
    /\ MaxPolls \in Nat \ {0} /\ MaxClusterWrites \in Nat

\* The two endpoints of one fetchClusters, and what they answered.
Poll == [served : BOOLEAN, registered : [ok : BOOLEAN, names : SUBSET ClusterNames],
         synced : [ok : BOOLEAN, names : SUBSET ClusterNames]]

\* registerCluster of Step2Register.  history: own, its form is still open.
Registering == [name : ClusterNames, own : BOOLEAN, answer : {"unserved", "done", "refused"}]

VARIABLES
    registered,   \* the registrations
    synced,       \* the clusters with reports in the database
    clusters,     \* clusters: the rows
    dbClusters,   \* dbClusters: the rows of them that have reports
    dbLoaded,     \* dbLoaded
    polls,        \* the requests of fetchClusters, as they were sent
    step, draft,  \* step, clusterName
    registering,  \* the requests of Step2Register, as they were sent
    doomed,       \* deleteTarget
    deletion,     \* deleteBusy: "none", "unserved", "done" or "lost"
    hastyStep     \* history: a registration was under way when step 2 was opened

rowUI == <<clusters, dbClusters, dbLoaded>>
wizardUI == <<step, draft, registering, hastyStep>>
dialogUI == <<doomed, deletion>>
clusterVars == <<registered, synced, rowUI, polls, wizardUI, dialogUI>>

-----------------------------------------------------------------------------

Nothing == [ok |-> FALSE, names |-> {}]
UnservedPoll == [served |-> FALSE, registered |-> Nothing, synced |-> Nothing]

MayWriteClusters == Len(registering) + (IF deletion = "none" THEN 0 ELSE 1) < MaxClusterWrites

\* fetchClusters, up to the requests.
FetchClusters ==
    /\ Len(polls) < MaxPolls
    /\ polls' = Append(polls, UnservedPoll)

\* The row of a cluster, by its status; a probe that finds it unreachable, and
\* the hub's own cluster, always "Synced", are left out.
Row(n) ==
    IF n \notin clusters THEN "none"
    ELSE IF ~dbLoaded THEN "unknown"
    ELSE IF n \in dbClusters THEN "Synced" ELSE "Awaiting first sync"

\* The clusters of the Layout, fetched at another time, seed the page.
ClustersInit ==
    /\ registered \in SUBSET ClusterNames
    /\ synced \in SUBSET ClusterNames
    /\ clusters = {}
    /\ dbClusters \in SUBSET ClusterNames
    /\ dbLoaded = (dbClusters # {})
    /\ polls = <<UnservedPoll>>
    /\ step = 1 /\ draft = NoCluster
    /\ registering = <<>>
    /\ doomed = NoCluster /\ deletion = "none"
    /\ hastyStep = FALSE

-----------------------------------------------------------------------------
(* The server.                                                              *)

\* Other users register and delete; the scraper syncs, and purges.
OthersRegister ==
    /\ registered' \in SUBSET ClusterNames
    /\ UNCHANGED <<synced, rowUI, polls, wizardUI, dialogUI>>

Scrape ==
    /\ synced' \in SUBSET ClusterNames
    /\ UNCHANGED <<registered, rowUI, polls, wizardUI, dialogUI>>

\* Both endpoints answer, each with 200 or not: what comes between their
\* answers is no matter, for the page relates neither to the other.
ServePoll(i) ==
    /\ ~polls[i].served
    /\ \E r, s \in BOOLEAN :
          polls' = [polls EXCEPT ![i] =
              [served |-> TRUE,
               registered |-> IF r THEN [ok |-> TRUE, names |-> registered] ELSE Nothing,
               synced |-> IF s THEN [ok |-> TRUE, names |-> synced] ELSE Nothing]]
    /\ UNCHANGED <<registered, synced, rowUI, wizardUI, dialogUI>>

\* A new name is registered, the registration of a known one is updated in
\* place, and both are answered alike; or it fails, or the answer is lost.
ServeRegister(i) ==
    /\ registering[i].answer = "unserved"
    /\ \/ /\ registered' = registered \cup {registering[i].name}
          /\ \E a \in {"done", "refused"} :
                registering' = [registering EXCEPT ![i].answer = a]
       \/ /\ UNCHANGED registered
          /\ registering' = [registering EXCEPT ![i].answer = "refused"]
    /\ UNCHANGED <<synced, rowUI, polls, step, draft, hastyStep, dialogUI>>

\* Deleted, refused, or the answer is lost.
ServeDeletion ==
    /\ deletion = "unserved"
    /\ registered' \in {registered, registered \ {doomed}}
    /\ deletion' \in {"done", "lost"}
    /\ UNCHANGED <<synced, rowUI, polls, wizardUI, doomed>>

-----------------------------------------------------------------------------
(* The list.                                                                *)

\* Mutant: a list that could not be fetched stays as it was, and so does one
\* that is empty.
PollArrivesIfAny(i) ==
    /\ polls[i].served
    /\ clusters' = IF polls[i].registered.names # {} THEN polls[i].registered.names ELSE clusters
    /\ dbClusters' = IF polls[i].synced.ok THEN polls[i].synced.names ELSE dbClusters
    /\ dbLoaded' = (dbLoaded \/ polls[i].synced.ok)
    /\ polls' = RemoveAt(polls, i)
    /\ UNCHANGED <<registered, synced, wizardUI, dialogUI>>

\* fetchClusters after both answers.
PollArrives(i) ==
    /\ polls[i].served
    /\ clusters' = polls[i].registered.names
    /\ dbClusters' = IF polls[i].synced.ok THEN polls[i].synced.names ELSE dbClusters
    /\ dbLoaded' = (dbLoaded \/ polls[i].synced.ok)
    /\ polls' = RemoveAt(polls, i)
    /\ UNCHANGED <<registered, synced, wizardUI, dialogUI>>

\* The interval of 10 s, whether or not the last request is answered.
PollAgain ==
    /\ FetchClusters
    /\ UNCHANGED <<registered, synced, rowUI, wizardUI, dialogUI>>

-----------------------------------------------------------------------------
(* The wizard.                                                              *)

\* The field of step 1; a name is sanitized as it is typed.
TypeName ==
    /\ step = 1
    /\ draft' \in ClusterNames \cup {NoCluster}
    /\ UNCHANGED <<registered, synced, rowUI, polls, step, registering, hastyStep, dialogUI>>

\* The button Next.
NextStep ==
    /\ step = 1
    /\ draft # NoCluster
    /\ step' = 2
    /\ hastyStep' = (registering # <<>>)
    /\ UNCHANGED <<registered, synced, rowUI, polls, draft, registering, dialogUI>>

\* The form of step 2 goes, with what was typed into it.
Detached == [i \in DOMAIN registering |-> [registering[i] EXCEPT !.own = FALSE]]

\* The button Back, also while the request is under way.
Back ==
    /\ step = 2
    /\ step' = 1
    /\ registering' = Detached
    /\ UNCHANGED <<registered, synced, rowUI, polls, draft, hastyStep, dialogUI>>

\* submit: one request of a form at a time.
PressRegister ==
    /\ step = 2
    /\ \A i \in DOMAIN registering : ~registering[i].own
    /\ MayWriteClusters
    /\ registering' = Append(registering, [name |-> draft, own |-> TRUE, answer |-> "unserved"])
    /\ UNCHANGED <<registered, synced, rowUI, polls, step, draft, hastyStep, dialogUI>>

\* onSuccess, of the form of that request or of one that is gone by now.
RegisterSucceeds(i) ==
    /\ registering[i].answer = "done"
    /\ step' = 1
    /\ registering' = RemoveAt(Detached, i)
    /\ FetchClusters
    /\ UNCHANGED <<registered, synced, rowUI, draft, hastyStep, dialogUI>>

\* Mutant: the wizard starts again when a registration is refused.
RegisterFailsToStart(i) ==
    /\ registering[i].answer = "refused"
    /\ step' = 1
    /\ registering' = RemoveAt(Detached, i)
    /\ UNCHANGED <<registered, synced, rowUI, polls, draft, hastyStep, dialogUI>>

\* The message is shown in the form, if it is still there.
RegisterFails(i) ==
    /\ registering[i].answer = "refused"
    /\ registering' = RemoveAt(registering, i)
    /\ UNCHANGED <<registered, synced, rowUI, polls, step, draft, hastyStep, dialogUI>>

-----------------------------------------------------------------------------
(* The dialog.                                                              *)

\* The button Delete of a row; that of the hub's own cluster is disabled, and
\* is none of ClusterNames.
OpenDeletion(n) ==
    /\ n \in clusters
    /\ doomed = NoCluster
    /\ doomed' = n
    /\ UNCHANGED <<registered, synced, rowUI, polls, wizardUI, deletion>>

\* The button Cancel, and a click beside the dialog.
CancelDeletion ==
    /\ doomed # NoCluster
    /\ deletion = "none"
    /\ doomed' = NoCluster
    /\ UNCHANGED <<registered, synced, rowUI, polls, wizardUI, deletion>>

\* confirmDelete.
ConfirmDeletion ==
    /\ doomed # NoCluster
    /\ deletion = "none"
    /\ MayWriteClusters
    /\ deletion' = "unserved"
    /\ UNCHANGED <<registered, synced, rowUI, polls, wizardUI, doomed>>

\* confirmDelete after the answer: a refusal is not told from a success.
DeletionAnswered ==
    /\ deletion = "done"
    /\ doomed' = NoCluster /\ deletion' = "none"
    /\ FetchClusters
    /\ UNCHANGED <<registered, synced, rowUI, wizardUI>>

\* The request failed: the dialog stays.
DeletionLost ==
    /\ deletion = "lost"
    /\ deletion' = "none"
    /\ UNCHANGED <<registered, synced, rowUI, polls, wizardUI, doomed>>

ClustersNext ==
    \/ OthersRegister \/ Scrape \/ ServeDeletion
    \/ \E i \in DOMAIN polls : ServePoll(i) \/ PollArrives(i)
    \/ PollAgain \/ TypeName \/ NextStep \/ Back \/ PressRegister
    \/ \E i \in DOMAIN registering : ServeRegister(i) \/ RegisterSucceeds(i) \/ RegisterFails(i)
    \/ \E n \in ClusterNames : OpenDeletion(n)
    \/ CancelDeletion \/ ConfirmDeletion \/ DeletionAnswered \/ DeletionLost

\* Both endpoints answer with 200.
PollAnswered ==
    \E i \in DOMAIN polls : ServePoll(i) /\ polls'[i].registered.ok /\ polls'[i].synced.ok

\* The interval ticks, requests are answered, the oldest of them too, and again
\* and again with 200.
ClustersFairness ==
    /\ WF_clusterVars(PollAgain)
    /\ WF_clusterVars(polls # <<>> /\ ServePoll(1))
    /\ WF_clusterVars(polls # <<>> /\ PollArrives(1))
    /\ SF_clusterVars(PollAnswered)

ClustersSpec == ClustersInit /\ [][ClustersNext]_clusterVars /\ ClustersFairness

-----------------------------------------------------------------------------

ClustersTypeOK ==
    /\ registered \subseteq ClusterNames /\ synced \subseteq ClusterNames
    /\ clusters \subseteq ClusterNames /\ dbClusters \subseteq ClusterNames
    /\ dbLoaded \in BOOLEAN
    /\ polls \in Seq(Poll)
    /\ step \in {1, 2} /\ draft \in ClusterNames \cup {NoCluster}
    /\ registering \in Seq(Registering)
    /\ doomed \in ClusterNames \cup {NoCluster}
    /\ deletion \in {"none", "unserved", "done", "lost"}
    /\ hastyStep \in BOOLEAN

\* What the user has pasted into step 2 is discarded by the user, or by the
\* success of what was sent from it, and by that of an older registration only
\* if it was still under way when the step was opened (ClustersPage.tsx:264-289,
\* 588-596).
WizardSurvives ==
    [][(step = 2 /\ step' = 1) =>
          \/ Back
          \/ hastyStep
          \/ \E i \in DOMAIN registering :
                /\ registering[i].own /\ registering[i].answer = "done"
                /\ registering' = RemoveAt(Detached, i)]_clusterVars

\* Once nobody registers or deletes, and nothing is synced or purged, the list
\* and its statuses are again and again the true ones, however many polls
\* overlap, are answered out of order, or fail in between
\* (ClustersPage.tsx:406-437).
ClustersSettle ==
    <>[][UNCHANGED <<registered, synced>>]_clusterVars =>
        []<>(\A n \in ClusterNames :
               Row(n) = IF n \notin registered THEN "none"
                        ELSE IF n \in synced THEN "Synced" ELSE "Awaiting first sync")

=============================================================================
