------------------------------ MODULE TokensPage ------------------------------
(***************************************************************************)
(* The page of API tokens (web/src/pages/AuthPage.tsx): the list, the       *)
(* dialog that creates a token and shows it once, and the one that deletes. *)
(* The service behind it is external: this server answers writes with 501   *)
(* (internal/api/server.go:130-132), and the page follows the contract of   *)
(* the upstream one.                                                        *)
(*                                                                          *)
(* One mount of the page, of a user signed in with Keycloak.                *)
(***************************************************************************)
EXTENDS Naturals, FiniteSets, SequencesExt

CONSTANTS
    Ids,        \* the ids of tokens
    MaxTokens,  \* how many tokens the page lets a user have: 5
    MaxTokenRequests, \* bound: requests under way
    NoToken     \* no token; create: no request

\* createToken.  history: own, its dialog is still open.
Create == [answer : {"unserved", "done", "refused"}, own : BOOLEAN]

\* deleteToken.  history: own, its dialog is still open.
Delete == [id : Ids, answer : {"unserved", "done"}, own : BOOLEAN]

\* listTokens: whether it is served, and then with which tokens.
TokenList == [served : BOOLEAN, ids : SUBSET Ids]

ASSUME TokenAssumption ==
    /\ NoToken \notin Ids \cup Create
    /\ MaxTokens \in Nat /\ MaxTokenRequests \in Nat

VARIABLES
    storedTokens,  \* the tokens of the service
    tokens,        \* tokens: the list as shown
    createModal,   \* showCreateModal
    createdToken,  \* "unseen", or "seen" once it was on display; "none"
    create,        \* the request of handleCreate: creating
    deleteTarget,  \* the token whose deletion is to be confirmed
    confirmed,     \* deleteConfirmName is its name
    delete,        \* the requests of handleDelete
    tokenLoad,     \* the requests of loadTokens
    hastyCreate, hastyDelete, \* history: a request was under way when the dialog was opened
    tokensCrossed, \* history: asked for the list while an older request was under way
    tokensMissed   \* history: the tokens changed behind the page, since it asked

createUI == <<createModal, createdToken, create, hastyCreate>>
deleteUI == <<deleteTarget, confirmed, delete, hastyDelete>>
listUI == <<tokens, tokenLoad, tokensCrossed, tokensMissed>>
tokenVars == <<storedTokens, createUI, deleteUI, listUI>>

-----------------------------------------------------------------------------

UnservedList == [served |-> FALSE, ids |-> {}]

MayAskTokens ==
    Len(delete) + Len(tokenLoad) + (IF create = NoToken THEN 0 ELSE 1) < MaxTokenRequests

\* No deletion under way is any more the one of the open dialog.
Orphaned == [d \in DOMAIN delete |-> [delete[d] EXCEPT !.own = FALSE]]

\* loadTokens, up to the request.
LoadTokens ==
    /\ tokenLoad' = Append(tokenLoad, UnservedList)
    /\ tokensCrossed' = (tokenLoad # <<>>)

TokensInit ==
    /\ storedTokens \in SUBSET Ids
    /\ tokens = {}
    /\ createModal = FALSE
    /\ createdToken = "none"
    /\ create = NoToken
    /\ deleteTarget = NoToken
    /\ confirmed = FALSE
    /\ delete = <<>>
    /\ tokenLoad = <<UnservedList>>
    /\ hastyCreate = FALSE /\ hastyDelete = FALSE
    /\ tokensCrossed = FALSE /\ tokensMissed = FALSE

-----------------------------------------------------------------------------
(* The service.                                                             *)

\* Another tab of the user.
OthersWriteTokens ==
    /\ storedTokens' \in SUBSET Ids
    /\ tokensMissed' = TRUE
    /\ UNCHANGED <<createUI, deleteUI, tokens, tokenLoad, tokensCrossed>>

ServeTokens(l) ==
    /\ tokenLoad[l] = UnservedList
    /\ tokenLoad' = [tokenLoad EXCEPT ![l] = [served |-> TRUE, ids |-> storedTokens]]
    /\ tokensMissed' = FALSE
    /\ UNCHANGED <<storedTokens, createUI, deleteUI, tokens, tokensCrossed>>

ServeCreate ==
    /\ create # NoToken
    /\ create.answer = "unserved"
    /\ \E i \in Ids \ storedTokens : storedTokens' = storedTokens \cup {i}
    /\ create' = [create EXCEPT !.answer = "done"]
    /\ UNCHANGED <<createModal, createdToken, hastyCreate, deleteUI, listUI>>

\* The service refuses, or the answer is lost.
CreateRefused ==
    /\ create # NoToken
    /\ create.answer # "refused"
    /\ tokensMissed' = (tokensMissed \/ create.answer = "done")
    /\ create' = [create EXCEPT !.answer = "refused"]
    /\ UNCHANGED <<storedTokens, createModal, createdToken, hastyCreate, deleteUI, tokens, tokenLoad, tokensCrossed>>

\* Deleted, or refused: deleteToken returns false, and handleDelete ignores it.
ServeDelete(d) ==
    /\ delete[d].answer = "unserved"
    /\ storedTokens' \in {storedTokens, storedTokens \ {delete[d].id}}
    /\ delete' = [delete EXCEPT ![d].answer = "done"]
    /\ UNCHANGED <<createUI, deleteTarget, confirmed, hastyDelete, listUI>>

-----------------------------------------------------------------------------
(* The page.                                                                *)

TokensArrive(l) ==
    /\ tokenLoad[l].served
    /\ tokens' = tokenLoad[l].ids
    /\ tokenLoad' = RemoveAt(tokenLoad, l)
    /\ UNCHANGED <<storedTokens, createUI, deleteUI, tokensCrossed, tokensMissed>>

\* loadTokens ignores a failure.
TokensFail(l) ==
    /\ tokenLoad' = RemoveAt(tokenLoad, l)
    /\ tokensMissed' = TRUE
    /\ UNCHANGED <<storedTokens, createUI, deleteUI, tokens, tokensCrossed>>

\* Mutant: the dialog starts afresh each time it is opened.
OpenCreateFresh ==
    /\ ~createModal /\ deleteTarget = NoToken
    /\ Cardinality(tokens) < MaxTokens
    /\ createModal' = TRUE
    /\ createdToken' = "none"
    /\ hastyCreate' = (create # NoToken)
    /\ UNCHANGED <<storedTokens, create, deleteUI, listUI>>

\* The button Create Token: what closeModal reset, and what an answer has put
\* there since, is on display.
OpenCreate ==
    /\ ~createModal /\ deleteTarget = NoToken
    /\ Cardinality(tokens) < MaxTokens
    /\ createModal' = TRUE
    /\ createdToken' = IF createdToken = "none" THEN "none" ELSE "seen"
    /\ hastyCreate' = (create # NoToken)
    /\ UNCHANGED <<storedTokens, create, deleteUI, listUI>>

\* closeModal: Cancel, Done, or a click beside the dialog, also while creating.
CloseCreate ==
    /\ createModal
    /\ createModal' = FALSE
    /\ createdToken' = "none"
    /\ create' = IF create = NoToken THEN NoToken ELSE [create EXCEPT !.own = FALSE]
    /\ UNCHANGED <<storedTokens, hastyCreate, deleteUI, listUI>>

\* handleCreate, of a valid name.
PressCreate ==
    /\ createModal
    /\ createdToken = "none"
    /\ create = NoToken
    /\ MayAskTokens
    /\ create' = [answer |-> "unserved", own |-> TRUE]
    /\ UNCHANGED <<storedTokens, createModal, createdToken, hastyCreate, deleteUI, listUI>>

\* handleCreate after its answer: setCreatedToken, whatever dialog is open now.
CreateSucceeds ==
    /\ create # NoToken
    /\ create.answer = "done"
    /\ createdToken' = IF createModal THEN "seen" ELSE "unseen"
    /\ create' = NoToken
    /\ LoadTokens
    /\ UNCHANGED <<storedTokens, createModal, hastyCreate, deleteUI, tokens, tokensMissed>>

CreateFails ==
    /\ create # NoToken
    /\ create.answer = "refused"
    /\ create' = NoToken
    /\ UNCHANGED <<storedTokens, createModal, createdToken, hastyCreate, deleteUI, listUI>>

\* The delete button of a row.
OpenDelete(i) ==
    /\ i \in tokens
    /\ ~createModal /\ deleteTarget = NoToken
    /\ deleteTarget' = i
    /\ confirmed' = FALSE
    /\ hastyDelete' = (delete # <<>>)
    /\ UNCHANGED <<storedTokens, createUI, delete, listUI>>

\* The name is typed.
Confirm ==
    /\ deleteTarget # NoToken
    /\ confirmed' = ~confirmed
    /\ UNCHANGED <<storedTokens, createUI, deleteTarget, delete, hastyDelete, listUI>>

\* closeDeleteModal, also while the request is under way.
CloseDelete ==
    /\ deleteTarget # NoToken
    /\ deleteTarget' = NoToken
    /\ confirmed' = FALSE
    /\ delete' = Orphaned
    /\ UNCHANGED <<storedTokens, createUI, hastyDelete, listUI>>

\* handleDelete: the button stays enabled while the request is under way.
PressDelete ==
    /\ deleteTarget # NoToken
    /\ confirmed
    /\ MayAskTokens
    /\ delete' = Append(delete, [id |-> deleteTarget, answer |-> "unserved", own |-> TRUE])
    /\ UNCHANGED <<storedTokens, createUI, deleteTarget, confirmed, hastyDelete, listUI>>

\* handleDelete after its answer: the dialog closes, whichever is open now.
DeleteAnswered(d) ==
    /\ delete[d].answer = "done"
    /\ deleteTarget' = NoToken
    /\ confirmed' = FALSE
    /\ delete' = RemoveAt(Orphaned, d)
    /\ LoadTokens
    /\ UNCHANGED <<storedTokens, createUI, hastyDelete, tokens, tokensMissed>>

\* fetch fails: handleDelete does not catch it, the dialog stays.
DeleteLost(d) ==
    /\ tokensMissed' = (tokensMissed \/ delete[d].answer = "done")
    /\ delete' = RemoveAt(delete, d)
    /\ UNCHANGED <<storedTokens, createUI, deleteTarget, confirmed, hastyDelete, tokens, tokenLoad, tokensCrossed>>

TokensNext ==
    \/ OthersWriteTokens \/ ServeCreate \/ CreateRefused
    \/ \E l \in DOMAIN tokenLoad : ServeTokens(l) \/ TokensArrive(l) \/ TokensFail(l)
    \/ OpenCreate \/ CloseCreate \/ PressCreate \/ CreateSucceeds \/ CreateFails
    \/ \E i \in Ids : OpenDelete(i)
    \/ Confirm \/ CloseDelete \/ PressDelete
    \/ \E d \in DOMAIN delete : ServeDelete(d) \/ DeleteAnswered(d) \/ DeleteLost(d)

TokensSpec == TokensInit /\ [][TokensNext]_tokenVars

-----------------------------------------------------------------------------

TokensTypeOK ==
    /\ storedTokens \subseteq Ids /\ tokens \subseteq Ids
    /\ createModal \in BOOLEAN
    /\ createdToken \in {"none", "unseen", "seen"}
    /\ create \in Create \cup {NoToken}
    /\ deleteTarget \in Ids \cup {NoToken}
    /\ confirmed \in BOOLEAN
    /\ delete \in Seq(Delete) /\ tokenLoad \in Seq(TokenList)
    /\ hastyCreate \in BOOLEAN /\ hastyDelete \in BOOLEAN
    /\ tokensCrossed \in BOOLEAN /\ tokensMissed \in BOOLEAN

\* A page that waits for nothing lists the tokens that are stored, unless it
\* asked for the list twice at a time, the user has written in another tab
\* since, or an answer was lost (AuthPage.tsx:42-54, 87-108).
ListsStoredTokens ==
    (create = NoToken /\ delete = <<>> /\ tokenLoad = <<>> /\ ~tokensCrossed /\ ~tokensMissed)
        => tokens = storedTokens

\* A token that was created and has reached the page is not dropped before it
\* was on display, also when the dialog was closed while creating: "Copy this
\* token now. You won't be able to see it again." (AuthPage.tsx:454).
TokensAreSeen ==
    [][createdToken = "unseen" => createdToken' # "none"]_tokenVars

\* What the user is entering in a dialog is taken from view by its user, or by
\* the answer to what was sent from it, and by that to an earlier request only
\* if the user opened the dialog while that one was under way.
DialogsSurvive ==
    [][/\ (createModal /\ createdToken = "none" /\ createdToken' # "none") =>
             hastyCreate \/ (create # NoToken /\ create.own)
       /\ (deleteTarget # NoToken /\ deleteTarget' = NoToken) =>
             \/ CloseDelete
             \/ hastyDelete
             \/ \E d \in DOMAIN delete : delete[d].own /\ delete' = RemoveAt(Orphaned, d)]_tokenVars

=============================================================================
