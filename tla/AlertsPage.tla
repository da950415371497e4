------------------------------ MODULE AlertsPage ------------------------------
(***************************************************************************)
(* The page of alert rules (web/src/pages/AlertsPage.tsx): the list, the    *)
(* form for one rule, and the requests that list, save and delete rules.    *)
(* The service behind it is external: this server answers it with 501       *)
(* (internal/api/server.go:135-136), and the page follows the contract of   *)
(* the upstream one.                                                        *)
(*                                                                          *)
(* One mount of the page, of a user who can manage alerts.  Requests are    *)
(* served, and their answers applied, in any order.                         *)
(***************************************************************************)
EXTENDS Naturals, SequencesExt

CONSTANTS
    RuleNames,   \* the names of rules
    New,         \* the form is for a new rule: editing is null
    NoForm,      \* form is null
    MaxAlertRequests \* bound: requests under way

\* form and editing: the rule, and whether what submit requires is filled in.
\* history: hasty, a save was under way when the form was opened.
RuleForm == [of : RuleNames \cup {New}, complete : BOOLEAN, hasty : BOOLEAN]

\* What handles the answer: submit of a form, or remove.
\* history: own, the form that was submitted is still open.
Write == [kind : {"create", "update", "delete"}, rule : RuleNames, own : BOOLEAN,
          answer : {"unserved", "done", "refused"}]

\* listAlerts: whether it is served, and then with which rules.
Listing == [served : BOOLEAN, names : SUBSET RuleNames]

ASSUME AlertAssumption ==
    /\ New \notin RuleNames
    /\ NoForm \notin RuleForm
    /\ MaxAlertRequests \in Nat

VARIABLES
    storedRules,  \* the rules of the service
    rules,        \* rules: the list as shown
    form,         \* form and editing
    write,        \* the requests of submit and remove, as they were sent
    listing,      \* the requests of refresh
    rulesLoading, \* loading
    rulesCrossed, \* history: asked for the list while an older request was under way
    rulesMissed   \* history: the rules changed behind the page, since it asked

alertVars == <<storedRules, rules, form, write, listing, rulesLoading, rulesCrossed, rulesMissed>>

-----------------------------------------------------------------------------

UnservedListing == [served |-> FALSE, names |-> {}]

Saving == {w \in DOMAIN write : write[w].kind # "delete"}

MayAskAlerts == Len(write) + Len(listing) < MaxAlertRequests

\* The rows of the table, with their buttons.
RowsShown == IF rulesLoading THEN {} ELSE rules

\* No save under way is any more the one of the open form.
Disowned == [w \in DOMAIN write |-> [write[w] EXCEPT !.own = FALSE]]

\* refresh, up to the request.
RefreshRules ==
    /\ listing' = Append(listing, UnservedListing)
    /\ rulesLoading' = TRUE
    /\ rulesCrossed' = (listing # <<>>)

AlertsInit ==
    /\ storedRules \in SUBSET RuleNames
    /\ rules = {}
    /\ form = NoForm
    /\ write = <<>>
    /\ listing = <<UnservedListing>>
    /\ rulesLoading = TRUE
    /\ rulesCrossed = FALSE
    /\ rulesMissed = FALSE

-----------------------------------------------------------------------------
(* The service.                                                             *)

OthersWriteRules ==
    /\ storedRules' \in SUBSET RuleNames
    /\ rulesMissed' = TRUE
    /\ UNCHANGED <<rules, form, write, listing, rulesLoading, rulesCrossed>>

ServeRules(l) ==
    /\ listing[l] = UnservedListing
    /\ listing' = [listing EXCEPT ![l] = [served |-> TRUE, names |-> storedRules]]
    /\ rulesMissed' = FALSE
    /\ UNCHANGED <<storedRules, rules, form, write, rulesLoading, rulesCrossed>>

\* A name is created once; only a rule that is there is updated or deleted.
ServeWrite(w) ==
    /\ write[w].answer = "unserved"
    /\ LET r == write[w].rule
           served == (write[w].kind = "create") = (r \notin storedRules)
       IN  /\ write' = [write EXCEPT ![w].answer = IF served THEN "done" ELSE "refused"]
           /\ storedRules' = IF ~served THEN storedRules
                             ELSE IF write[w].kind = "delete" THEN storedRules \ {r}
                             ELSE storedRules \cup {r}
    /\ UNCHANGED <<rules, form, listing, rulesLoading, rulesCrossed, rulesMissed>>

\* The answer to a request is lost, whether it was served or not.
LoseWrite(w) ==
    /\ write[w].answer # "refused"
    /\ rulesMissed' = (rulesMissed \/ write[w].answer = "done")
    /\ write' = [write EXCEPT ![w].answer = "refused"]
    /\ UNCHANGED <<storedRules, rules, form, listing, rulesLoading, rulesCrossed>>

-----------------------------------------------------------------------------
(* The page.                                                                *)

RulesArrive(l) ==
    /\ listing[l].served
    /\ rules' = listing[l].names
    /\ rulesLoading' = FALSE
    /\ listing' = RemoveAt(listing, l)
    /\ UNCHANGED <<storedRules, form, write, rulesCrossed, rulesMissed>>

\* The request fails: the error is shown, over the list as it was.
RulesFail(l) ==
    /\ rulesLoading' = FALSE
    /\ listing' = RemoveAt(listing, l)
    /\ rulesMissed' = TRUE
    /\ UNCHANGED <<storedRules, rules, form, write, rulesCrossed>>

OpenForm(r, complete) ==
    /\ form' = [of |-> r, complete |-> complete, hasty |-> Saving # {}]
    /\ write' = Disowned
    /\ UNCHANGED <<storedRules, rules, listing, rulesLoading, rulesCrossed, rulesMissed>>

\* The button New rule.
StartCreate ==
    /\ form = NoForm
    /\ OpenForm(New, FALSE)

\* The button Edit of a row, also while the form is open for another.
StartEdit(r) ==
    /\ r \in RowsShown
    /\ OpenForm(r, TRUE)

\* The fields, and the clusters ticked.
TypeRule ==
    /\ form # NoForm
    /\ form' = [form EXCEPT !.complete = ~@]
    /\ UNCHANGED <<storedRules, rules, write, listing, rulesLoading, rulesCrossed, rulesMissed>>

\* The button Cancel.
CancelForm ==
    /\ form # NoForm
    /\ form' = NoForm
    /\ write' = Disowned
    /\ UNCHANGED <<storedRules, rules, listing, rulesLoading, rulesCrossed, rulesMissed>>

\* submit: a form that is not complete is refused on the spot; the button stays
\* enabled while the request is under way.
Submit ==
    /\ form # NoForm
    /\ form.complete
    /\ MayAskAlerts
    /\ \E r \in IF form.of = New THEN RuleNames ELSE {form.of} :
          write' = Append(write, [kind |-> IF form.of = New THEN "create" ELSE "update",
                                  rule |-> r, own |-> TRUE, answer |-> "unserved"])
    /\ UNCHANGED <<storedRules, rules, form, listing, rulesLoading, rulesCrossed, rulesMissed>>

\* submit after its answer: cancel(), whatever form is open now, and refresh().
SubmitSucceeds(w) ==
    /\ w \in Saving
    /\ write[w].answer = "done"
    /\ form' = NoForm
    /\ write' = RemoveAt(Disowned, w)
    /\ RefreshRules
    /\ UNCHANGED <<storedRules, rules, rulesMissed>>

\* remove: the button Delete of a row, confirmed.
RemoveRule(r) ==
    /\ r \in RowsShown
    /\ MayAskAlerts
    /\ write' = Append(write,
          [kind |-> "delete", rule |-> r, own |-> FALSE, answer |-> "unserved"])
    /\ UNCHANGED <<storedRules, rules, form, listing, rulesLoading, rulesCrossed, rulesMissed>>

\* Mutant: a rule that is deleted takes the open form with it.
RemoveSucceedsAndCancels(w) ==
    /\ w \notin Saving
    /\ write[w].answer = "done"
    /\ form' = NoForm
    /\ write' = RemoveAt(Disowned, w)
    /\ RefreshRules
    /\ UNCHANGED <<storedRules, rules, rulesMissed>>

\* Mutant: the list is not asked for again.
RemoveSucceedsQuietly(w) ==
    /\ w \notin Saving
    /\ write[w].answer = "done"
    /\ write' = RemoveAt(write, w)
    /\ UNCHANGED <<storedRules, rules, form, listing, rulesLoading, rulesCrossed, rulesMissed>>

RemoveSucceeds(w) ==
    /\ w \notin Saving
    /\ write[w].answer = "done"
    /\ write' = RemoveAt(write, w)
    /\ RefreshRules
    /\ UNCHANGED <<storedRules, rules, form, rulesMissed>>

\* catch of submit and of remove: the error is shown, above whatever is open.
WriteFails(w) ==
    /\ write[w].answer = "refused"
    /\ write' = RemoveAt(write, w)
    /\ UNCHANGED <<storedRules, rules, form, listing, rulesLoading, rulesCrossed, rulesMissed>>

AlertsNext ==
    \/ OthersWriteRules
    \/ \E l \in DOMAIN listing : ServeRules(l) \/ RulesArrive(l) \/ RulesFail(l)
    \/ \E w \in DOMAIN write :
          ServeWrite(w) \/ LoseWrite(w) \/ SubmitSucceeds(w) \/ RemoveSucceeds(w) \/ WriteFails(w)
    \/ StartCreate \/ TypeRule \/ CancelForm \/ Submit
    \/ \E r \in RuleNames : StartEdit(r) \/ RemoveRule(r)

AlertsSpec == AlertsInit /\ [][AlertsNext]_alertVars

-----------------------------------------------------------------------------

AlertsTypeOK ==
    /\ storedRules \subseteq RuleNames /\ rules \subseteq RuleNames
    /\ form \in RuleForm \cup {NoForm}
    /\ write \in Seq(Write) /\ listing \in Seq(Listing)
    /\ rulesLoading \in BOOLEAN /\ rulesCrossed \in BOOLEAN /\ rulesMissed \in BOOLEAN

\* A page that waits for nothing lists the rules that are stored, unless it
\* asked for the list twice at a time (refresh is not cancelled), others have
\* written since, or an answer was lost (AlertsPage.tsx:122-138, 154-191).
ListsStoredRules ==
    (write = <<>> /\ listing = <<>> /\ ~rulesCrossed /\ ~rulesMissed) => rules = storedRules

\* A form that is open is closed by its user, or by the success of a save that
\* was made from it, and by that of another only if the user opened it while
\* that save was under way (AlertsPage.tsx:148-152, 171-177).
FormsSurvive ==
    [][(form # NoForm /\ form' = NoForm) =>
          \/ CancelForm
          \/ form.hasty
          \/ \E w \in Saving : write[w].own /\ write' = RemoveAt(Disowned, w)]_alertVars

=============================================================================
