---------------------------- MODULE AlertPreview ----------------------------
(***************************************************************************)
(* The preview in the form of an alert rule: PreviewSection of              *)
(* web/src/pages/AlertsPage.tsx.  It asks, 350 ms after the last change of  *)
(* the matchers, what they match at present, and cancels what it asked      *)
(* before.                                                                  *)
(***************************************************************************)
EXTENDS Naturals, SequencesExt

CONSTANTS
    Matchers,   \* the matchers that are narrow enough to be previewed
    NotReady,   \* those that are not; no result
    MaxPreviews \* bound: requests under way

ASSUME PreviewAssumption ==
    /\ NotReady \notin Matchers
    /\ MaxPreviews \in Nat \ {0}

Preview == [of : Matchers, cancelled : BOOLEAN]

VARIABLES
    matchers,  \* the matchers of the form, NotReady when not ready
    result,    \* result: the matchers whose matches it has
    failed,    \* error
    loading,   \* loading
    timer,     \* whether the timer of the present matchers runs
    previews   \* the requests, as they were sent

previewVars == <<matchers, result, failed, loading, timer, previews>>

PreviewInit ==
    /\ matchers \in Matchers \cup {NotReady}
    /\ result = NotReady
    /\ failed = FALSE
    /\ loading = FALSE
    /\ timer = (matchers # NotReady)
    /\ previews = <<>>

-----------------------------------------------------------------------------

\* The matchers of the form change: the cleanup of the effect, and the effect.
ChangeMatchers(m) ==
    /\ m # matchers
    /\ matchers' = m
    /\ previews' = [i \in DOMAIN previews |-> [previews[i] EXCEPT !.cancelled = TRUE]]
    /\ timer' = (m # NotReady)
    /\ IF m = NotReady
       THEN result' = NotReady /\ failed' = FALSE /\ loading' = FALSE
       ELSE UNCHANGED <<result, failed, loading>>

\* The timer of 350 ms.
TimerFires ==
    /\ timer
    /\ Len(previews) < MaxPreviews
    /\ timer' = FALSE
    /\ loading' = TRUE
    /\ failed' = FALSE
    /\ previews' = Append(previews, [of |-> matchers, cancelled |-> FALSE])
    /\ UNCHANGED <<matchers, result>>

\* Mutant: the answer is shown, cancelled or not.
PreviewArrivesAnyway(i) ==
    /\ result' = previews[i].of
    /\ loading' = FALSE
    /\ previews' = RemoveAt(previews, i)
    /\ UNCHANGED <<matchers, failed, timer>>

\* The answer, which a cancelled request drops.
PreviewArrives(i) ==
    /\ IF previews[i].cancelled THEN UNCHANGED <<result, loading>>
       ELSE result' = previews[i].of /\ loading' = FALSE
    /\ previews' = RemoveAt(previews, i)
    /\ UNCHANGED <<matchers, failed, timer>>

\* Mutant: only an answer ends the loading.
PreviewFailsLoading(i) ==
    /\ IF previews[i].cancelled THEN UNCHANGED <<result, loading, failed>>
       ELSE result' = NotReady /\ UNCHANGED loading /\ failed' = TRUE
    /\ previews' = RemoveAt(previews, i)
    /\ UNCHANGED <<matchers, timer>>

\* catch, and finally.
PreviewFails(i) ==
    /\ IF previews[i].cancelled THEN UNCHANGED <<result, loading, failed>>
       ELSE result' = NotReady /\ loading' = FALSE /\ failed' = TRUE
    /\ previews' = RemoveAt(previews, i)
    /\ UNCHANGED <<matchers, timer>>

PreviewNext ==
    \/ \E m \in Matchers \cup {NotReady} : ChangeMatchers(m)
    \/ TimerFires
    \/ \E i \in DOMAIN previews : PreviewArrives(i) \/ PreviewFails(i)

\* A timer fires, and every request is answered or fails.
PreviewFairness ==
    /\ WF_previewVars(TimerFires)
    /\ WF_previewVars(\E i \in DOMAIN previews : PreviewArrives(i) \/ PreviewFails(i))

PreviewSpec == PreviewInit /\ [][PreviewNext]_previewVars /\ PreviewFairness

-----------------------------------------------------------------------------

PreviewTypeOK ==
    /\ matchers \in Matchers \cup {NotReady}
    /\ result \in Matchers \cup {NotReady}
    /\ failed \in BOOLEAN /\ loading \in BOOLEAN /\ timer \in BOOLEAN
    /\ previews \in Seq(Preview)

\* "evaluating..." does not stay: it is shown only while the answer that will
\* end it, the one to a request that is not cancelled, is still to come, or that
\* request is about to be made (AlertsPage.tsx:560-580, 594-599).
EvaluationEnds ==
    loading => timer \/ \E i \in DOMAIN previews : ~previews[i].cancelled

Shown == INSTANCE Viewing WITH
    Questions <- Matchers, Nothing <- NotReady, asked <- matchers, shown <- result

\* What the preview comes to show is always what the present matchers match, or
\* nothing; what it shows of the matchers before is gone once the user has
\* stopped typing: the preview implements Viewing (AlertsPage.tsx:553-585).
PreviewIsViewing == Shown!Spec

=============================================================================
