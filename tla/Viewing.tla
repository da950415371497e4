------------------------------- MODULE Viewing -------------------------------
(***************************************************************************)
(* What the parts of the web UI that ask a question and show the answer     *)
(* owe their user: something new that is shown is the answer to the present *)
(* question, and an answer to an earlier one does not stay.                 *)
(***************************************************************************)

CONSTANTS
    Questions,  \* what can be asked
    Nothing     \* nothing is asked; nothing is shown

VARIABLES
    asked,  \* the present question
    shown   \* the question that what is shown answers

vars == <<asked, shown>>

Init ==
    /\ asked \in Questions \cup {Nothing}
    /\ shown = Nothing

\* Another question: the answer to the one before may stay for now.
Ask ==
    /\ asked' \in Questions \cup {Nothing}
    /\ shown' \in {shown, Nothing}

\* The answer, or nothing if there is none.
Show ==
    /\ shown' \in {asked, Nothing}
    /\ UNCHANGED asked

\* What is shown is not the answer to the present question.
Outdated == shown \notin {asked, Nothing}

Next == Ask \/ Show

\* Once the user asks nothing else.
Fairness == \A q \in Questions : WF_vars(asked = q /\ Outdated /\ Show)

Spec == Init /\ [][Next]_vars /\ Fairness

=============================================================================
