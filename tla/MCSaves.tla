------------------------------ MODULE MCSaves ------------------------------
(* The dates of one row, the saves of another, and the reports that read     *)
(* between saves.  The modules share no variable, so that each moves only    *)
(* while the others are in their initial states.                             *)
EXTENDS DateWindow, RowSaves, Reports, TLC

CONSTANTS l1, l2, o1, o2, u1, u2

\* A work log of one organization, and room for one of another.
Owners == (l1 :> o2) @@ (l2 :> o1)
OneLog == (l1 :> [user |-> u1, minutes |-> 2, date |-> 1, deleted |-> FALSE]) @@ (l2 :> Missing)
\* The list of all logs, and the report of one user.
Asked == {[kind |-> "list", user |-> Missing, from |-> 1, to |-> 1],
          [kind |-> "report", user |-> u1, from |-> 1, to |-> 1]}

Interchangeable == Permutations(Savers) \cup Permutations(Titles) \cup Permutations(Calls)

NoDates == row = None /\ ~cached
NoSaves == begun = 0 /\ issue.status = "OPEN"
NoAnswers == /\ ~disturbed /\ writes = 0
             /\ \A key \in Keys : answers[key] = Missing
             /\ \A c \in Calls : at[c] = "idle"

InitAll == Init /\ InitSaves /\ InitAnswers
NextAll ==
    \/ NoSaves /\ NoAnswers /\ Next /\ UNCHANGED <<saves, answerVars>>
    \/ NoDates /\ NoAnswers /\ NextSave /\ UNCHANGED <<vars, answerVars>>
    \/ NoDates /\ NoSaves /\ NextAnswer /\ UNCHANGED <<vars, saves>>
SpecAll == InitAll /\ [][NextAll]_<<vars, saves, answerVars>>
============================================================================
