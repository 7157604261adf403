---------------------------- MODULE MCSession ----------------------------
(* Sessions; and a client that pages through a list.  The modules share no *)
(* variable: each moves only while the other is in its initial state.      *)
EXTENDS Session, Lists, TLC

CONSTANTS u1, o1, o2

HomeOrgs == [u \in Users |-> o1]
MemberHome == [u \in Users |-> "USER"]

NoSession == InitSessions
NoList == InitLists /\ service = "teams"

InitAll == InitSessions /\ InitLists
NextAll ==
    \/ NoList /\ NextSession /\ UNCHANGED listVars
    \/ NoSession /\ NextLists /\ UNCHANGED sessionVars
SpecAll == InitAll /\ [][NextAll]_<<sessionVars, listVars>>

Interchangeable == Permutations(Handlers)
==========================================================================
