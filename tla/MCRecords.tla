----------------------------- MODULE MCRecords -----------------------------
(* Organizations and their users; the login of one of them, one request     *)
(* after the other; the work logs they write; and the days that reports of  *)
(* these cover.  The modules share no variable, so that each moves only     *)
(* while the others are in an initial state.                                *)
EXTENDS Tenancy, OtpLogin, Attachments, WorkLogPeriod, TLC

CONSTANTS p1, p2, t1   \* two projects and a task that is logged on

\* "Ann@org" is another spelling of "ann@org".
LowerCase == [e \in Emails |-> IF e = "Ann@org" THEN "ann@org" ELSE e]

LogKinds == [t \in Targets |-> IF t = t1 THEN "TASK" ELSE "PROJECT"]
LogIds == [c \in Columns |-> IF c = "task" THEN {t1} ELSE {p1, p2}]

\* 2024 and 2025; 1 January 2024 was a Monday.
Year(february) == <<31, february, 31, 30, 31, 30, 31, 31, 30, 31, 30, 31>>
TwoYears == Year(29) \o Year(28)

NoTenant == InitTenancy
NoLogin == Init
NoEntry == moves = 0 /\ gone = {} /\ (\A e \in Entries : entry[e] = Null) /\ ~joined
           /\ (\A r \in Callers : step[r] = "idle") /\ place[t1]["project"] = p1
NoReport == period = "daily" /\ date = Lengths[1]

InitAll == InitTenancy /\ Init /\ InitEntries /\ InitReport /\ NoEntry
NextAll ==
    \/ /\ NoLogin /\ NoEntry /\ NoReport
       /\ NextTenancy /\ UNCHANGED <<vars, entryVars, reportVars>>
    \/ /\ NoTenant /\ NoEntry /\ NoReport
       /\ Next /\ UNCHANGED <<tenancyVars, entryVars, reportVars>>
    \/ /\ NoTenant /\ NoLogin /\ NoReport
       /\ NextEntry /\ UNCHANGED <<tenancyVars, vars, reportVars>>
    \/ /\ NoTenant /\ NoLogin /\ NoEntry
       /\ NextReport /\ UNCHANGED <<tenancyVars, vars, entryVars>>
SpecAll == InitAll /\ [][NextAll]_<<tenancyVars, vars, entryVars, reportVars>>

\* The requests and the users of Tenancy and Attachments have names in common,
\* so that a permutation of them is a symmetry of both.
Interchangeable == Permutations(Clients) \cup Permutations(OrgIds) \cup Permutations(UserIds)
=============================================================================
