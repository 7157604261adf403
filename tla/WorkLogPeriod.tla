--------------------------- MODULE WorkLogPeriod ---------------------------
(***************************************************************************)
(* The date range of the daily, weekly and monthly work log reports of     *)
(* WorkLogsService, getPeriodRange, over a calendar of months.  A day is   *)
(* the number of days since the first, which is a Monday; setUTCDate and   *)
(* setUTCMonth count from the first of the month the Date object is in, as *)
(* JavaScript does, and run over into the months around it.                *)
(***************************************************************************)
EXTENDS Integers, Sequences

CONSTANT Lengths     \* the days of each month of the calendar, in order

ASSUME LengthsAssumption ==
    /\ Lengths \in Seq(28 .. 31)
    /\ Len(Lengths) > 2

VARIABLES
    period, date,    \* the last report asked for
    range            \* the range it covers

reportVars == <<period, date, range>>

Months == 1 .. Len(Lengths)
Periods == {"daily", "weekly", "monthly"}

\* The first day of each month, and of the one after the calendar.
FirstDay[m \in 1 .. Len(Lengths) + 1] == IF m = 1 THEN 0 ELSE FirstDay[m - 1] + Lengths[m - 1]
\* The days asked for; a range may run into the months before and after.
Anchors == FirstDay[2] .. FirstDay[Len(Lengths)] - 1

Month(day) == CHOOSE m \in Months : FirstDay[m] <= day /\ day < FirstDay[m + 1]
getUTCDate(day) == day - FirstDay[Month(day)] + 1
getUTCDay(day) == (day + 1) % 7                \* 0 is Sunday
setUTCDate(day, n) == FirstDay[Month(day)] + n - 1
DaySet(month, n) == FirstDay[month] + n - 1

daysSinceMonday(day) == (getUTCDay(day) + 6) % 7

DailyRange(anchor) == [startDate |-> anchor, endDate |-> anchor]

\* The end starts as a copy of the anchor, so it is in the anchor's month.
WeeklyRange(anchor) ==
    LET start == setUTCDate(anchor, getUTCDate(anchor) - daysSinceMonday(anchor))
    IN  [startDate |-> start, endDate |-> setUTCDate(anchor, getUTCDate(start) + 6)]

LastDayIsThirty(anchor) == DaySet(Month(anchor), 30)
\* setUTCMonth(month + 1, 0): the day before the first of the next month.
LastOfMonth(anchor) == DaySet(Month(anchor) + 1, 0)

MonthlyRange(anchor) == [startDate |-> setUTCDate(anchor, 1), endDate |-> LastOfMonth(anchor)]

getPeriodRange(p, anchor) ==
    CASE p = "daily" -> DailyRange(anchor)
      [] p = "weekly" -> WeeklyRange(anchor)
      [] p = "monthly" -> MonthlyRange(anchor)

\* getReport: what it was asked for, and the range it queries.
Report(p, anchor) ==
    /\ period' = p /\ date' = anchor
    /\ range' = getPeriodRange(p, anchor)

InitReport == period = "daily" /\ date = FirstDay[2] /\ range = getPeriodRange(period, date)
\* Nothing is kept between reports, so asking day by day leaves none out.
NextReport == \E p \in Periods, anchor \in {date, date + 1} \cap Anchors : Report(p, anchor)

SpecReport == InitReport /\ [][NextReport]_reportVars

-----------------------------------------------------------------------------
(* Properties                                                              *)

\* Monthly reports cover every day once: the day after a range starts the next.
\* A weekly range that starts in the month of the day asked for runs from
\* Monday to Sunday and holds that day.  (One that starts in the month before
\* ends too late: its end is counted from the first of the later month.)
PeriodsFitTheCalendar ==
    /\ period = "monthly" /\ range.endDate + 1 \in Anchors =>
          getPeriodRange("monthly", range.endDate + 1).startDate = range.endDate + 1
    /\ period = "weekly" /\ Month(range.startDate) = Month(date) =>
          /\ getUTCDay(range.startDate) = 1
          /\ range.endDate = range.startDate + 6
          /\ date \in range.startDate .. range.endDate
=============================================================================
