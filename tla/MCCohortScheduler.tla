------------------------- MODULE MCCohortScheduler -------------------------
EXTENDS CohortScheduler

\* One rule that has an occurrence at every time the clock reaches, and one after.
MCRules == {1 .. MaxTime + 1}

\* PUT requests for an enabled schedule without catch-up; the rows in the
\* store at the start have it or not.
MCForms == [enabled: {TRUE}, catchUp: {FALSE}]

-----------------------------------------------------------------------------
(* Calendar rules, as the recurrence package has them.  The times of the    *)
(* clock stand for days around the change of the offset and the end of      *)
(* February, on each of which the scheduler may compute the next occurrence.*)

Zone(before, after, change) == [before |-> before, after |-> after, change |-> change]
Change == 24 * 26
\* Ahead of and behind UTC, spring and autumn; two hours before midnight by two
\* hours, so that 23:00 becomes 01:00; over the date line by a day.
CalendarZones ==
    {Zone(0, 0, Change), Zone(1, 2, Change + 1), Zone(2, 1, Change + 1), Zone(-5, -4, Change + 7),
     Zone(-4, -5, Change + 6), Zone(1, 3, Change - 3), Zone(3, 1, Change - 3), Zone(-10, 14, Change)}
CalendarRule(kind, every, anchor, weekdays, days, lastDay) ==
    [kind |-> kind, every |-> every, anchor |-> anchor, weekdays |-> weekdays, days |-> days,
     last |-> lastDay]
Kinds ==
    {CalendarRule("interval", n, a, {}, {}, FALSE) : n \in {1, 3}, a \in {0, 25, 29}} \cup
    {CalendarRule("weekly", 1, 0, {1, 2}, {}, FALSE), CalendarRule("weekly", 1, 0, {}, {}, FALSE),
     CalendarRule("monthly", 1, 0, {}, {1, 28}, FALSE), CalendarRule("monthly", 1, 0, {}, {}, TRUE),
     CalendarRule("monthly", 1, 0, {}, {27}, TRUE), CalendarRule("monthly", 1, 0, {}, {29}, FALSE)}
CalendarRules ==
    {[kind |-> k.kind, every |-> k.every, anchor |-> k.anchor, weekdays |-> k.weekdays,
      days |-> k.days, last |-> k.last, hour |-> h, zone |-> z] :
        k \in Kinds, h \in {0, 2, 23}, z \in CalendarZones}

Calendar == INSTANCE Recurrence WITH
    Rules <- CalendarRules, NoTime <- None, MonthLengths <- <<28, 31, 30>>,
    MaxIntervalDays <- 365, MaxDayOfMonth <- 28

HoursOf(day) == {Change + 24 * (day - 1) + h : h \in 0..23}
FirstOn == [day \in Times |-> Calendar!FirstAfter(HoursOf(day))]

\* CohortScheduler takes Next of a rule for its least later occurrence.  That is
\* what Rule.Next of the recurrence package computes, in every hour of the day
\* the clock is on: over a change of the offset that skips or repeats the time of
\* day or pushes it over midnight, over the end of a month, before and after an
\* anchor.  A time of day that is skipped moves forward by the gap, as the docs
\* have it, but for a zone behind UTC, where the code moves it back (FirstAfter).
NextIsFirst == FirstOn[now]
=============================================================================
