----------------------------- MODULE Recurrence -----------------------------
(***************************************************************************)
(* Recurrence rules (server/recurrence): the next time a schedule is due.  *)
(*                                                                         *)
(* Instants are hours since the midnight, in UTC, of day 0; a wall clock   *)
(* is in hours since the midnight of day 0 in its zone.  A zone is an      *)
(* offset that changes once, at an instant.  The module has no state: Next *)
(* is compared with a reference definition.                                *)
(***************************************************************************)
EXTENDS Integers, Sequences, FiniteSets, FiniteSetsExt

CONSTANTS
    NoTime,
    Rules,              \* [kind, every, anchor, weekdays, days, last, hour, zone]
    MonthLengths,       \* of the months from day 0 on
    MaxIntervalDays, MaxDayOfMonth

Horizon == FoldFunction(LAMBDA a, b : a + b, 0, MonthLengths)
FirstOfMonth[i \in DOMAIN MonthLengths] ==
    IF i = 1 THEN 0 ELSE FirstOfMonth[i - 1] + MonthLengths[i - 1]
DayOfMonth(d) == d - Max({first \in {FirstOfMonth[i] : i \in DOMAIN MonthLengths} : first <= d}) + 1

Offset(zone, t) == IF t < zone.change THEN zone.before ELSE zone.after
Wall(zone, t) == t + Offset(zone, t)
DateOf(wall) == wall \div 24

Validate(r) ==
    /\ \/ r.kind = "interval" /\ r.every \in 1..MaxIntervalDays
       \/ r.kind = "weekly" /\ r.weekdays # {}
       \/ r.kind = "monthly" /\ r.days \subseteq 1..MaxDayOfMonth /\ (r.days # {} \/ r.last)
    /\ r.hour \in 0..23

\* External, time.Date: the offset at the wall clock, taken for an instant, is
\* tried; if it is not in force at the instant it gives, the one that is, is used.
\* A wall clock that a zone skips comes out as it would be on one side of the
\* change or the other: later in a zone ahead of UTC, earlier in one behind it.
TimeDate(zone, wall) ==
    LET utc == wall - Offset(zone, wall)
    IN  IF (utc < zone.change) = (wall < zone.change) THEN utc ELSE wall - Offset(zone, utc)

\* A wall clock that comes twice, left as time.Date has it.
at_AsGiven(r, d) == TimeDate(r.zone, 24 * d + r.hour)

\* The first of the instants at which a day shows the time of day.
at(r, d) ==
    LET t == TimeDate(r.zone, 24 * d + r.hour)
        back == Offset(r.zone, t - 3) - Offset(r.zone, t)
    IN  IF back > 0 /\ Wall(r.zone, t - back) = Wall(r.zone, t) THEN t - back ELSE t

matches(r, d) ==
    \/ r.kind = "weekly" /\ d % 7 \in r.weekdays
    \/ r.kind = "monthly" /\ (DayOfMonth(d) \in r.days \/ (r.last /\ DayOfMonth(d + 1) = 1))

\* The days that Next tries, in this order, up to the first whose occurrence is
\* after t: from the day before t on, or the occurrences of an interval rule
\* from the first that is not before that day.
Tried(r, t) ==
    LET start == DateOf(Wall(r.zone, t)) - 1
        gap == start - r.anchor
        k == IF gap > 0 THEN (gap + r.every - 1) \div r.every ELSE 0
    IN  IF r.kind = "interval"
        THEN {d \in r.anchor + k * r.every..Horizon : (d - r.anchor) % r.every = 0}
        ELSE {d \in start..start + 63 : d \in 0..Horizon - 2 /\ matches(r, d)}

Next(r, t) ==
    LET after == {d \in Tried(r, t) : at(r, d) > t}
    IN  IF Validate(r) /\ after # {} THEN at(r, Min(after)) ELSE NoTime

-----------------------------------------------------------------------------
(* The reference: the days of a rule, and the instant of each.             *)

IsDay(r, d) ==
    CASE r.kind = "interval" -> \E k \in 0..d : d = r.anchor + k * r.every
      [] r.kind = "weekly"   -> d % 7 \in r.weekdays
      [] r.kind = "monthly"  -> DayOfMonth(d) \in r.days \/ (r.last /\ DayOfMonth(d + 1) = 1)
\* The documented instant of a day: the first that shows the time of day, or, where
\* the zone skips it, the one that the offset before the change gives, which shows
\* a time later by the length of the gap.
Shown(r, d) == {t \in 24 * d + r.hour - 30..24 * d + r.hour + 30 : Wall(r.zone, t) = 24 * d + r.hour}
Occurrence(r, d) == IF Shown(r, d) # {} THEN Min(Shown(r, d)) ELSE 24 * d + r.hour - r.zone.before

\* Where the wall clock that is skipped, taken for an instant, is before the change,
\* as in a zone behind UTC, time.Date moves it the other way: earlier, by the gap.
MovedEarlier(r, d) == Shown(r, d) = {} /\ 24 * d + r.hour < r.zone.change

\* "Next returns the first occurrence strictly after t" (Rule.Next): of all days
\* of the rule, over a change of the offset that skips or repeats the time of
\* day or pushes it over midnight, over the ends of months of any length, before
\* and after the anchor; and there always is one within its 64 days.  The one
\* exception is the occurrence that time.Date moves earlier, against the comment
\* in Rule.at; the occurrences before and after it are right.
FirstAfter(sought) ==
    \A r \in Rules : Validate(r) =>
        LET days == {d \in 0..Horizon - 2 : IsDay(r, d)}
            times == {Occurrence(r, d) : d \in days}
            earlier == {Occurrence(r, d) : d \in {d \in days : MovedEarlier(r, d)}}
        IN  \A t \in sought :
                LET first == Min({o \in times : o > t})
                IN  Next(r, t) = first \/ first \in earlier
=============================================================================
