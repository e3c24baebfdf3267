------------------------------ MODULE Calendar ------------------------------
(***************************************************************************)
(* The local-day arithmetic of app/services/calendar.py.  A date is a      *)
(* natural number; day 0 falls on FirstWeekday.  An instant is not         *)
(* modelled: what the program sees of it is the pair of the learner's      *)
(* study date (UserClock.local_date) and the date in UTC, which differ by  *)
(* at most one day and by a sign that depends on the time zone.            *)
(***************************************************************************)
EXTENDS Integers

CONSTANTS FirstWeekday, \* date.weekday() of day 0 (0 is Monday)
          MaxDay        \* bound: the last date the clock reaches

ASSUME FirstWeekdayAssumption == FirstWeekday \in 0..6
ASSUME MaxDayAssumption == MaxDay \in Nat

Dates == 0..MaxDay
NoDate == -1

StudyWeeks == {"seven_days", "five_days"}
DayKinds == {"weekday", "rest_day"}

\* The three kinds of time zone: utc - today is always 0, or 0 and 1 (west of
\* the rollover line), or 0 and -1 (east of it).
ZoneKinds == {-1, 0, 1}

Friday == 4
Saturday == 5
\* Fault: Thursday is taken for a day of rest.
LongWeekend == {Friday - 1, Friday, Saturday}
RestWeekdays == {Friday, Saturday}

Weekday(d) == (FirstWeekday + d) % 7

ClassifyDay(d, week) ==
    IF week = "five_days" /\ Weekday(d) \in RestWeekdays
    THEN "rest_day" ELSE "weekday"

RequiredUnitsFor(kind, goal) == IF kind = "rest_day" THEN 0 ELSE goal

\* What local_date allows: the study dates an instant of the UTC date `utc`
\* can belong to in a zone of that kind.
LocalDates(utc, zone) == {utc, utc - zone} \cap Dates

=============================================================================
