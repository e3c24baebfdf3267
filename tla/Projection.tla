----------------------------- MODULE Projection -----------------------------
(***************************************************************************)
(* The completion estimate, project_completion of app/services/progress.py: *)
(* a walk over the calendar, one study date per step.  Its caller passes   *)
(* a goal of at least one (create_plan and change_goal are only reached    *)
(* through requests that validate it).                                     *)
(***************************************************************************)
EXTENDS Calendar, FiniteSets

CONSTANTS ProjectedGoals,    \* daily goals to project
          MaxRemaining,      \* bound: units left in the tractate
          MaxProjectionDays  \* MAX_PROJECTION_DAYS, where the walk gives up

ASSUME ProjectedGoalsAssumption == ProjectedGoals \subseteq Nat \ {0}
ASSUME MaxRemainingAssumption == MaxRemaining \in Nat
ASSUME MaxProjectionDaysAssumption == MaxProjectionDays \in Nat

VARIABLES
    remaining_units, daily_goal, start_date, study_week, \* the arguments
    pc,         \* "walk", "done", or "overflow" when it raises
    offset,     \* days after the start date, the walk's cursor
    done,       \* units the walked days have room for
    study_days, \* days walked that are study days
    end_date

arguments == <<remaining_units, daily_goal, start_date, study_week>>
vars == <<arguments, pc, offset, done, study_days, end_date>>

\* Nothing left to read: the projection is the start date and no walk.
Init ==
    /\ remaining_units \in 0..MaxRemaining
    /\ daily_goal \in ProjectedGoals
    /\ start_date \in Dates
    /\ study_week \in StudyWeeks
    /\ pc = IF remaining_units <= 0 THEN "done" ELSE "walk"
    /\ offset = 0
    /\ done = 0
    /\ study_days = 0
    /\ end_date = start_date

\* Fault: rest days have room for the goal too, as dividing would have it.
CapacityOfAnyDay(d) == daily_goal

Capacity(d) == RequiredUnitsFor(ClassifyDay(d, study_week), daily_goal)

\* Fault: the day on which the last unit fits is not counted as reached.
EnoughOnlyBeyond(units) == units > remaining_units

Enough(units) == units >= remaining_units

Walk ==
    LET cursor == start_date + offset
        capacity == Capacity(cursor)
    IN  /\ pc = "walk"
        /\ offset < MaxProjectionDays
        /\ done' = done + capacity
        /\ study_days' = IF capacity > 0 THEN study_days + 1 ELSE study_days
        /\ IF Enough(done')
           THEN pc' = "done" /\ end_date' = cursor /\ UNCHANGED offset
           ELSE offset' = offset + 1 /\ UNCHANGED <<pc, end_date>>
        /\ UNCHANGED arguments

Overflow ==
    /\ pc = "walk"
    /\ offset >= MaxProjectionDays
    /\ pc' = "overflow"
    /\ UNCHANGED <<arguments, offset, done, study_days, end_date>>

\* The caller has its answer.
Returned == pc \in {"done", "overflow"} /\ UNCHANGED vars

Next == Walk \/ Overflow \/ Returned

Spec == Init /\ [][Next]_vars

-----------------------------------------------------------------------------
TypeOK ==
    /\ remaining_units \in Nat
    /\ daily_goal \in Nat \ {0}
    /\ start_date \in Nat
    /\ study_week \in StudyWeeks
    /\ pc \in {"walk", "done", "overflow"}
    /\ offset \in Nat
    /\ done \in Nat
    /\ study_days \in Nat
    /\ end_date \in Nat

IsStudyDay(d) == ClassifyDay(d, study_week) = "weekday"
StudyDaysBetween(first, last) == {d \in first..last : IsStudyDay(d)}

\* The estimate is exact: it is a study day, as many days of the goal as there
\* are study days up to it hold everything that is left, and one fewer do not
\* (the module's docstring: dividing lands the end early, or on a day off).
ProjectionExact ==
    pc = "done" /\ remaining_units > 0 =>
        /\ IsStudyDay(end_date)
        /\ daily_goal * study_days >= remaining_units
        /\ daily_goal * (study_days - 1) < remaining_units

\* study_days, which the learner is shown, are the study days from the start
\* to the estimated end, both included.
CountsStudyDays ==
    pc = "done" /\ remaining_units > 0 =>
        study_days = Cardinality(StudyDaysBetween(start_date, end_date))

\* It gives up only when the days it may walk have no room for the rest
\* (projection_overflow: the goal is too small to ever finish).
OverflowOnlyWhenHopeless ==
    pc = "overflow" =>
        LET last == start_date + MaxProjectionDays - 1
        IN  daily_goal * Cardinality(StudyDaysBetween(start_date, last))
               < remaining_units

\* units_per_week is what any seven days in a row really hold: the table
\* DAYS_PER_WEEK agrees with the weekdays that calendar.py rests on.
WeeklyLoad ==
    LET days_per_week == IF study_week = "seven_days" THEN 7 ELSE 5
    IN  Cardinality(StudyDaysBetween(start_date, start_date + 6))
           = days_per_week

=============================================================================
