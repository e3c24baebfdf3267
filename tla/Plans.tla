------------------------------- MODULE Plans -------------------------------
(***************************************************************************)
(* Plan management (app/services/progress.py).  The projected end date is  *)
(* informational and left out.                                             *)
(***************************************************************************)
EXTENDS Settlement

\* create_plan, on study date `created`.
CreatePlan(a, goal, size, start, created) ==
    LET plan == [daily_goal |-> goal, start_date |-> start,
                 created |-> created, current_ordinal |-> 0,
                 mishnayot_count |-> size, status |-> "active"]
    IN  [a EXCEPT !.plans = Append(@, plan)]

\* Fault: the row of the date is refreshed whatever its status.
ChangeGoalAnyDay(a, goal, date) ==
    LET kind == ClassifyDay(date, a.study_week)
    IN  [a EXCEPT !.plans[PlanId(a)].daily_goal = goal,
                  !.days[date].day_kind = kind,
                  !.days[date].required_units = RequiredUnitsFor(kind, goal)]

\* change_goal: the row of `date` takes the new quota and kind while it is
\* open, a resolved one keeps what it was judged against.
ChangeGoal(a, goal, date) ==
    LET kind == ClassifyDay(date, a.study_week)
        reopened == [a.days[date] EXCEPT
                        !.day_kind = kind,
                        !.required_units = RequiredUnitsFor(kind, goal)]
        days == IF a.days[date].status = "pending"
                THEN [a.days EXCEPT ![date] = reopened] ELSE a.days
    IN  [a EXCEPT !.plans[PlanId(a)].daily_goal = goal, !.days = days]

\* set_position, to the mishnah whose ordinal is one past `ordinal`.
SetPosition(a, ordinal) ==
    [a EXCEPT !.plans[PlanId(a)].current_ordinal = ordinal]

Abandon(a) ==
    IF HasPlan(a) THEN [a EXCEPT !.plans[PlanId(a)].status = "abandoned"]
                  ELSE a

\* switch_tractate at an instant of the UTC date utcDate.
SwitchTractate(a, goal, size, ordinal, utcDate, created) ==
    LET fresh == CreatePlan(Abandon(a), goal, size, utcDate, created)
    IN  ChangeGoal(SetPosition(fresh, ordinal), goal, utcDate)

=============================================================================
