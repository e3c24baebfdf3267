------------------------------- MODULE Study -------------------------------
(***************************************************************************)
(* Logging study (app/services/study.py): the body of log_study after the  *)
(* account has been settled.                                               *)
(***************************************************************************)
EXTENDS Settlement

\* How many units credit day d.
GoalForDay(a, d) ==
    IF a.days[d].required_units > 0 THEN a.days[d].required_units
                                    ELSE Plan(a).daily_goal

\* Fault: the key is not looked up.
NeverReplayed(a, key) == FALSE

\* The learner has already sent this Idempotency-Key.
Replayed(a, key) ==
    key # NoKey /\ \E i \in DOMAIN a.events : a.events[i].key = key

\* log_study does not raise: the day is open or completed, and the tractate
\* is not finished.
CanLog(a, d) ==
    /\ ~Resolved(a, d) \/ a.days[d].status = "completed"
    /\ Plan(a).current_ordinal < Plan(a).mishnayot_count

\* Record n units on day d and advance the reading cursor.
RecordUnits(a, d, n, key) ==
    LET event == [key |-> key, plan_id |-> PlanId(a),
                  credited_local_date |-> d, units |-> n,
                  from_ordinal |-> Plan(a).current_ordinal]
    IN  [a EXCEPT !.events = Append(@, event),
                  !.plans[PlanId(a)].current_ordinal = @ + n,
                  !.total_units_completed = @ + n,
                  !.days[d].completed_units = @ + n]

\* The last units of a tractate credit the day whatever its goal, and finish
\* the plan.
LogStudy(a, d, units, key) ==
    LET left == Plan(a).mishnayot_count - Plan(a).current_ordinal
        logged == RecordUnits(a, d, IF units < left THEN units ELSE left, key)
        finished == units >= left
        enough == logged.days[d].completed_units >= GoalForDay(logged, d)
        credited == IF ~Resolved(logged, d) /\ (enough \/ finished)
                    THEN CreditDay(logged, d) ELSE logged
    IN  IF finished
        THEN [credited EXCEPT !.plans[PlanId(a)].status = "completed"]
        ELSE credited

=============================================================================
