------------------------------ MODULE Portion ------------------------------
(***************************************************************************)
(* The portion on screen: _portion_ordinals and study_portion of           *)
(* app/api/routes.py.  It is computed anew on every read from the reading  *)
(* cursor, today's row and the events credited today.                      *)
(***************************************************************************)
EXTENDS RequestsSafety

\* Fault: the units of the day's row are taken for those of the plan.
LoggedInTheDay(a, d) == a.days[d].completed_units

LoggedToday(a, d) ==
    MapThenSumSet(LAMBDA i : a.events[i].units,
                  {i \in DOMAIN a.events :
                      /\ a.events[i].plan_id = PlanId(a)
                      /\ a.events[i].credited_local_date = d})

\* Fault: the portion moves with the cursor.
PortionAtCursor(a, d) == Plan(a).current_ordinal + 1

PortionStart(a, d) == Plan(a).current_ordinal - LoggedToday(a, d) + 1

\* Fault: the row decides how many are shown, also when it asks for none or
\* was opened under another plan.
RowDecidesCount(a, d) == a.days[d].required_units

PortionCount(a, d) ==
    LET required == IF a.days[d].plan_id = PlanId(a)
                    THEN a.days[d].required_units ELSE 0
    IN  IF required = 0 THEN Plan(a).daily_goal ELSE required

PortionOrdinals(a, d) ==
    PortionStart(a, d)..(PortionStart(a, d) + PortionCount(a, d) - 1)

\* study_portion leaves out what is not in the tractate.
Shown(a, d) == PortionOrdinals(a, d) \cap (1..Plan(a).mishnayot_count)

-----------------------------------------------------------------------------
\* An account as study_portion sees it, after today_state.
Readable == HasPlan(db) /\ HasDay(db, today)

\* While nothing has been logged today under this plan, and while the quota of
\* a row of this plan is not met, the next mishnah is on the screen: the
\* learner can go on ticking, also right after a change of the goal, of the
\* position or of the tractate (test_portion.py).
NextIsShown ==
    LET day == db.days[today]
        untouched == \A i \in DOMAIN db.events :
                        \/ db.events[i].plan_id # PlanId(db)
                        \/ db.events[i].credited_local_date # today
        short == /\ day.plan_id = PlanId(db)
                 /\ day.completed_units < GoalForDay(db, today)
    IN  Readable /\ (untouched \/ short)
           => Plan(db).current_ordinal + 1 \in Shown(db, today)

\* Ticking off mishnayot leaves the portion where it is: a log request changes
\* neither its first mishnah nor its length, unless it ends the tractate
\* (routes.py: anchored to where the day started, so the whole portion stays on
\* screen).
PortionStays ==
    [][/\ pc = "commit" /\ req.op = "log"
       /\ Readable /\ HasPlan(db')
       => PortionOrdinals(db', today) = PortionOrdinals(db, today)]_vars

=============================================================================
