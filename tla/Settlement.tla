----------------------------- MODULE Settlement -----------------------------
(***************************************************************************)
(* The settlement engine, app/services/settlement.py, one day at a time:   *)
(* what get_or_create_day, _decide, _apply and the functions _apply calls  *)
(* do to an account.  The loop over the closed days is in Requests, one    *)
(* action per iteration.                                                   *)
(***************************************************************************)
EXTENDS Account

Decisions == {"carry", "credit", "miss", "freeze", "rest", "exempt"}

\* Fault: the row is not looked up.
GetOrCreateDayAlwaysNew(a, d) ==
    LET kind == ClassifyDay(d, a.study_week)
        row == [NoDay EXCEPT !.day_kind = kind, !.status = "pending",
                   !.required_units =
                       RequiredUnitsFor(kind, Plan(a).daily_goal),
                   !.plan_id = PlanId(a)]
    IN  [a EXCEPT !.days[d] = row]

GetOrCreateDay(a, d) ==
    LET kind == ClassifyDay(d, a.study_week)
        row == [day_kind |-> kind,
                required_units |-> RequiredUnitsFor(kind, Plan(a).daily_goal),
                completed_units |-> 0, status |-> "pending",
                points_awarded |-> 0, streak_after |-> 0,
                plan_id |-> PlanId(a)]
    IN  IF HasDay(a, d) THEN a ELSE [a EXCEPT !.days[d] = row]

-----------------------------------------------------------------------------
\* Fault: a resolved day is judged again.
DecideAgain(a, d, fresh) ==
    IF d < Plan(a).start_date THEN "exempt"
    ELSE IF a.days[d].completed_units >= a.days[d].required_units
         THEN "credit"
    ELSE IF a.quantity > 0 THEN "freeze" ELSE "miss"

\* Fault: a rest day is judged like any other.
DecideWithoutRest(a, d, fresh) ==
    LET day == a.days[d] IN
    IF Resolved(a, d) THEN "carry"
    ELSE IF d < Plan(a).start_date THEN "exempt"
    ELSE IF day.required_units > 0 /\ day.completed_units >= day.required_units
         THEN "credit"
    ELSE IF a.quantity > 0 THEN "freeze" ELSE "miss"

\* _decide.  The source recognises a rest day by identity with the enum
\* member, and day_kind is a plain string column: a row that this transaction
\* has just built carries the member, a row read back from the database
\* carries an equal string that is not it.  `fresh` says which one it is.
Decide(a, d, fresh) ==
    LET day == a.days[d] IN
    IF Resolved(a, d) THEN "carry"
    ELSE IF d < Plan(a).start_date THEN "exempt"
    ELSE IF fresh /\ day.day_kind = "rest_day"
         THEN IF day.completed_units >= Plan(a).daily_goal
              THEN "credit" ELSE "rest"
    ELSE IF day.required_units > 0 /\ day.completed_units >= day.required_units
         THEN "credit"
    ELSE IF a.quantity > 0 THEN "freeze" ELSE "miss"

-----------------------------------------------------------------------------
\* Give day d its final status, its points and its streak snapshot.
Resolve(a, d, status, points) ==
    [a EXCEPT !.days[d] = [@ EXCEPT !.status = status,
                                    !.points_awarded = points,
                                    !.streak_after = a.current_streak]]

\* credit_day, shared by settlement and by the live completion of today.  A
\* key that is already in the ledger awards nothing and leaves the streak.
CreditDay(a, d) ==
    LET streak == a.current_streak + 1
        points == PointsForCompletion(streak)
        paid == PostTransaction(a, DailyKey(d), points)
        moved == [paid EXCEPT !.current_streak = streak,
                              !.longest_streak = IF @ < streak THEN streak
                                                               ELSE @]
    IN  IF Resolved(a, d) THEN a
        ELSE IF Posts(a, DailyKey(d), points)
             THEN Resolve(moved, d, "completed", points)
             ELSE Resolve(a, d, "completed", 0)

\* Fault: the streak is reset only when there is a penalty to pay.
MissDayOnlyFines(a, d) ==
    LET penalty == PenaltyForMiss(a.total_points)
        fined == PostTransaction(a, PenaltyKey(d), -penalty)
        streak == IF penalty = 0 THEN a.current_streak ELSE 0
    IN  Resolve([fined EXCEPT !.current_streak = streak],
                d, "missed", -penalty)

\* Fault: the row shows the penalty that was due, not the one paid.
MissDayShowsFull(a, d) ==
    LET fine == -PenaltyForMiss(a.total_points)
        fined == PostTransaction(a, PenaltyKey(d), fine)
    IN  Resolve([fined EXCEPT !.current_streak = 0],
                d, "missed", -MissPenalty)

MissDay(a, d) ==
    LET penalty == PenaltyForMiss(a.total_points)
        fined == PostTransaction(a, PenaltyKey(d), -penalty)
    IN  Resolve([fined EXCEPT !.current_streak = 0], d, "missed", -penalty)

FreezeDay(a, d) ==
    IF a.quantity <= 0 THEN MissDay(a, d)
    ELSE Resolve([a EXCEPT !.quantity = @ - 1,
                           !.freezes_consumed = @ + 1,
                           !.usages = @ \cup {d}],
                 d, "frozen_item", 0)

NeutralDay(a, d, status) == Resolve(a, d, status, 0)

Apply(a, d, decision) ==
    CASE decision = "carry" -> a
      [] decision = "credit" -> CreditDay(a, d)
      [] decision = "miss" -> MissDay(a, d)
      [] decision = "freeze" -> FreezeDay(a, d)
      [] decision = "rest" -> NeutralDay(a, d, "rest_day")
      [] decision = "exempt" -> NeutralDay(a, d, "exempt")

\* One iteration of the loop of settle_user.
SettleDay(a, d) ==
    LET opened == GetOrCreateDay(a, d)
        decision == Decide(opened, d, ~HasDay(a, d))
    IN  [Apply(opened, d, decision) EXCEPT !.last_settled_date = d]

\* Fault: the plan's first day is taken for settled.
FirstUnsettledLate(a) ==
    IF a.last_settled_date = NoDate THEN Plan(a).start_date + 1
                                    ELSE a.last_settled_date + 1

\* Where the loop starts: after the watermark, or on the plan's first day.
FirstUnsettled(a) ==
    IF a.last_settled_date = NoDate THEN Plan(a).start_date
                                    ELSE a.last_settled_date + 1

=============================================================================
