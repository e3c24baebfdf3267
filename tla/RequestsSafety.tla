--------------------------- MODULE RequestsSafety ---------------------------
(***************************************************************************)
(* What must be true of a learner's committed account, and of every        *)
(* commit.                                                                 *)
(***************************************************************************)
EXTENDS Requests, AccountSafety

\* Every variable stays in its type; the points of an account are never a
\* debt.
TypeOK ==
    /\ db \in AccountType
    /\ w \in AccountType
    /\ pc \in {"idle", "settle", "log", "commit"}
    /\ req \in Request
    /\ cursor \in Nat
    /\ processed \in 0..MaxDaysPerSettlement
    /\ today \in Dates
    /\ utc \in Dates

-----------------------------------------------------------------------------
\* The balance the learner sees is the sum of the ledger at every point of
\* its history, and never was a debt, whatever requests were served, retried
\* or rolled back (ledger.py: every point that moves goes through
\* post_transaction; the ledger is the source of truth).
Reconciled == LedgerReconciles(db)

\* Each day's verdict is paid or fined exactly once and for exactly the points
\* the day shows, and a day without that verdict has no transaction: neither a
\* live completion followed by a settlement, nor a settlement cut short and
\* run again, pays twice or not at all.
PaidOnce == VerdictsPaidOnce(db)

\* Every freeze ever bought is either still owned or spent on exactly one day,
\* and the days it was spent on are exactly the frozen ones, so a settlement
\* rolled back gives its freezes back and a replayed purchase grants none.
FreezesAddUp == FreezesAccounted(db)

-----------------------------------------------------------------------------
StreakBefore(a, d) ==
    LET earlier == {e \in ResolvedDays(a) : e < d}
    IN  IF earlier = {} THEN 0 ELSE a.days[Max(earlier)].streak_after

StreakAfter(before, status) ==
    CASE status = "completed" -> before + 1
      [] status = "missed" -> 0
      [] OTHER -> before

\* Read in calendar order, the resolved days tell the streak: one more on a
\* completed day, none after a missed one, held by every other verdict, and
\* the counters of user_stats are where that story ends and its peak.  It
\* breaks as soon as days are judged out of order or one is judged twice.
StreakFollowsCalendar ==
    /\ \A d \in ResolvedDays(db) :
          db.days[d].streak_after =
              StreakAfter(StreakBefore(db, d), db.days[d].status)
    /\ db.current_streak = StreakBefore(db, MaxDay + 1)
    /\ db.longest_streak =
          Max({0} \cup {db.days[d].streak_after : d \in ResolvedDays(db)})

\* From the first day the learner ever had up to the watermark no day was
\* skipped and none is still open (README: settlement finalises each closed
\* day exactly once; models.py: the watermark is the last day finalised).
ClosedDaysFinalised ==
    \A d \in Dates :
        /\ d <= db.last_settled_date
        /\ \E e \in Dates : e <= d /\ HasDay(db, e)
        => Resolved(db, d)

\* A weekday is fined, or a freeze spent on it, only if its quota was not met,
\* and a day is credited only if the quota was met or the learner finished a
\* tractate on it, however the goal was changed in between.
VerdictsFair ==
    \A d \in Dates : LET day == db.days[d] IN
        /\ /\ day.status \in {"missed", "frozen_item"}
           /\ day.day_kind = "weekday"
           => day.completed_units < day.required_units
        /\ day.status = "completed" =>
              \/ day.completed_units >= day.required_units
              \/ \E i \in DOMAIN db.events :
                    /\ db.events[i].credited_local_date = d
                    /\ db.plans[db.events[i].plan_id].status = "completed"

UnitsOf(chosen) == MapThenSumSet(LAMBDA i : db.events[i].units, chosen)

\* The units of a day and of the learner are the sums of the events that
\* recorded them, no key was applied twice, and no event read past the end of
\* its tractate: a request retried after a lost answer counts once, one that
\* was rolled back counts not at all.
EventsAddUp ==
    /\ db.total_units_completed = UnitsOf(DOMAIN db.events)
    /\ \A d \in Dates :
          db.days[d].completed_units =
              UnitsOf({i \in DOMAIN db.events :
                          db.events[i].credited_local_date = d})
    /\ \A i, j \in DOMAIN db.events :
          db.events[i].key = db.events[j].key /\ db.events[i].key # NoKey
              => i = j
    /\ \A i \in DOMAIN db.events :
          LET event == db.events[i]
          IN  event.from_ordinal + event.units
                 <= db.plans[event.plan_id].mishnayot_count

\* A rest day the learner did not open the application on is held: it costs
\* neither points, nor a freeze, nor the streak (README, three ways through a
\* weekend).
UnseenRestDayHeld ==
    [][\A d \in Dates :
          /\ ~HasDay(db, d) /\ Resolved(db', d)
          /\ db'.days[d].day_kind = "rest_day"
          => db'.days[d].status \in {"rest_day", "exempt", "completed"}]_vars

-----------------------------------------------------------------------------
\* However requests settle, credit, re-plan, fail and are retried, the book
\* they write is the one the economy promises: one verdict a day, for good, and
\* no point or freeze that moves without a verdict or a purchase (DayBook).
Book == INSTANCE DayBook
            WITH Days <- Dates, Cost <- FreezeCost, Limit <- MaxOwned,
                 verdict <- [d \in Dates |-> Line(db.days[d])],
                 points <- db.total_points, freezes <- db.quantity

ImplementsDayBook == Book!Spec

\* A day that was resolved keeps its verdict and the requirement it was judged
\* against, whatever is logged, settled, re-planned or moved to another time
\* zone afterwards.
JudgedOnce ==
    [][\A d \in Dates :
          Resolved(db, d) => Verdict(db'.days[d]) = Verdict(db.days[d])]_vars

NewlyResolved == {d \in Dates : ~Resolved(db, d) /\ Resolved(db', d)}

\* A commit judges only days later than every day judged before it (the
\* multiplier of a day depends on the streak of the days before it).
JudgedInOrder ==
    [][\A d \in NewlyResolved, e \in ResolvedDays(db) : e < d]_vars

\* Today can be won and cannot be lost: the day a request is on, and any later
\* one, is never resolved as anything but completed.
TodayOnlyWon ==
    [][\A d \in NewlyResolved :
          d >= req.at => d = req.at /\ db'.days[d].status = "completed"]_vars

\* Once the account is current, reading it again, or sweeping it, changes
\* nothing.
CurrentAccountStays ==
    [][/\ pc = "commit" /\ req.op \in {"read", "sweep"}
       /\ db.last_settled_date = today - 1 /\ HasDay(db, today)
       => db' = db]_vars

-----------------------------------------------------------------------------
\* settlement.py: a rest day is never punished.
RestDayNeverPunished ==
    \A d \in Dates :
        db.days[d].day_kind = "rest_day" =>
            db.days[d].status \notin {"missed", "frozen_item"}

=============================================================================
