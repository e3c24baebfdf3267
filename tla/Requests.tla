------------------------------ MODULE Requests ------------------------------
(***************************************************************************)
(* One learner's account served one request at a time.  A request is one   *)
(* database transaction (app/db/session.py, get_session): it reads the     *)
(* committed account into a working copy, changes the copy in the steps    *)
(* its handler makes, and ends in a commit or, on any exception or crash,  *)
(* in a rollback.  The hourly sweep is a request without a caller.         *)
(*                                                                         *)
(* A request reads the clock once.  A tick during a request is therefore   *)
(* the same as a tick after it, and the clock moves between requests.      *)
(***************************************************************************)
EXTENDS Study, Plans, Shop, FiniteSetsExt

CONSTANTS Ops,                  \* the requests the environment sends
          Weeks,                \* the study weeks a learner can choose
          Zones,                \* the kinds of time zone a learner can be in
          Starts,               \* start dates a client can name in a new plan
          MaxDaysPerSettlement, \* settings.max_days_per_settlement
          MaxUnits,             \* bound: units of one log request
          MaxEvents,            \* bound: log requests of a behaviour
          MaxPlans              \* bound: plans of a behaviour

ASSUME WeeksAssumption == Weeks \subseteq StudyWeeks
ASSUME ZonesAssumption == Zones \subseteq ZoneKinds
ASSUME StartsAssumption == Starts \subseteq Dates
ASSUME MaxDaysAssumption == MaxDaysPerSettlement \in Nat \ {0}
ASSUME BoundsAssumption ==
    MaxUnits \in Nat /\ MaxEvents \in Nat /\ MaxPlans \in Nat

VARIABLES
    db,        \* the committed account
    w,         \* the working copy of the running request; db when there is none
    pc,        \* what the running request does next
    req,       \* the running request
    cursor,    \* settle_user's cursor, the next day to judge
    processed, \* how many days this settlement has judged
    today,     \* the learner's study date now
    utc        \* the date in UTC now

vars == <<db, w, pc, req, cursor, processed, today, utc>>

AllOps == {"log", "read", "sweep", "purchase", "create", "update", "switch",
           "week", "timezone"}
Request == [op : AllOps \cup {"none"}, units : 0..MaxUnits,
            key : RequestKeys, at : Dates]
NoRequest == [op |-> "none", units |-> 0, key |-> NoKey, at |-> 0]

Init ==
    /\ \E week \in Weeks, zone \in Zones :
          db = NewAccount(week, zone) /\ today \in LocalDates(0, zone)
    /\ utc = 0
    /\ w = db
    /\ pc = "idle"
    /\ req = NoRequest
    /\ cursor = 0
    /\ processed = 0

-----------------------------------------------------------------------------
\* Requests that settle first: log_study, today_state, and the sweep, which
\* picks the learners with a plan whose watermark is older than yesterday in
\* UTC.
SweepSelects(a) ==
    /\ HasPlan(a)
    /\ a.last_settled_date = NoDate \/ a.last_settled_date < utc - 1

BeginSettle(op, units, key) ==
    /\ pc = "idle"
    /\ op \in Ops
    /\ req' = [op |-> op, units |-> units, key |-> key, at |-> today]
    /\ cursor' = IF HasPlan(db) THEN FirstUnsettled(db) ELSE 0
    /\ processed' = 0
    /\ pc' = "settle"
    /\ UNCHANGED <<db, w, today, utc>>

BeginLog ==
    \E units \in 1..MaxUnits, key \in SentKeys :
        Len(db.events) < MaxEvents /\ BeginSettle("log", units, key)

BeginRead == BeginSettle("read", 0, NoKey)

BeginSweep == SweepSelects(db) /\ BeginSettle("sweep", 0, NoKey)

\* Fault: the ledger was written outside of the transaction.
RollbackKeepsLedger ==
    /\ pc' = "idle"
    /\ db' = [db EXCEPT !.ledger = w.ledger]
    /\ w' = db'
    /\ req' = NoRequest
    /\ cursor' = 0
    /\ processed' = 0
    /\ UNCHANGED <<today, utc>>

Rollback ==
    /\ pc' = "idle"
    /\ w' = db
    /\ req' = NoRequest
    /\ cursor' = 0
    /\ processed' = 0
    /\ UNCHANGED <<db, today, utc>>

\* settle_user returns at once, and its caller raises no_active_plan.
NoActivePlan ==
    /\ pc = "settle"
    /\ ~HasPlan(w)
    /\ Rollback

\* Faults: the loop stops a day early, or does not stop at today.
StopsADayEarly == cursor + 1 < req.at /\ processed < MaxDaysPerSettlement
SettlesToday == cursor <= req.at /\ processed < MaxDaysPerSettlement

MoreToSettle == cursor < req.at /\ processed < MaxDaysPerSettlement

SettleNext ==
    /\ pc = "settle"
    /\ HasPlan(w)
    /\ MoreToSettle
    /\ w' = SettleDay(w, cursor)
    /\ cursor' = cursor + 1
    /\ processed' = processed + 1
    /\ UNCHANGED <<db, pc, req, today, utc>>

\* The loop is over: today's row must exist.
EndSettle ==
    /\ pc = "settle"
    /\ HasPlan(w)
    /\ ~MoreToSettle
    /\ w' = GetOrCreateDay(w, req.at)
    /\ pc' = IF req.op = "log" THEN "log" ELSE "commit"
    /\ UNCHANGED <<db, req, cursor, processed, today, utc>>

\* A replay answers from the account as it is.
LogReplay ==
    /\ pc = "log"
    /\ Replayed(w, req.key)
    /\ pc' = "commit"
    /\ UNCHANGED <<db, w, req, cursor, processed, today, utc>>

LogRefused ==
    /\ pc = "log"
    /\ ~Replayed(w, req.key)
    /\ ~CanLog(w, req.at)
    /\ Rollback

LogUnits ==
    /\ pc = "log"
    /\ ~Replayed(w, req.key)
    /\ CanLog(w, req.at)
    /\ w' = LogStudy(w, req.at, req.units, req.key)
    /\ pc' = "commit"
    /\ UNCHANGED <<db, req, cursor, processed, today, utc>>

-----------------------------------------------------------------------------
\* Requests that do not settle.  A request that its handler refuses is rolled
\* back and changes nothing, so it is not a step.
Handle(op, key, at, account) ==
    /\ pc = "idle"
    /\ op \in Ops
    /\ w' = account
    /\ req' = [op |-> op, units |-> 0, key |-> key, at |-> at]
    /\ pc' = "commit"
    /\ UNCHANGED <<db, cursor, processed, today, utc>>

BuyFreeze ==
    \E key \in SentKeys :
        /\ CanPurchase(db)
        /\ Handle("purchase", key, today, Purchase(db, key))

\* Without a start date in the request the plan starts on the UTC date.
NewPlan ==
    \E goal \in Goals, size \in TractateSizes, start \in Starts \cup {utc} :
        /\ ~HasPlan(db)
        /\ Len(db.plans) < MaxPlans
        /\ Handle("create", NoKey, today,
                  CreatePlan(db, goal, size, start, today))

\* update_current_plan: a jump of the cursor, a new goal, or both; the
\* present value stands for a field the request leaves out.
UpdatePlan ==
    /\ HasPlan(db)
    /\ \E goal \in Goals, ordinal \in 0..(Plan(db).mishnayot_count - 1) :
          Handle("update", NoKey, today,
                 ChangeGoal(SetPosition(db, ordinal), goal, today))

SwitchPlan ==
    \E goal \in Goals, size \in TractateSizes :
        \E ordinal \in 0..(size - 1) :
            /\ Len(db.plans) < MaxPlans
            /\ Handle("switch", NoKey, today,
                      SwitchTractate(db, goal, size, ordinal, utc, today))

\* set_preferences: the row of the date that is today under the new
\* preferences is refreshed.
Prefer(a, week, zone, at) ==
    LET preferred == [a EXCEPT !.study_week = week, !.zone = zone]
    IN  IF HasPlan(a) THEN ChangeGoal(preferred, Plan(a).daily_goal, at)
                      ELSE preferred

SetStudyWeek ==
    \E week \in Weeks :
        Handle("week", NoKey, today, Prefer(db, week, db.zone, today))

SetTimezone ==
    \E zone \in Zones : \E at \in LocalDates(utc, zone) :
        Handle("timezone", NoKey, at, Prefer(db, db.study_week, zone, at))

-----------------------------------------------------------------------------
\* The commit makes the working copy, and with it the time zone, effective.
Commit ==
    /\ pc = "commit"
    /\ db' = w
    /\ w' = w
    /\ today' = req.at
    /\ pc' = "idle"
    /\ req' = NoRequest
    /\ cursor' = 0
    /\ processed' = 0
    /\ UNCHANGED utc

\* Any exception, a crash of the process included, before the commit.
Abort ==
    /\ pc # "idle"
    /\ Rollback

Tick ==
    /\ pc = "idle"
    /\ \E t \in {today, today + 1} \cap Dates, u \in {utc, utc + 1} \cap Dates :
          /\ <<t, u>> # <<today, utc>>
          /\ t \in LocalDates(u, db.zone)
          /\ today' = t
          /\ utc' = u
    /\ UNCHANGED <<db, w, pc, req, cursor, processed>>

Next ==
    \/ BeginLog \/ BeginRead \/ BeginSweep
    \/ NoActivePlan \/ SettleNext \/ EndSettle
    \/ LogReplay \/ LogRefused \/ LogUnits
    \/ BuyFreeze \/ NewPlan \/ UpdatePlan \/ SwitchPlan
    \/ SetStudyWeek \/ SetTimezone
    \/ Commit \/ Abort \/ Tick

Spec == Init /\ [][Next]_vars

=============================================================================
