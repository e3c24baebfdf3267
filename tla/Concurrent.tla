---------------------------- MODULE Concurrent ----------------------------
(***************************************************************************)
(* Requests of one learner that overlap, on PostgreSQL at READ COMMITTED,  *)
(* through SQLAlchemy sessions (app/db/session.py).                        *)
(*                                                                         *)
(* A session keeps the rows it has read: reading one again answers from    *)
(* its first read.  A flush sends the columns that differ from that read,  *)
(* as absolute values, and holds the rows until the end; a row held by     *)
(* another transaction is waited for.  Only user_stats is locked on        *)
(* purpose (ledger.lock_stats), by log_study, today_state and purchase;    *)
(* the handlers that change the plan or the preferences lock nothing.      *)
(*                                                                         *)
(* The clock moves while no request is running.                            *)
(***************************************************************************)
EXTENDS AccountSafety

CONSTANTS Sessions,             \* requests that can run at the same time
          Ops,                  \* the requests the environment sends
          Weeks,                \* the study weeks a learner can choose
          Zones,                \* the kinds of time zone of the learner
          WebClient,            \* all clients are index.html
          MaxDaysPerSettlement, \* settings.max_days_per_settlement
          MaxUnits,             \* bound: units of one log request
          MaxRequests,          \* bound: requests of a behaviour
          MaxPlans              \* bound: plans of a behaviour

ASSUME WeeksAssumption == Weeks \subseteq StudyWeeks
ASSUME ZonesAssumption == Zones \subseteq ZoneKinds
ASSUME WebClientAssumption == WebClient \in BOOLEAN
ASSUME MaxDaysAssumption == MaxDaysPerSettlement \in Nat \ {0}
ASSUME BoundsAssumption ==
    MaxUnits \in Nat /\ MaxRequests \in Nat /\ MaxPlans \in Nat

VARIABLES
    db,    \* the committed account
    tx,    \* the transaction of each session
    sent,  \* how many requests were sent
    today, \* the learner's study date now
    utc    \* the date in UTC now

vars == <<db, tx, sent, today, utc>>

\* A running request also has req, base, what the session has read, and w,
\* what it makes of it.
Idle == [pc |-> "idle", held |-> {}]

\* A learner who made a plan and opened the page on day 0, and has come back at
\* the end of that day in UTC: east of UTC the day is over, and is not settled.
Init ==
    /\ \E week \in Weeks, zone \in Zones, goal \in Goals, size \in TractateSizes :
          LET new == NewAccount(week, zone)
          IN  /\ db = GetOrCreateDay(CreatePlan(new, goal, size, 0, 0), 0)
              /\ today = Max(LocalDates(0, zone))
    /\ utc = 0
    /\ sent = 0
    /\ tx = [s \in Sessions |-> Idle]

-----------------------------------------------------------------------------
\* Rows, and the locks on them.
StatsRow == <<"user_stats", 0>>
UserRow == <<"users", 0>>
PlanRow(i) == <<"study_plans", i>>
DayRow(d) == <<"study_days", d>>

HeldByOthers(s) == UNION {tx[o].held : o \in Sessions \ {s}}

\* The rows a session has changed.  The rows of user_stats, the inventory and
\* the ledger are only changed under the lock on the first.
Dirty(t) ==
    {DayRow(d) : d \in {e \in Dates : t.w.days[e] # t.base.days[e]}}
    \cup {PlanRow(i) : i \in {j \in DOMAIN t.base.plans :
                                 t.w.plans[j] # t.base.plans[j]}}
    \cup {r \in {UserRow} : <<t.w.study_week, t.w.zone>>
                              # <<t.base.study_week, t.base.zone>>}

\* An UPDATE sets the columns that changed.
UpdateRow(row, read, written) ==
    [c \in DOMAIN row |-> IF written[c] = read[c] THEN row[c] ELSE written[c]]

NewRows(read, written) == SubSeq(written, Len(read) + 1, Len(written))

\* The committed account after the writes of a transaction.
Written(a, t) ==
    LET updated == UpdateRow(a, t.base, t.w)
        plans == [i \in DOMAIN a.plans |->
                     IF i \in DOMAIN t.base.plans
                     THEN UpdateRow(a.plans[i], t.base.plans[i], t.w.plans[i])
                     ELSE a.plans[i]]
    IN  [updated EXCEPT
            !.days = [d \in Dates |-> UpdateRow(a.days[d], t.base.days[d],
                                                t.w.days[d])],
            !.plans = plans \o NewRows(t.base.plans, t.w.plans),
            !.events = a.events \o NewRows(t.base.events, t.w.events),
            !.ledger = a.ledger \o NewRows(t.base.ledger, t.w.ledger),
            !.usages = @ \cup (t.w.usages \ t.base.usages)]

-----------------------------------------------------------------------------
\* The key of a log.  A page sends the date and the units that today_state
\* answered when it was last loaded or had logged: it may have been open for
\* days, and is not loaded again when the date changes.  An encoding as a
\* number.  Other clients need not send a key.
UnitsShown(n, d) ==
    MapThenSumSet(LAMBDA i : db.events[i].units,
                  {i \in 1..n : db.events[i].credited_local_date = d})

Screens(d) == {0} \cup {UnitsShown(n, d) : n \in DOMAIN db.events}

PageKeys(d) == {n + 100 * d : n \in Screens(d)}

RequestKeysNow ==
    (UNION {PageKeys(d) : d \in 0..today})
        \cup (IF WebClient THEN {} ELSE {NoKey})

\* A request begins by reading the user and the active plan, all it knows of
\* the account then.
Known == [NewAccount(db.study_week, db.zone) EXCEPT !.plans = db.plans]

Begin(s, req) ==
    /\ tx[s].pc = "idle"
    /\ req.op \in Ops
    /\ sent < MaxRequests
    /\ tx' = [tx EXCEPT ![s] = [pc |-> "begun", req |-> req, held |-> {},
                                base |-> Known, w |-> Known]]
    /\ sent' = sent + 1
    /\ UNCHANGED <<db, today, utc>>

BeginLog(s) ==
    /\ HasPlan(db)
    /\ \E units \in 1..MaxUnits, key \in RequestKeysNow :
          Begin(s, [op |-> "log", units |-> units, key |-> key])

BeginPurchase(s) == Begin(s, [op |-> "purchase"])

BeginUpdate(s) ==
    HasPlan(db) /\ \E goal \in Goals : Begin(s, [op |-> "update", goal |-> goal])

BeginSwitch(s) ==
    /\ Len(db.plans) < MaxPlans
    /\ \E goal \in Goals, size \in TractateSizes :
          Begin(s, [op |-> "switch", goal |-> goal, size |-> size])

BeginWeek(s) == \E week \in Weeks : Begin(s, [op |-> "week", week |-> week])

-----------------------------------------------------------------------------
Running(s, pc, ops) == tx[s].pc = pc /\ tx[s].req.op \in ops

\* Fault: user_stats is read without FOR UPDATE.
NothingLocked == {}

\* lock_stats: FOR UPDATE.
LockStats == {StatsRow}

\* The first flush of a handler that locks nothing.
FirstWrite(t) ==
    CASE t.req.op = "update" ->
            {PlanRow(i) : i \in {j \in ActivePlans(t.base) :
                                    t.base.plans[j].daily_goal # t.req.goal}}
      [] t.req.op = "switch" -> {PlanRow(i) : i \in ActivePlans(t.base)}
      [] t.req.op = "week" -> {r \in {UserRow} : t.base.study_week # t.req.week}

\* The rows a session needs for its next step.
Wants(s) ==
    CASE Running(s, "begun", {"log", "purchase"}) -> LockStats
      [] Running(s, "begun", {"update", "switch", "week"}) -> FirstWrite(tx[s])
      [] tx[s].pc \in {"settled", "commit"} -> Dirty(tx[s])
      [] OTHER -> {}

Waits(s) == Wants(s) \cap HeldByOthers(s) # {}

\* The session goes on as t, and holds what it needed until it ends.
Proceed(s, t, pc) ==
    /\ ~Waits(s)
    /\ tx' = [tx EXCEPT ![s] = [t EXCEPT !.pc = pc,
                                         !.held = tx[s].held \cup Wants(s)]]
    /\ UNCHANGED <<db, sent, today, utc>>

Rollback(s) ==
    tx' = [tx EXCEPT ![s] = Idle] /\ UNCHANGED <<db, sent, today, utc>>

\* The loop of settle_user: n days, the first one first.
SettleDays(a, first, n) ==
    LET settled[i \in 0..n] ==
            IF i = 0 THEN a ELSE SettleDay(settled[i - 1], first + i - 1)
    IN  settled[n]

\* settle_user, and the row of today after it.
SettleAll(a) ==
    LET first == FirstUnsettled(a)
        due == Max({0, Min({today - first, MaxDaysPerSettlement})})
    IN  GetOrCreateDay(SettleDays(a, first, due), today)

\* Everything but the user and the plan is read under the lock.
Settle(s) ==
    /\ Running(s, "begun", {"log"})
    /\ LET t == tx[s]
           read == [db EXCEPT !.plans = t.base.plans, !.zone = t.base.zone,
                              !.study_week = t.base.study_week]
       IN  Proceed(s, [t EXCEPT !.base = read, !.w = SettleAll(read)],
                   "settled")

FlushSettlement(s) ==
    /\ Running(s, "settled", {"log"})
    /\ Proceed(s, tx[s], "flushed")

\* The plan that is active now: the object the session has, as it read it, or
\* another plan, read afresh.
WithActivePlan(t) ==
    IF PlanId(t.base) \in ActivePlans(db) THEN t
    ELSE [t EXCEPT !.base.plans = db.plans, !.w.plans = db.plans]

\* The plan was finished or abandoned while the request waited.
PlanGone(s) ==
    Running(s, "flushed", {"log"}) /\ ~HasPlan(db) /\ Rollback(s)

\* Fault: a replayed log is settled once more.
LogReplayAgain(s) ==
    /\ Running(s, "flushed", {"log"})
    /\ HasPlan(db)
    /\ Replayed(tx[s].w, tx[s].req.key)
    /\ Proceed(s, tx[s], "begun")

\* Fault: the cursor moves before the key is looked up.
LogReplayAdvances(s) ==
    /\ Running(s, "flushed", {"log"})
    /\ HasPlan(db)
    /\ Replayed(tx[s].w, tx[s].req.key)
    /\ LET t == WithActivePlan(tx[s])
       IN  Proceed(s, [t EXCEPT !.w.plans[PlanId(t.w)].current_ordinal =
                                   Min({@ + t.req.units,
                                        Plan(t.w).mishnayot_count})],
                   "commit")

LogReplay(s) ==
    /\ Running(s, "flushed", {"log"})
    /\ HasPlan(db)
    /\ Replayed(tx[s].w, tx[s].req.key)
    /\ Proceed(s, tx[s], "commit")

LogUnits(s) ==
    /\ Running(s, "flushed", {"log"})
    /\ HasPlan(db)
    /\ ~Replayed(tx[s].w, tx[s].req.key)
    /\ LET t == WithActivePlan(tx[s])
           req == t.req
       IN  IF CanLog(t.w, today)
           THEN Proceed(s, [t EXCEPT !.w = LogStudy(@, today, req.units, req.key)],
                        "commit")
           ELSE Rollback(s)

BuyFreeze(s) ==
    /\ Running(s, "begun", {"purchase"})
    /\ IF CanPurchase(db)
       THEN Proceed(s, [tx[s] EXCEPT !.base = db, !.w = Purchase(db, NoKey)],
                    "commit")
       ELSE Rollback(s)

-----------------------------------------------------------------------------
\* Requests that do not lock user_stats.  The row of the day is read after the
\* first flush.
ChangeGoalNow(s) ==
    /\ Running(s, "begun", {"update"})
    /\ LET t == tx[s]
           goal == t.req.goal
           read == [db EXCEPT !.plans = t.base.plans]
       IN  Proceed(s, [t EXCEPT !.base = read, !.w = ChangeGoal(read, goal, today)],
                   "commit")

\* create_plan refuses when it finds another active plan.
SwitchNow(s) ==
    /\ Running(s, "begun", {"switch"})
    /\ LET t == tx[s]
           req == t.req
           read == [db EXCEPT !.plans = t.base.plans]
           new == SwitchTractate(read, req.goal, req.size, 0, utc, today)
       IN  IF ActivePlans(db) \subseteq ActivePlans(t.base)
           THEN Proceed(s, [t EXCEPT !.base = read, !.w = new], "commit")
           ELSE Rollback(s)

SetStudyWeek(s) ==
    /\ Running(s, "begun", {"week"})
    /\ LET t == tx[s]
           read == [db EXCEPT !.study_week = t.base.study_week]
           new == [read EXCEPT !.study_week = t.req.week]
       IN  Proceed(s, [t EXCEPT !.base = read,
                          !.w = IF HasPlan(read)
                                THEN ChangeGoal(new, Plan(new).daily_goal, today)
                                ELSE new],
                   "commit")

-----------------------------------------------------------------------------
\* uq_one_active_plan.
OneActivePlan(a) == Cardinality(ActivePlans(a)) <= 1

Commit(s) ==
    /\ tx[s].pc = "commit"
    /\ ~Waits(s)
    /\ OneActivePlan(Written(db, tx[s]))
    /\ db' = Written(db, tx[s])
    /\ tx' = [tx EXCEPT ![s] = Idle]
    /\ UNCHANGED <<sent, today, utc>>

UniqueViolation(s) ==
    /\ tx[s].pc = "commit"
    /\ ~OneActivePlan(Written(db, tx[s]))
    /\ Rollback(s)

\* PostgreSQL ends one of the transactions that wait for each other.
Deadlocked(s) ==
    \E S \in SUBSET Sessions :
        /\ s \in S
        /\ \A o \in S :
              Wants(o) \cap UNION {tx[p].held : p \in S \ {o}} # {}

DeadlockVictim(s) == Deadlocked(s) /\ Rollback(s)

\* Any exception or crash.
Abort(s) == tx[s].pc # "idle" /\ Rollback(s)

Tick ==
    /\ \A s \in Sessions : tx[s].pc = "idle"
    /\ \E t \in {today, today + 1} \cap Dates, u \in {utc, utc + 1} \cap Dates :
          /\ <<t, u>> # <<today, utc>>
          /\ t \in LocalDates(u, db.zone)
          /\ today' = t
          /\ utc' = u
    /\ UNCHANGED <<db, tx, sent>>

Serve(s) ==
    \/ Settle(s) \/ FlushSettlement(s) \/ PlanGone(s)
    \/ LogReplay(s) \/ LogUnits(s) \/ BuyFreeze(s)
    \/ ChangeGoalNow(s) \/ SwitchNow(s) \/ SetStudyWeek(s)
    \/ Commit(s) \/ UniqueViolation(s) \/ DeadlockVictim(s)

\* The bound is reached.
Done ==
    /\ sent = MaxRequests
    /\ \A s \in Sessions : tx[s].pc = "idle"
    /\ UNCHANGED vars

Next ==
    \/ \E s \in Sessions :
          \/ BeginLog(s) \/ BeginPurchase(s)
          \/ BeginUpdate(s) \/ BeginSwitch(s) \/ BeginWeek(s)
          \/ Serve(s) \/ Abort(s)
    \/ Tick \/ Done

\* A request that can go on does, or fails; row locks are granted in order of
\* arrival, so this is so for one that can go on again and again.  It is
\* SF_vars(Serve(s) \/ Abort(s)), with the enabling condition of Serve(s)
\* written out.
CanGoOn(s) == tx[s].pc # "idle" /\ (~Waits(s) \/ Deadlocked(s))

Fairness ==
    \A s \in Sessions : []<>CanGoOn(s) => []<><<tx'[s] # tx[s]>>_vars

Spec == Init /\ [][Next]_vars /\ Fairness

-----------------------------------------------------------------------------
\* However requests overlap, the book they write is the one the economy
\* promises: no verdict is given or paid twice, no point moves without one.
Book == INSTANCE DayBook
            WITH Days <- Dates, Cost <- FreezeCost, Limit <- MaxOwned,
                 verdict <- [d \in Dates |-> Line(db.days[d])],
                 points <- db.total_points, freezes <- db.quantity

ImplementsDayBook == Book!Spec

UnitsOf(chosen) == MapThenSumSet(LAMBDA e : db.events[e].units, chosen)

UnitsOfPlan(i) == UnitsOf({e \in DOMAIN db.events : db.events[e].plan_id = i})

\* The reading cursor of a plan has moved by exactly the units of its events
\* (ledger.py: two simultaneous logs are serialised by the lock; the key of
\* index.html is there so that they do not move the cursor twice).
CursorFollowsEvents ==
    \A i \in DOMAIN db.plans : db.plans[i].current_ordinal = UnitsOfPlan(i)

\* A cursor never runs ahead of what was logged: whatever overlaps, waits and
\* is sent again, no mishnah is passed over that no event recorded.
NothingSkipped ==
    \A i \in DOMAIN db.plans : db.plans[i].current_ordinal <= UnitsOfPlan(i)

\* The units of the learner and of each day are the sums of the events, and no
\* key was applied twice: overlapping logs neither lose a unit nor count one
\* twice, also when another request rewrites the row of the day meanwhile.
EventsCountOnce ==
    /\ db.total_units_completed = UnitsOf(DOMAIN db.events)
    /\ \A d \in Dates :
          db.days[d].completed_units =
              UnitsOf({e \in DOMAIN db.events :
                          db.events[e].credited_local_date = d})
    /\ \A i, j \in DOMAIN db.events :
          db.events[i].key = db.events[j].key /\ db.events[i].key # NoKey
              => i = j

\* The ledger, the verdicts and the freezes explain each other.
AccountSound ==
    LedgerReconciles(db) /\ VerdictsPaidOnce(db) /\ FreezesAccounted(db)

\* Every request ends: it is answered, or fails.
EveryRequestEnds ==
    \A s \in Sessions : tx[s].pc # "idle" ~> tx[s].pc = "idle"

=============================================================================
