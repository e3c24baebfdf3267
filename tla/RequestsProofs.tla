--------------------------- MODULE RequestsProofs ---------------------------
(***************************************************************************)
(* What holds of a learner served one request at a time, for every value   *)
(* of the constants: any calendar, any rules of scoring, any number of     *)
(* plans, units and retries.  Each inductive invariant says of the working *)
(* copy of the running request all that is wanted of the committed         *)
(* account, because a commit makes the one the other; and each rests on    *)
(* the one before it: IInv on soundness, VInv on verdicts and freezes,     *)
(* BInv on the book, OInv and CInv on the order of the days, RInv on the   *)
(* events, the quotas and the portion.                                     *)
(***************************************************************************)
EXTENDS Portion, AccountProofs

LEMMA KeysSent == SentKeys \subseteq RequestKeys
  BY KeysAssumption DEF SentKeys, RequestKeys

\* New preferences refresh an open row at most.
LEMMA PreferSound ==
    ASSUME NEW a \in AccountType, NEW week \in StudyWeeks,
           NEW zone \in ZoneKinds, NEW at \in Dates, Sound(a)
    PROVE  LET b == Prefer(a, week, zone, at)
           IN  b \in AccountType /\ Sound(b)
  <1> DEFINE c == [a EXCEPT !.study_week = week, !.zone = zone]
  <1>1. /\ c \in AccountType /\ c.days = a.days /\ c.plans = a.plans
        /\ c.ledger = a.ledger /\ c.total_points = a.total_points
    BY DEF AccountType
  <1>2. Prefer(a, week, zone, at) =
           IF HasPlan(a) THEN ChangeGoal(c, Plan(a).daily_goal, at) ELSE c
    BY DEF Prefer
  <1> HIDE DEF c
  <1>3. \A e \in Dates : Paid(c, e) = Paid(a, e)
    BY <1>1 DEF Paid
  <1>4. Sound(c)
    BY <1>1, <1>3, SameLedgerSound
  <1>5. CASE HasPlan(a)
    <2>1. HasPlan(c) /\ Plan(a).daily_goal \in Nat \ {0}
      BY <1>1, <1>5, SamePlan, PlanExists DEF StudyPlan
    <2> QED
      BY <1>1, <1>2, <1>4, <1>5, <2>1, ChangeGoalSound
  <1> QED
    BY <1>1, <1>2, <1>4, <1>5

-----------------------------------------------------------------------------
IInv ==
    /\ TypeOK
    /\ Sound(db)
    /\ Sound(w)
    /\ pc = "log" => HasPlan(w)

\* A learner who has just signed in satisfies the invariant.
LEMMA InitIInv == Init => IInv
  <1> SUFFICES ASSUME Init PROVE IInv
    OBVIOUS
  <1>1. PICK week \in Weeks, zone \in Zones :
           db = NewAccount(week, zone) /\ today \in LocalDates(0, zone)
    BY DEF Init
  <1>2. db \in AccountType /\ Sound(db)
    BY <1>1, NewAccountSound, WeeksAssumption, ZonesAssumption
  <1>3. today \in Dates /\ utc \in Dates
    BY <1>1, MaxDayAssumption DEF Init, LocalDates, Dates
  <1>4. req \in Request
    BY MaxDayAssumption, BoundsAssumption
       DEF Init, NoRequest, Request, RequestKeys, Dates
  <1>5. 0 \in 0..MaxDaysPerSettlement
    BY MaxDaysAssumption
  <1> QED
    BY <1>2, <1>3, <1>4, <1>5 DEF Init, IInv, TypeOK

\* The empty request and a reset loop are in their types.
LEMMA Idle ==
    NoRequest \in Request /\ 0 \in 0..MaxDaysPerSettlement /\ 0 \in Nat
  BY MaxDayAssumption, BoundsAssumption, MaxDaysAssumption
     DEF NoRequest, Request, RequestKeys, Dates

\* A request that starts to settle has a well-typed cursor.
LEMMA BeginSettleIInv ==
    ASSUME NEW op \in AllOps, NEW units \in 0..MaxUnits,
           NEW key \in RequestKeys, IInv, BeginSettle(op, units, key)
    PROVE  IInv'
  <1>1. req' \in Request
    BY DEF IInv, TypeOK, BeginSettle, Request
  <1>2. cursor' \in Nat
    <2>1. CASE HasPlan(db)
      <3>1. Plan(db).start_date \in Dates
        BY <2>1, PlanExists DEF IInv, TypeOK, StudyPlan
      <3>2. db.last_settled_date \in Dates \cup {NoDate}
        BY DEF IInv, TypeOK, AccountType
      <3> QED
        BY <2>1, <3>1, <3>2 DEF BeginSettle, FirstUnsettled, Dates
    <2>2. CASE ~HasPlan(db)
      BY <2>2 DEF BeginSettle
    <2> QED
      BY <2>1, <2>2
  <1> QED
    BY <1>1, <1>2, Idle DEF IInv, TypeOK, BeginSettle

\* A rollback leaves the committed account alone.
LEMMA RollbackIInv ==
    ASSUME IInv, Rollback
    PROVE  IInv'
  BY Idle DEF IInv, TypeOK, Rollback

\* A request that does not settle keeps the invariant when its handler keeps
\* the account sound.
LEMMA HandleIInv ==
    ASSUME NEW op \in AllOps, NEW key \in RequestKeys, NEW at \in Dates,
           NEW account \in AccountType, Sound(account), IInv,
           Handle(op, key, at, account)
    PROVE  IInv'
  <1>1. 0 \in 0..MaxUnits
    BY BoundsAssumption
  <1>2. req' \in Request
    BY <1>1 DEF Handle, Request
  <1> QED
    BY <1>2 DEF IInv, TypeOK, Handle

\* Every step of every request keeps the invariant.
LEMMA NextIInv == IInv /\ [Next]_vars => IInv'
  <1> SUFFICES ASSUME IInv, [Next]_vars PROVE IInv'
    OBVIOUS
  <1>t. /\ db \in AccountType /\ w \in AccountType /\ Sound(db) /\ Sound(w)
        /\ req \in Request /\ today \in Dates /\ utc \in Dates
        /\ cursor \in Nat /\ processed \in 0..MaxDaysPerSettlement
        /\ req.at \in Dates /\ req.key \in RequestKeys
        /\ req.units \in 0..MaxUnits /\ NoKey \in RequestKeys
    BY DEF IInv, TypeOK, Request, RequestKeys
  <1>b. 0 \in 0..MaxUnits /\ 1..MaxUnits \subseteq 0..MaxUnits
    BY BoundsAssumption
  <1>o. {"log", "read", "sweep", "purchase", "create", "update", "switch",
         "week", "timezone"} = AllOps
    BY DEF AllOps
  <1>1. CASE BeginLog
    BY <1>1, <1>b, <1>o, BeginSettleIInv, KeysSent DEF BeginLog
  <1>2. CASE BeginRead
    BY <1>2, <1>b, <1>o, <1>t, BeginSettleIInv DEF BeginRead
  <1>3. CASE BeginSweep
    BY <1>3, <1>b, <1>o, <1>t, BeginSettleIInv DEF BeginSweep
  <1>4. CASE NoActivePlan
    BY <1>4, RollbackIInv DEF NoActivePlan
  <1>5. CASE SettleNext
    <2>0. cursor < req.at
      BY <1>5 DEF SettleNext, MoreToSettle
    <2>1. cursor \in Dates
      BY <1>t, <2>0, MaxDayAssumption DEF Dates
    <2>2. w' \in AccountType /\ Sound(w')
      BY <1>5, <1>t, <2>1, SettleDaySound DEF SettleNext
    <2>3. cursor' \in Nat /\ processed' \in 0..MaxDaysPerSettlement
      BY <1>5, <1>t, MaxDaysAssumption DEF SettleNext, MoreToSettle
    <2> QED
      BY <1>5, <2>2, <2>3 DEF SettleNext, IInv, TypeOK
  <1>6. CASE EndSettle
    <2>1. w' \in AccountType /\ Sound(w') /\ w'.plans = w.plans
      BY <1>6, <1>t, GetOrCreateDaySound DEF EndSettle
    <2>2. HasPlan(w')
      BY <1>6, <2>1, SamePlan DEF EndSettle
    <2>3. HasPlan(w)'
      BY <2>2 DEF HasPlan, ActivePlans
    <2> QED
      BY <1>6, <2>1, <2>3 DEF EndSettle, IInv, TypeOK
  <1>7. CASE LogReplay
    BY <1>7 DEF LogReplay, IInv, TypeOK
  <1>8. CASE LogRefused
    BY <1>8, RollbackIInv DEF LogRefused
  <1>9. CASE LogUnits
    <2>1. HasPlan(w) /\ req.units \in Nat
      BY <1>9, <1>t DEF LogUnits, IInv
    <2>2. w' \in AccountType /\ Sound(w')
      BY <1>9, <1>t, <2>1, LogStudySound DEF LogUnits
    <2> QED
      BY <1>9, <2>2 DEF LogUnits, IInv, TypeOK
  <1>10. CASE BuyFreeze
    <2>1. PICK key \in RequestKeys :
             /\ CanPurchase(db)
             /\ Handle("purchase", key, today, Purchase(db, key))
      BY <1>10, KeysSent DEF BuyFreeze
    <2>2. Purchase(db, key) \in AccountType /\ Sound(Purchase(db, key))
      BY <1>t, <2>1, PurchaseSound
    <2> QED
      BY <1>t, <1>o, <2>1, <2>2, HandleIInv
  <1>11. CASE NewPlan
    <2>1. PICK goal \in Goals, size \in TractateSizes,
               start \in Starts \cup {utc} :
             Handle("create", NoKey, today,
                    CreatePlan(db, goal, size, start, today))
      BY <1>11 DEF NewPlan
    <2> DEFINE account == CreatePlan(db, goal, size, start, today)
    <2>2. goal \in Nat \ {0} /\ size \in Nat \ {0} /\ start \in Dates
      BY <1>t, GoalsAssumption, TractateSizesAssumption, StartsAssumption
    <2>3. account \in AccountType /\ Sound(account)
      BY <1>t, <2>2, CreatePlanSound
    <2> QED
      BY <1>t, <1>o, <2>1, <2>3, HandleIInv
  <1>12. CASE UpdatePlan
    <2>1. PICK goal \in Goals, ordinal \in 0..(Plan(db).mishnayot_count - 1) :
             Handle("update", NoKey, today,
                    ChangeGoal(SetPosition(db, ordinal), goal, today))
      BY <1>12 DEF UpdatePlan
    <2> DEFINE placed == SetPosition(db, ordinal)
               account == ChangeGoal(placed, goal, today)
    <2>2. goal \in Nat \ {0} /\ ordinal \in Nat /\ HasPlan(db)
      <3>1. HasPlan(db)
        BY <1>12 DEF UpdatePlan
      <3>2. Plan(db).mishnayot_count \in Nat
        BY <1>t, <3>1, PlanExists DEF StudyPlan
      <3> QED
        BY <3>1, <3>2, GoalsAssumption
    <2>3. placed \in AccountType /\ Sound(placed) /\ HasPlan(placed)
      BY <1>t, <2>2, SetPositionSound
    <2> HIDE DEF placed
    <2>4. account \in AccountType /\ Sound(account)
      BY <1>t, <2>2, <2>3, ChangeGoalSound
    <2>5. Handle("update", NoKey, today, account)
      BY <2>1 DEF placed
    <2> HIDE DEF account
    <2> QED
      BY <1>t, <1>o, <2>4, <2>5, HandleIInv
  <1>13. CASE SwitchPlan
    <2>0. PICK goal \in Goals, size \in TractateSizes :
             \E ordinal \in 0..(size - 1) :
                Handle("switch", NoKey, today,
                       SwitchTractate(db, goal, size, ordinal, utc, today))
      BY <1>13 DEF SwitchPlan
    <2>1. PICK ordinal \in 0..(size - 1) :
             Handle("switch", NoKey, today,
                    SwitchTractate(db, goal, size, ordinal, utc, today))
      BY <2>0
    <2> DEFINE account == SwitchTractate(db, goal, size, ordinal, utc, today)
    <2>2. goal \in Nat \ {0} /\ size \in Nat \ {0} /\ ordinal \in Nat
      BY GoalsAssumption, TractateSizesAssumption
    <2>3. account \in AccountType /\ Sound(account)
      BY <1>t, <2>2, SwitchTractateSound
    <2> HIDE DEF account
    <2> QED
      BY <1>t, <1>o, <2>1, <2>3, HandleIInv DEF account
  <1>14. CASE SetStudyWeek
    <2>1. PICK week \in Weeks :
             Handle("week", NoKey, today, Prefer(db, week, db.zone, today))
      BY <1>14 DEF SetStudyWeek
    <2> DEFINE account == Prefer(db, week, db.zone, today)
    <2>2. week \in StudyWeeks /\ db.zone \in ZoneKinds
      BY <1>t, WeeksAssumption DEF AccountType
    <2>3. account \in AccountType /\ Sound(account)
      BY <1>t, <2>2, PreferSound
    <2> QED
      BY <1>t, <1>o, <2>1, <2>3, HandleIInv
  <1>15. CASE SetTimezone
    <2>0. PICK zone \in Zones :
             \E at \in LocalDates(utc, zone) :
                Handle("timezone", NoKey, at,
                       Prefer(db, db.study_week, zone, at))
      BY <1>15 DEF SetTimezone
    <2>1. PICK at \in LocalDates(utc, zone) :
             Handle("timezone", NoKey, at,
                    Prefer(db, db.study_week, zone, at))
      BY <2>0
    <2> DEFINE account == Prefer(db, db.study_week, zone, at)
    <2>2. zone \in ZoneKinds /\ db.study_week \in StudyWeeks /\ at \in Dates
      BY <1>t, ZonesAssumption DEF AccountType, LocalDates
    <2>3. account \in AccountType /\ Sound(account)
      BY <1>t, <2>2, PreferSound
    <2> QED
      BY <1>t, <1>o, <2>1, <2>2, <2>3, HandleIInv
  <1>16. CASE Commit
    BY <1>16, <1>t, Idle DEF Commit, IInv, TypeOK
  <1>17. CASE Abort
    BY <1>17, RollbackIInv DEF Abort
  <1>18. CASE Tick
    BY <1>18 DEF Tick, IInv, TypeOK
  <1>19. CASE UNCHANGED vars
    BY <1>19 DEF vars, IInv, TypeOK, HasPlan, ActivePlans
  <1> QED
    BY <1>1, <1>2, <1>3, <1>4, <1>5, <1>6, <1>7, <1>8, <1>9, <1>10, <1>11,
       <1>12, <1>13, <1>14, <1>15, <1>16, <1>17, <1>18, <1>19 DEF Next

\* The invariant is inductive.
LEMMA Inductive == Spec => []IInv
  BY InitIInv, NextIInv, PTL DEF Spec

-----------------------------------------------------------------------------
\* Every variable stays in its type: in particular no sequence of requests
\* brings a balance, a streak or an inventory below zero, whatever the
\* scoring rules (scoring.py: the clamp of penalty_for_miss; shop.py: the
\* insufficient_points check).
THEOREM TypeCorrect == Spec => []TypeOK
  <1>1. IInv => TypeOK
    BY DEF IInv
  <1> QED
    BY <1>1, Inductive, PTL

\* The materialised balance is always the sum of the ledger (ledger.py).
THEOREM LedgerIsTruth == Spec => []Reconciled
  <1>1. IInv => Reconciled
    BY DEF IInv, Sound, Reconciled
  <1> QED
    BY <1>1, Inductive, PTL

\* Live completion and settlement never pay or fine a day twice, nor show
\* points that were not posted (settlement.py, credit_day and _miss_day).
THEOREM EachDayPaidOnce == Spec => []PaidOnce
  <1>1. IInv => PaidOnce
    BY DEF IInv, Sound, PaidOnce
  <1> QED
    BY <1>1, Inductive, PTL

\* New preferences rewrite an open row at most.
LEMMA PreferEffects ==
    ASSUME NEW a \in AccountType, NEW week \in StudyWeeks,
           NEW zone \in ZoneKinds, NEW at \in Dates, FreezesAccounted(a)
    PROVE  LET b == Prefer(a, week, zone, at)
           IN  FreezesAccounted(b) /\ Judges(a, b, {})
  <1> DEFINE c == [a EXCEPT !.study_week = week, !.zone = zone]
             goal == Plan(a).daily_goal
  <1>1. /\ c \in AccountType /\ c.days = a.days
        /\ Purse(c) = Purse(a) /\ c.ledger = a.ledger
    BY DEF AccountType, Purse
  <1>2. Prefer(a, week, zone, at) =
           IF HasPlan(a) THEN ChangeGoal(c, goal, at) ELSE c
    BY DEF Prefer
  <1> HIDE DEF c
  <1>3. FreezesAccounted(c) /\ Judges(a, c, {})
    BY <1>1, SameDays
  <1>4. CASE HasPlan(a)
    <2> DEFINE b == ChangeGoal(c, goal, at)
    <2>1. goal \in Nat \ {0}
      BY <1>4, PlanExists DEF StudyPlan
    <2> HIDE DEF goal
    <2>2. FreezesAccounted(b) /\ Judges(c, b, {})
      BY <1>1, <1>3, <2>1, ChangeGoalEffects
    <2> HIDE DEF b
    <2>3. Judges(a, b, {} \cup {})
      BY <1>3, <2>2, JudgesBoth
    <2>4. Prefer(a, week, zone, at) = b /\ {} \cup {} = {}
      BY <1>2, <1>4 DEF b, goal
    <2> QED
      BY <2>2, <2>3, <2>4
  <1> QED
    BY <1>2, <1>3, <1>4

-----------------------------------------------------------------------------
\* A request that reads or sweeps a current account has touched nothing, and has
\* no day to judge.
CurrentUntouched ==
    /\ pc \in {"settle", "commit"} /\ req.op \in {"read", "sweep"}
    /\ db.last_settled_date = today - 1 /\ HasDay(db, today)
    => /\ w = db /\ req.at = today
       /\ pc = "settle" /\ HasPlan(w) => cursor >= today

\* The loop of settle_user has touched no day it has not come to.
AheadUntouched ==
    pc = "settle" => \A d \in Dates : d >= cursor => w.days[d] = db.days[d]

VInv ==
    /\ IInv
    /\ FreezesAccounted(db)
    /\ FreezesAccounted(w)
    /\ Allowed(db, w, req.at)
    /\ pc = "idle" => w = db
    /\ pc = "log" => req.op = "log"
    /\ AheadUntouched
    /\ CurrentUntouched

\* A learner who has just signed in satisfies the invariant.
LEMMA InitVInv == Init => VInv
  <1> SUFFICES ASSUME Init PROVE VInv
    OBVIOUS
  <1>1. PICK week \in Weeks, zone \in Zones : db = NewAccount(week, zone)
    BY DEF Init
  <1>2. FreezesAccounted(db) /\ Judges(db, db, {})
    BY <1>1, NewAccountEffects, WeeksAssumption, ZonesAssumption
  <1>3. Allowed(db, db, req.at)
    <2>1. req.at \in Dates
      BY InitIInv DEF IInv, TypeOK, Request
    <2> QED
      BY <1>2, <2>1, AllowedNothing
  <1> QED
    BY <1>2, <1>3, InitIInv DEF Init, VInv, AheadUntouched, CurrentUntouched

\* A request that starts has done nothing.
LEMMA BeginSettleVInv ==
    ASSUME NEW op, NEW units, NEW key, VInv, IInv',
           BeginSettle(op, units, key)
    PROVE  VInv'
  <1>1. /\ w = db /\ w' = w /\ db' = db /\ today' = today /\ utc' = utc
        /\ pc' = "settle" /\ req'.at = today /\ today \in Dates
        /\ db \in AccountType
    BY DEF BeginSettle, VInv, IInv, TypeOK
  <1>2. Allowed(db, db, today)
    <2>1. Judges(db, db, {})
      BY DEF Judges
    <2> QED
      BY <1>1, <2>1, AllowedNothing
  <1>3. HasPlan(db) /\ db.last_settled_date = today - 1 => cursor' >= today
    <2> SUFFICES ASSUME HasPlan(db), db.last_settled_date = today - 1
                 PROVE  cursor' >= today
      OBVIOUS
    <2>1. Plan(db).start_date \in Nat
      BY <1>1, PlanExists DEF StudyPlan, Dates
    <2>2. cursor' = FirstUnsettled(db)
      BY DEF BeginSettle
    <2>3. today \in Nat
      BY <1>1 DEF Dates
    <2> QED
      BY <2>1, <2>2, <2>3 DEF FirstUnsettled, NoDate
  <1>4. FreezesAccounted(db)' /\ FreezesAccounted(w)'
    BY <1>1 DEF VInv
  <1>5. Allowed(db, w, req.at)'
    BY <1>1, <1>2
  <1>6. AheadUntouched'
    BY <1>1 DEF AheadUntouched
  <1>7. CurrentUntouched'
    BY <1>1, <1>3 DEF CurrentUntouched, HasPlan, ActivePlans
  <1> QED
    BY <1>1, <1>4, <1>5, <1>6, <1>7 DEF VInv

\* Neither has one that was rolled back.
LEMMA RollbackVInv ==
    ASSUME VInv, IInv', Rollback
    PROVE  VInv'
  <1>1. /\ w' = db /\ db' = db /\ pc' = "idle" /\ req'.at \in Dates
    BY Idle DEF Rollback, Request
  <1>2. Allowed(db, db, req'.at)
    <2>1. Judges(db, db, {})
      BY DEF Judges
    <2> QED
      BY <1>1, <2>1, AllowedNothing
  <1>3. FreezesAccounted(db)' /\ FreezesAccounted(w)'
    BY <1>1 DEF VInv
  <1>4. Allowed(db, w, req.at)'
    BY <1>1, <1>2
  <1> QED
    BY <1>1, <1>3, <1>4 DEF VInv, AheadUntouched, CurrentUntouched

\* A handler that does not settle judges nothing.
LEMMA HandleVInv ==
    ASSUME NEW op, op \notin {"read", "sweep", "log"}, NEW key,
           NEW at \in Dates, NEW account, FreezesAccounted(account),
           Judges(db, account, {}), VInv, IInv',
           Handle(op, key, at, account)
    PROVE  VInv'
  <1>1. /\ w' = account /\ db' = db /\ pc' = "commit" /\ req'.at = at
        /\ req'.op = op
    BY DEF Handle
  <1>2. Allowed(db, account, at)
    BY AllowedNothing
  <1>3. FreezesAccounted(db)' /\ FreezesAccounted(w)'
    BY <1>1 DEF VInv
  <1>4. Allowed(db, w, req.at)'
    BY <1>1, <1>2
  <1> QED
    BY <1>1, <1>3, <1>4 DEF VInv, AheadUntouched, CurrentUntouched

\* Every step of every request keeps the invariant.
LEMMA NextVInv == VInv /\ [Next]_vars => VInv'
  <1> SUFFICES ASSUME VInv, [Next]_vars PROVE VInv'
    OBVIOUS
  <1>i. IInv /\ IInv'
    BY NextIInv DEF VInv
  <1>t. /\ db \in AccountType /\ w \in AccountType /\ Sound(db) /\ Sound(w)
        /\ today \in Dates /\ utc \in Dates /\ cursor \in Nat
        /\ req.at \in Dates /\ req.key \in RequestKeys
        /\ req.units \in Nat /\ NoKey \in RequestKeys
        /\ FreezesAccounted(db) /\ FreezesAccounted(w)
        /\ Allowed(db, w, req.at)
    BY <1>i, BoundsAssumption DEF VInv, IInv, TypeOK, Request, RequestKeys
  <1>1. CASE BeginLog
    BY <1>1, <1>i, BeginSettleVInv, KeysSent DEF BeginLog
  <1>2. CASE BeginRead
    BY <1>2, <1>i, BeginSettleVInv DEF BeginRead
  <1>3. CASE BeginSweep
    BY <1>3, <1>i, BeginSettleVInv DEF BeginSweep
  <1>4. CASE NoActivePlan
    BY <1>4, <1>i, RollbackVInv DEF NoActivePlan
  <1>5. CASE SettleNext
    <2>0. /\ pc = "settle" /\ HasPlan(w) /\ cursor < req.at
          /\ w' = SettleDay(w, cursor) /\ cursor' = cursor + 1
          /\ db' = db /\ pc' = pc /\ req' = req /\ today' = today
      BY <1>5 DEF SettleNext, MoreToSettle
    <2>1. cursor \in Dates
      BY <1>t, <2>0, MaxDayAssumption DEF Dates
    <2>2. /\ FreezesAccounted(w')
          /\ \A e \in Dates \ {cursor} : w'.days[e] = w.days[e]
          /\ Resolved(w, cursor) => w'.days[cursor] = w.days[cursor]
          /\ ~HasDay(w, cursor) /\ w'.days[cursor].day_kind = "rest_day" =>
                w'.days[cursor].status \in HeldStatuses
      BY <1>t, <2>0, <2>1, SettleDayEffects DEF HeldStatuses
    <2>3. w.days[cursor] = db.days[cursor]
      BY <1>t, <2>0, <2>1 DEF VInv, AheadUntouched
    <2>4. Allowed(db, w', req.at)
      BY <1>t, <2>0, <2>1, <2>2, <2>3, AllowedSettle
    <2>5. AheadUntouched'
      <3>1. \A d \in Dates : d >= cursor + 1 => d >= cursor /\ d # cursor
        BY <1>t DEF Dates
      <3> QED
        BY <2>0, <2>2, <3>1 DEF VInv, AheadUntouched
    <2>6. CurrentUntouched'
      <3>1. ~(/\ req.op \in {"read", "sweep"}
              /\ db.last_settled_date = today - 1 /\ HasDay(db, today))
        BY <1>t, <2>0 DEF VInv, CurrentUntouched, Dates
      <3> QED
        BY <2>0, <3>1 DEF CurrentUntouched, HasDay
    <2> QED
      BY <1>i, <1>t, <2>0, <2>2, <2>4, <2>5, <2>6 DEF VInv
  <1>6. CASE EndSettle
    <2>0. /\ pc = "settle" /\ HasPlan(w)
          /\ w' = GetOrCreateDay(w, req.at)
          /\ pc' = IF req.op = "log" THEN "log" ELSE "commit"
          /\ db' = db /\ req' = req /\ today' = today
      BY <1>6 DEF EndSettle
    <2>1. /\ FreezesAccounted(w')
          /\ HasDay(w, req.at) => w' = w
          /\ ~HasDay(w, req.at) => w'.days[req.at].status = "pending"
          /\ \A e \in Dates \ {req.at} : w'.days[e] = w.days[e]
      BY <1>t, <2>0, GetOrCreateDayEffects
    <2>2. Judges(w, w', {})
      BY <2>1 DEF Judges, Resolved, HasDay, TerminalStatuses, NeutralStatuses
    <2>3. Allowed(db, w', req.at)
      <3>1. Judges(w, w', {req.at})
        BY <2>2 DEF Judges
      <3>2. Resolved(w', req.at) => Resolved(w, req.at)
        BY <1>t, <2>2 DEF Judges
      <3> QED
        BY <1>t, <3>1, <3>2, AllowedLog
    <2>4. CurrentUntouched'
      BY <2>0, <2>1 DEF VInv, CurrentUntouched, HasDay
    <2> QED
      BY <1>i, <1>t, <2>0, <2>1, <2>3, <2>4 DEF VInv, AheadUntouched
  <1>7. CASE LogReplay
    BY <1>7, <1>i DEF LogReplay, VInv, AheadUntouched, CurrentUntouched
  <1>8. CASE LogRefused
    BY <1>8, <1>i, RollbackVInv DEF LogRefused
  <1>9. CASE LogUnits
    <2>0. /\ pc = "log" /\ HasPlan(w) /\ CanLog(w, req.at)
          /\ w' = LogStudy(w, req.at, req.units, req.key)
          /\ pc' = "commit" /\ db' = db /\ req' = req /\ req.op = "log"
      BY <1>9, <1>i DEF LogUnits, IInv, VInv
    <2>1. /\ FreezesAccounted(w') /\ Judges(w, w', {req.at})
          /\ ~Resolved(w, req.at) /\ Resolved(w', req.at) =>
                w'.days[req.at].status = "completed"
      BY <1>t, <2>0, LogStudyEffects
    <2>2. Allowed(db, w', req.at)
      BY <1>t, <2>1, AllowedLog
    <2> QED
      BY <1>i, <1>t, <2>0, <2>1, <2>2
         DEF VInv, AheadUntouched, CurrentUntouched
  <1>10. CASE BuyFreeze
    <2>1. PICK key \in RequestKeys :
             /\ CanPurchase(db)
             /\ Handle("purchase", key, today, Purchase(db, key))
      BY <1>10, KeysSent DEF BuyFreeze
    <2>2. FreezesAccounted(Purchase(db, key))
          /\ Judges(db, Purchase(db, key), {})
      BY <1>t, <2>1, PurchaseEffects
    <2> QED
      BY <1>i, <1>t, <2>1, <2>2, HandleVInv
  <1>11. CASE NewPlan
    <2>1. PICK goal \in Goals, size \in TractateSizes,
               start \in Starts \cup {utc} :
             Handle("create", NoKey, today,
                    CreatePlan(db, goal, size, start, today))
      BY <1>11 DEF NewPlan
    <2> DEFINE account == CreatePlan(db, goal, size, start, today)
    <2>2. FreezesAccounted(account) /\ Judges(db, account, {})
      BY <1>t, CreatePlanEffects
    <2> QED
      BY <1>i, <1>t, <2>1, <2>2, HandleVInv
  <1>12. CASE UpdatePlan
    <2>1. PICK goal \in Goals, ordinal \in 0..(Plan(db).mishnayot_count - 1) :
             Handle("update", NoKey, today,
                    ChangeGoal(SetPosition(db, ordinal), goal, today))
      BY <1>12 DEF UpdatePlan
    <2> DEFINE placed == SetPosition(db, ordinal)
               account == ChangeGoal(placed, goal, today)
    <2>2. goal \in Nat \ {0} /\ ordinal \in Nat /\ HasPlan(db)
      <3>1. HasPlan(db)
        BY <1>12 DEF UpdatePlan
      <3>2. Plan(db).mishnayot_count \in Nat
        BY <1>t, <3>1, PlanExists DEF StudyPlan
      <3> QED
        BY <3>1, <3>2, GoalsAssumption
    <2>3. /\ placed \in AccountType
          /\ FreezesAccounted(placed) /\ Judges(db, placed, {})
      BY <1>t, <2>2, SetPositionSound, SetPositionEffects
    <2>4. Handle("update", NoKey, today, account)
      BY <2>1
    <2> HIDE DEF placed
    <2>5. FreezesAccounted(account) /\ Judges(placed, account, {})
      BY <1>t, <2>2, <2>3, ChangeGoalEffects
    <2> HIDE DEF account
    <2>6. Judges(db, account, {})
      <3>1. {} \cup {} = {}
        OBVIOUS
      <3> QED
        BY <2>3, <2>5, <3>1, JudgesBoth
    <2> QED
      BY <1>i, <1>t, <2>4, <2>5, <2>6, HandleVInv
  <1>13. CASE SwitchPlan
    <2>0. PICK goal \in Goals, size \in TractateSizes :
             \E ordinal \in 0..(size - 1) :
                Handle("switch", NoKey, today,
                       SwitchTractate(db, goal, size, ordinal, utc, today))
      BY <1>13 DEF SwitchPlan
    <2>1. PICK ordinal \in 0..(size - 1) :
             Handle("switch", NoKey, today,
                    SwitchTractate(db, goal, size, ordinal, utc, today))
      BY <2>0
    <2> DEFINE account == SwitchTractate(db, goal, size, ordinal, utc, today)
    <2>2. goal \in Nat \ {0} /\ size \in Nat \ {0} /\ ordinal \in Nat
      BY GoalsAssumption, TractateSizesAssumption
    <2>3. FreezesAccounted(account) /\ Judges(db, account, {})
      BY <1>t, <2>2, SwitchTractateEffects
    <2> HIDE DEF account
    <2> QED
      BY <1>i, <1>t, <2>1, <2>3, HandleVInv DEF account
  <1>14. CASE SetStudyWeek
    <2>1. PICK week \in Weeks :
             Handle("week", NoKey, today, Prefer(db, week, db.zone, today))
      BY <1>14 DEF SetStudyWeek
    <2> DEFINE account == Prefer(db, week, db.zone, today)
    <2>2. week \in StudyWeeks /\ db.zone \in ZoneKinds
      BY <1>t, WeeksAssumption DEF AccountType
    <2>3. FreezesAccounted(account) /\ Judges(db, account, {})
      BY <1>t, <2>2, PreferEffects
    <2> QED
      BY <1>i, <1>t, <2>1, <2>3, HandleVInv
  <1>15. CASE SetTimezone
    <2>0. PICK zone \in Zones :
             \E at \in LocalDates(utc, zone) :
                Handle("timezone", NoKey, at,
                       Prefer(db, db.study_week, zone, at))
      BY <1>15 DEF SetTimezone
    <2>1. PICK at \in LocalDates(utc, zone) :
             Handle("timezone", NoKey, at,
                    Prefer(db, db.study_week, zone, at))
      BY <2>0
    <2> DEFINE account == Prefer(db, db.study_week, zone, at)
    <2>2. zone \in ZoneKinds /\ db.study_week \in StudyWeeks /\ at \in Dates
      BY <1>t, ZonesAssumption DEF AccountType, LocalDates
    <2>3. FreezesAccounted(account) /\ Judges(db, account, {})
      BY <1>t, <2>2, PreferEffects
    <2> QED
      BY <1>i, <2>1, <2>2, <2>3, HandleVInv
  <1>16. CASE Commit
    <2>1. /\ db' = w /\ w' = w /\ pc' = "idle" /\ req'.at \in Dates
      BY <1>16, Idle DEF Commit, Request
    <2>2. Allowed(w, w, req'.at)
      <3>1. Judges(w, w, {})
        BY DEF Judges
      <3> QED
        BY <2>1, <3>1, AllowedNothing
    <2>3. FreezesAccounted(db)' /\ FreezesAccounted(w)'
      BY <1>t, <2>1
    <2>4. Allowed(db, w, req.at)'
      BY <2>1, <2>2
    <2> QED
      BY <1>i, <2>1, <2>3, <2>4 DEF VInv, AheadUntouched, CurrentUntouched
  <1>17. CASE Abort
    BY <1>17, <1>i, RollbackVInv DEF Abort
  <1>18. CASE Tick
    BY <1>18, <1>i DEF Tick, VInv, AheadUntouched, CurrentUntouched
  <1>19. CASE UNCHANGED vars
    BY <1>19, <1>i
       DEF vars, VInv, AheadUntouched, CurrentUntouched, HasDay, HasPlan,
           ActivePlans
  <1> QED
    BY <1>1, <1>2, <1>3, <1>4, <1>5, <1>6, <1>7, <1>8, <1>9, <1>10, <1>11,
       <1>12, <1>13, <1>14, <1>15, <1>16, <1>17, <1>18, <1>19 DEF Next

\* The invariant is inductive.
LEMMA InductiveV == Spec => []VInv
  BY InitVInv, NextVInv, PTL DEF Spec

-----------------------------------------------------------------------------
\* Only a commit changes the committed account, and makes it the working copy.
LEMMA OnlyCommits ==
    ASSUME VInv, [Next]_vars
    PROVE  db' = db \/ (pc = "commit" /\ db' = w)
  <1> USE DEF Rollback, BeginSettle, Handle
  <1>1. CASE Next
    BY <1>1
       DEF Next, BeginLog, BeginRead, BeginSweep, NoActivePlan, SettleNext,
           EndSettle, LogReplay, LogRefused, LogUnits, BuyFreeze, NewPlan,
           UpdatePlan, SwitchPlan, SetStudyWeek, SetTimezone, Commit, Abort,
           Tick
  <1>2. CASE UNCHANGED vars
    BY <1>2 DEF vars
  <1> QED
    BY <1>1, <1>2

\* Every freeze ever bought is owned or spent on one frozen day, through every
\* settlement cut short and every purchase sent again (shop.py, purchase;
\* settlement.py, _freeze_day).
THEOREM FreezesNeverLost == Spec => []FreezesAddUp
  <1>1. VInv => FreezesAddUp
    BY DEF VInv, FreezesAddUp
  <1> QED
    BY <1>1, InductiveV, PTL

\* A verdict is final: nothing that is logged, settled, re-planned or moved to
\* another time zone afterwards changes it, or the quota it was judged against
\* (settlement.py: a resolved day is carried; progress.py, change_goal: a day
\* that has been resolved keeps its requirement).
THEOREM VerdictsFinal == Spec => JudgedOnce
  <1> DEFINE A == \A d \in Dates :
                     Resolved(db, d) => Verdict(db'.days[d]) = Verdict(db.days[d])
  <1>1. VInv /\ [Next]_vars => [A]_vars
    <2> SUFFICES ASSUME VInv, [Next]_vars PROVE A
      OBVIOUS
    <2>1. Judges(db, db', Dates)
      BY OnlyCommits DEF VInv, Allowed, Judges
    <2> QED
      BY <2>1 DEF Judges
  <1> QED
    BY <1>1, InductiveV, PTL DEF Spec, JudgedOnce

\* Today can be won and not lost (settlement.py: the loop stops before today;
\* study.py: log_study credits it).
THEOREM TodayNeverLost == Spec => TodayOnlyWon
  <1> DEFINE A == \A d \in NewlyResolved :
                     d >= req.at => d = req.at /\ db'.days[d].status = "completed"
  <1>1. VInv /\ [Next]_vars => [A]_vars
    <2> SUFFICES ASSUME VInv, [Next]_vars, NEW d \in NewlyResolved, d >= req.at
                 PROVE  d = req.at /\ db'.days[d].status = "completed"
      OBVIOUS
    <2>1. d \in Dates /\ ~Resolved(db, d) /\ Resolved(db', d)
      BY DEF NewlyResolved, Resolved
    <2>2. db' = w
      BY <2>1, OnlyCommits
    <2> QED
      BY <2>1, <2>2 DEF VInv, Allowed
  <1> QED
    BY <1>1, InductiveV, PTL DEF Spec, TodayOnlyWon

\* A rest day that the learner did not open costs nothing (settlement.py,
\* _decide).
THEOREM UnseenRestHeld == Spec => UnseenRestDayHeld
  <1> DEFINE A == \A d \in Dates :
                     /\ ~HasDay(db, d) /\ Resolved(db', d)
                     /\ db'.days[d].day_kind = "rest_day"
                     => db'.days[d].status \in {"rest_day", "exempt", "completed"}
  <1>1. VInv /\ [Next]_vars => [A]_vars
    <2> SUFFICES ASSUME VInv, [Next]_vars, NEW d \in Dates,
                        ~HasDay(db, d), Resolved(db', d),
                        db'.days[d].day_kind = "rest_day"
                 PROVE  db'.days[d].status \in {"rest_day", "exempt", "completed"}
      BY DEF Resolved
    <2>1. db' = w
      BY OnlyCommits DEF HasDay, Resolved, TerminalStatuses, NeutralStatuses
    <2> QED
      BY <2>1 DEF VInv, Allowed, HeldStatuses
  <1> QED
    BY <1>1, InductiveV, PTL DEF Spec, UnseenRestDayHeld

\* Reading or sweeping an account that is current writes nothing (settlement.py:
\* settle_user is idempotent).
THEOREM CurrentUnchanged == Spec => CurrentAccountStays
  <1> DEFINE A == /\ pc = "commit" /\ req.op \in {"read", "sweep"}
                  /\ db.last_settled_date = today - 1 /\ HasDay(db, today)
                  => db' = db
  <1>1. VInv /\ [Next]_vars => [A]_vars
    BY OnlyCommits DEF VInv, CurrentUntouched
  <1> QED
    BY <1>1, InductiveV, PTL DEF Spec, CurrentAccountStays

LEMMA PreferPays ==
    ASSUME NEW a \in AccountType, NEW week \in StudyWeeks,
           NEW zone \in ZoneKinds, NEW at \in Dates, FreezesAccounted(a)
    PROVE  PaysNothing(a, Prefer(a, week, zone, at))
  <1>1. Judges(a, Prefer(a, week, zone, at), {})
    BY PreferEffects
  <1>2. /\ Prefer(a, week, zone, at).total_points = a.total_points
        /\ Prefer(a, week, zone, at).quantity = a.quantity
    BY DEF Prefer, ChangeGoal, AccountType
  <1> QED
    BY <1>1, <1>2 DEF PaysNothing

-----------------------------------------------------------------------------
\* The running request has moved the balance and the inventory by the days it
\* has judged, or has bought a freeze.
WorkPaid ==
    /\ pc \in {"settle", "log"} => Gains(db, w)
    /\ pc = "commit" => Gains(db, w) \/ Bought(db, w)

BInv == VInv /\ WorkPaid

LEMMA InitBInv == Init => BInv
  BY InitVInv DEF Init, BInv, WorkPaid

LEMMA BeginSettleWorkPaid ==
    ASSUME NEW op, NEW units, NEW key, VInv, BeginSettle(op, units, key)
    PROVE  WorkPaid'
  <1>1. /\ w = db /\ w' = w /\ db' = db /\ pc' = "settle"
        /\ db \in AccountType
    BY DEF BeginSettle, VInv, IInv, TypeOK
  <1>2. Gains(db, db)
    BY <1>1, SameBooks, GainsSelf
  <1> QED
    BY <1>1, <1>2 DEF WorkPaid

LEMMA HandleWorkPaid ==
    ASSUME NEW op, NEW key, NEW at, NEW account, db \in AccountType,
           Bought(db, account) \/ PaysNothing(db, account),
           Handle(op, key, at, account)
    PROVE  WorkPaid'
  <1>1. w' = account /\ db' = db /\ pc' = "commit"
    BY DEF Handle
  <1>2. Gains(db, account) \/ Bought(db, account)
    BY GainsSelf
  <1> QED
    BY <1>1, <1>2 DEF WorkPaid

\* Every step of every request keeps to what the days it judges are worth.
LEMMA NextBInv == BInv /\ [Next]_vars => BInv'
  <1> SUFFICES ASSUME BInv, [Next]_vars PROVE WorkPaid'
    BY NextVInv DEF BInv
  <1>i. VInv /\ VInv' /\ WorkPaid
    BY NextVInv DEF BInv
  <1>t. /\ db \in AccountType /\ w \in AccountType /\ Sound(db) /\ Sound(w)
        /\ w' \in AccountType
        /\ today \in Dates /\ utc \in Dates /\ cursor \in Nat
        /\ req.at \in Dates /\ req.key \in RequestKeys
        /\ req.units \in Nat
        /\ FreezesAccounted(db) /\ FreezesAccounted(w)
        /\ Judges(db, w, Dates)
    BY <1>i, BoundsAssumption
       DEF VInv, IInv, TypeOK, Request, RequestKeys, Allowed
  <1>1. CASE BeginLog
    BY <1>1, <1>i, BeginSettleWorkPaid, KeysSent DEF BeginLog
  <1>2. CASE BeginRead
    BY <1>2, <1>i, BeginSettleWorkPaid DEF BeginRead
  <1>3. CASE BeginSweep
    BY <1>3, <1>i, BeginSettleWorkPaid DEF BeginSweep
  <1>4. CASE Rollback
    BY <1>4 DEF Rollback, WorkPaid
  <1>5. CASE SettleNext
    <2>0. /\ pc = "settle" /\ HasPlan(w) /\ cursor < req.at
          /\ w' = SettleDay(w, cursor) /\ db' = db /\ pc' = pc
      BY <1>5 DEF SettleNext, MoreToSettle
    <2>1. cursor \in Dates
      BY <1>t, <2>0, MaxDayAssumption DEF Dates
    <2>2. Gains(db, w)
      BY <1>i, <2>0 DEF WorkPaid
    <2>3. PaysFor(w, w', cursor) \/ PaysNothing(w, w')
      BY <1>t, <2>0, <2>1, SettleDayPays
    <2>4. Gains(db, w')
      <3>1. CASE PaysFor(w, w', cursor)
        BY <1>t, <2>1, <2>2, <3>1, GainsOne
      <3>2. CASE PaysNothing(w, w')
        BY <1>t, <2>2, <3>2, GainsNothing
      <3> QED
        BY <2>3, <3>1, <3>2
    <2> QED
      BY <2>0, <2>4 DEF WorkPaid
  <1>6. CASE EndSettle
    <2>0. /\ pc = "settle" /\ w' = GetOrCreateDay(w, req.at) /\ db' = db
      BY <1>6 DEF EndSettle
    <2>1. Gains(db, w')
      BY <1>i, <1>t, <2>0, GetOrCreateDayPays, GainsNothing DEF WorkPaid
    <2> QED
      BY <2>0, <2>1 DEF WorkPaid
  <1>7. CASE LogReplay
    BY <1>7, <1>i DEF LogReplay, WorkPaid
  <1>9. CASE LogUnits
    <2>0. /\ pc = "log" /\ HasPlan(w) /\ CanLog(w, req.at)
          /\ w' = LogStudy(w, req.at, req.units, req.key) /\ db' = db
      BY <1>9, <1>i DEF LogUnits, IInv, VInv
    <2>1. PaysFor(w, w', req.at) \/ PaysNothing(w, w')
      BY <1>t, <2>0, LogStudyPays
    <2>2. Gains(db, w')
      <3>1. Gains(db, w)
        BY <1>i, <2>0 DEF WorkPaid
      <3>2. CASE PaysFor(w, w', req.at)
        BY <1>t, <3>1, <3>2, GainsOne
      <3>3. CASE PaysNothing(w, w')
        BY <1>t, <3>1, <3>3, GainsNothing
      <3> QED
        BY <2>1, <3>2, <3>3
    <2> QED
      BY <2>0, <2>2 DEF WorkPaid
  <1>10. CASE BuyFreeze
    <2>1. PICK key \in RequestKeys :
             /\ CanPurchase(db)
             /\ Handle("purchase", key, today, Purchase(db, key))
      BY <1>10, KeysSent DEF BuyFreeze
    <2> QED
      BY <1>t, <2>1, PurchasePays, HandleWorkPaid
  <1>11. CASE NewPlan
    <2>1. PICK goal \in Goals, size \in TractateSizes,
               start \in Starts \cup {utc} :
             Handle("create", NoKey, today,
                    CreatePlan(db, goal, size, start, today))
      BY <1>11 DEF NewPlan
    <2>2. PaysNothing(db, CreatePlan(db, goal, size, start, today))
      BY <1>t, PlanningPays
    <2> QED
      BY <1>t, <2>1, <2>2, HandleWorkPaid
  <1>12. CASE UpdatePlan
    <2>1. PICK goal \in Goals, ordinal \in 0..(Plan(db).mishnayot_count - 1) :
             Handle("update", NoKey, today,
                    ChangeGoal(SetPosition(db, ordinal), goal, today))
      BY <1>12 DEF UpdatePlan
    <2> DEFINE placed == SetPosition(db, ordinal)
               account == ChangeGoal(placed, goal, today)
    <2>2. goal \in Nat \ {0} /\ ordinal \in Nat /\ HasPlan(db)
      <3>1. HasPlan(db)
        BY <1>12 DEF UpdatePlan
      <3>2. Plan(db).mishnayot_count \in Nat
        BY <1>t, <3>1, PlanExists DEF StudyPlan
      <3> QED
        BY <3>1, <3>2, GoalsAssumption
    <2>3. /\ placed \in AccountType /\ FreezesAccounted(placed)
          /\ PaysNothing(db, placed)
      BY <1>t, <2>2, SetPositionSound, SetPositionEffects, PlanningPays
    <2>4. Handle("update", NoKey, today, account)
      BY <2>1
    <2> HIDE DEF placed
    <2>5. PaysNothing(placed, account)
      <3>1. \A g \in Nat \ {0}, d \in Dates :
               PaysNothing(placed, ChangeGoal(placed, g, d))
        BY <2>3, PlanningPays
      <3> QED
        BY <1>t, <2>2, <3>1
    <2> HIDE DEF account
    <2>6. PaysNothing(db, account)
      BY <2>3, <2>5, NothingTwice
    <2> QED
      BY <1>t, <2>4, <2>6, HandleWorkPaid
  <1>13. CASE SwitchPlan
    <2>0. PICK goal \in Goals, size \in TractateSizes :
             \E ordinal \in 0..(size - 1) :
                Handle("switch", NoKey, today,
                       SwitchTractate(db, goal, size, ordinal, utc, today))
      BY <1>13 DEF SwitchPlan
    <2>1. PICK ordinal \in 0..(size - 1) :
             Handle("switch", NoKey, today,
                    SwitchTractate(db, goal, size, ordinal, utc, today))
      BY <2>0
    <2>2. goal \in Nat \ {0} /\ size \in Nat \ {0} /\ ordinal \in Nat
      BY GoalsAssumption, TractateSizesAssumption
    <2>3. PaysNothing(db, SwitchTractate(db, goal, size, ordinal, utc, today))
      BY <1>t, <2>2, SwitchTractatePays
    <2> QED
      BY <1>t, <2>1, <2>3, HandleWorkPaid
  <1>14. CASE SetStudyWeek
    <2>1. PICK week \in Weeks :
             Handle("week", NoKey, today, Prefer(db, week, db.zone, today))
      BY <1>14 DEF SetStudyWeek
    <2>2. week \in StudyWeeks /\ db.zone \in ZoneKinds
      BY <1>t, WeeksAssumption DEF AccountType
    <2> QED
      BY <1>t, <2>1, <2>2, PreferPays, HandleWorkPaid
  <1>15. CASE SetTimezone
    <2>0. PICK zone \in Zones :
             \E at \in LocalDates(utc, zone) :
                Handle("timezone", NoKey, at,
                       Prefer(db, db.study_week, zone, at))
      BY <1>15 DEF SetTimezone
    <2>1. PICK at \in LocalDates(utc, zone) :
             Handle("timezone", NoKey, at,
                    Prefer(db, db.study_week, zone, at))
      BY <2>0
    <2>2. zone \in ZoneKinds /\ db.study_week \in StudyWeeks /\ at \in Dates
      BY <1>t, ZonesAssumption DEF AccountType, LocalDates
    <2> QED
      BY <1>t, <2>1, <2>2, PreferPays, HandleWorkPaid
  <1>16. CASE Commit
    BY <1>16 DEF Commit, WorkPaid
  <1>18. CASE Tick
    BY <1>18 DEF Tick, WorkPaid
  <1>19. CASE UNCHANGED vars
    <2>1. db' = db /\ w' = w /\ pc' = pc
      BY <1>19 DEF vars
    <2> QED
      BY <1>i, <2>1 DEF WorkPaid
  <1>20. NoActivePlan \/ LogRefused \/ Abort => Rollback
    BY DEF NoActivePlan, LogRefused, Abort
  <1> QED
    BY <1>1, <1>2, <1>3, <1>4, <1>5, <1>6, <1>7, <1>9, <1>10, <1>11,
       <1>12, <1>13, <1>14, <1>15, <1>16, <1>18, <1>19, <1>20 DEF Next

-----------------------------------------------------------------------------
\* A learner who has just signed in opens an empty book.
LEMMA InitBook == Init => Book!Init
  <1> SUFFICES ASSUME Init PROVE Book!Init
    OBVIOUS
  <1>1. PICK week \in Weeks, zone \in Zones : db = NewAccount(week, zone)
    BY DEF Init
  <1>2. /\ db.total_points = 0 /\ db.quantity = 0
        /\ \A d \in Dates : db.days[d].status \notin TerminalStatuses
    BY <1>1 DEF NewAccount, NoDay, TerminalStatuses, NeutralStatuses
  <1> QED
    BY <1>2 DEF Book!Init, Book!Open, Line

\* The book counts as the account does.
LEMMA SameCount ==
    ASSUME NEW S
    PROVE  Book!Cardinality(S) = Cardinality(S)
  BY DEF Book!Cardinality, Cardinality

\* What the lines of a set of dates are worth together is a sum.
LEMMA TotalIsSum ==
    ASSUME NEW lines, NEW weight, NEW S, IsFiniteSet(S),
           \A d \in S : weight[d] = lines[d].points
    PROVE  Book!Total(lines, S) = SumOf(weight, S)
  <1> DEFINE Worth(sum) == sum = [s \in SUBSET S |->
                                   IF s = {} THEN 0
                                   ELSE lines[First(s)].points
                                        + sum[s \ {First(s)}]]
             f == CHOOSE sum : Worth(sum)
  <1>1. Book!Total(lines, S) = f[S]
    BY DEF Book!Total, Book!MapThenSumSet, Book!MapThenFoldSet, First
  <1>2. \A s \in SUBSET S : s # {} =>
           weight[First(s)] = lines[First(s)].points
    BY DEF First
  <1>3. \A sum : Worth(sum) <=> Summing(weight, S, sum)
    BY <1>2 DEF Summing, First
  <1>4. Summing(weight, S, f)
    BY <1>3, SumExists
  <1> HIDE DEF f
  <1> QED
    BY <1>1, <1>4, SumIs

\* A commit that gains writes lawful lines over open ones.
LEMMA JudgeStep ==
    ASSUME BInv, BInv', db' = w, Gains(db, w)
    PROVE  Book!Judge
  <1>1. /\ db \in AccountType /\ db' \in AccountType
        /\ VerdictsPaidOnce(db') /\ Judges(db, db', Dates)
    <2>1. /\ db \in AccountType /\ w \in AccountType /\ Sound(w)
          /\ Allowed(db, w, req.at)
      BY DEF BInv, VInv, IInv, TypeOK
    <2> QED
      BY <2>1 DEF Allowed, Sound
  <1> DEFINE judged == {d \in Dates : Line(db'.days[d]) # Line(db.days[d])}
  <1>2. /\ judged = NewDays(db, db')
        /\ {d \in judged : Line(db'.days[d]).status = "frozen_item"}
              = NewFrozen(db, db')
    BY <1>1, JudgedLines
  <1>3. ASSUME NEW d \in judged
        PROVE  /\ Line(db.days[d]) = Book!Open
               /\ Book!Lawful(Line(db'.days[d]))
    BY <1>1, <1>2, <1>3, JudgedLines
       DEF Book!Open, Book!Lawful, TerminalStatuses, NeutralStatuses
  <1>4. Book!Total([d \in Dates |-> Line(db'.days[d])], judged)
           = SumOf(Points(db'), judged)
    <2>1. IsFiniteSet(judged) /\ judged \subseteq Dates
      BY DatesFinite
    <2>2. \A d \in judged :
             Points(db')[d] = [e \in Dates |-> Line(db'.days[e])][d].points
      BY DEF Points
    <2> HIDE DEF judged
    <2> QED
      BY <2>1, <2>2, TotalIsSum
  <1>5. db'.quantity >= 0 /\ db'.total_points >= 0
    BY <1>1 DEF AccountType
  <1>6. /\ db'.total_points = db.total_points + SumOf(Points(db'), judged)
        /\ db'.quantity = db.quantity - Cardinality(NewFrozen(db, db'))
    BY <1>2 DEF Gains
  <1> QED
    BY <1>1, <1>2, <1>3, <1>4, <1>5, <1>6, SameCount DEF Book!Judge

LEMMA BuyStep ==
    ASSUME BInv, BInv', db' = w, Bought(db, w)
    PROVE  Book!Buy
  BY DEF Bought, Book!Buy

\* Every step is an entry of the book or none.
LEMMA BookStep ==
    BInv /\ BInv' /\ [Next]_vars => [Book!Next]_(Book!vars)
  <1> SUFFICES ASSUME BInv, BInv', [Next]_vars PROVE [Book!Next]_(Book!vars)
    OBVIOUS
  <1>1. CASE db' = db
    BY <1>1 DEF Book!vars
  <1>2. CASE pc = "commit" /\ db' = w
    BY <1>2, JudgeStep, BuyStep DEF BInv, WorkPaid, Book!Next
  <1> QED
    BY <1>1, <1>2, OnlyCommits DEF BInv

\* However requests settle, credit, re-plan, fail and are sent again, what they
\* commit is a book with one final verdict a day, in which no point and no
\* freeze moves without a verdict or a purchase (settlement.py, study.py,
\* shop.py, progress.py over ledger.py).
THEOREM RequestsImplementBook == Spec => ImplementsDayBook
  <1>1. Spec => []BInv
    BY InitBInv, NextBInv, PTL DEF Spec
  <1> QED
    BY <1>1, InitBook, BookStep, PTL DEF Spec, ImplementsDayBook, Book!Spec

\* Pointwise, what StreakFollowsCalendar says of the account a.
StreakTold(a) ==
    /\ \A d \in ResolvedDays(a) :
          a.days[d].streak_after =
              StreakAfter(StreakBefore(a, d), a.days[d].status)
    /\ a.current_streak = StreakBefore(a, MaxDay + 1)
    /\ a.current_streak <= a.longest_streak
    /\ \A d \in ResolvedDays(a) : a.days[d].streak_after <= a.longest_streak
    /\ a.longest_streak
          \in {0} \cup {a.days[d].streak_after : d \in ResolvedDays(a)}

\* No day is judged ahead of the day the next settlement starts from.
NothingAhead(a) ==
    \A d \in ResolvedDays(a) :
        /\ a.last_settled_date # NoDate => d <= a.last_settled_date + 1
        /\ a.last_settled_date = NoDate =>
              \A i \in ActivePlans(a) : d <= a.plans[i].start_date

\* On date t, the account a has been judged in order.
Ordered(a, t) ==
    /\ a.zone = 0
    /\ OneActive(a)
    /\ a.last_settled_date < t
    /\ \A i \in DOMAIN a.plans : a.plans[i].start_date <= t
    /\ \A d \in ResolvedDays(a) : d <= t
    /\ NothingAhead(a)
    /\ StreakTold(a)

\* What b judges and a does not is later than all that a judges.
Later(a, b) ==
    \A d \in ResolvedDays(b) \ ResolvedDays(a), e \in ResolvedDays(a) : e < d

OInv ==
    /\ VInv
    /\ utc = today
    /\ Ordered(db, today)
    /\ Ordered(w, today)
    /\ Later(db, w)
    /\ pc # "idle" => req.at = today
    /\ pc = "settle" /\ HasPlan(w) =>
          processed <= cursor /\ cursor = FirstUnsettled(w) /\ cursor <= today
    /\ pc = "log" => FirstUnsettled(w) = today

-----------------------------------------------------------------------------
\* A set of dates that is not empty has a greatest member.
LEMMA GreatestDate ==
    ASSUME NEW S \in SUBSET Dates, S # {}
    PROVE  Max(S) \in S /\ \A d \in S : d <= Max(S)
  <1> DEFINE T == {MaxDay - d : d \in S}
  <1>1. T \in SUBSET Nat /\ T # {}
    <2>1. \A d \in S : MaxDay - d \in Nat
      BY MaxDayAssumption DEF Dates
    <2>2. PICK d \in S : TRUE
      OBVIOUS
    <2>3. MaxDay - d \in T
      BY <2>2
    <2> QED
      BY <2>1, <2>3
  <1>2. PICK n \in T : \A m \in T : n <= m
    BY <1>1, LeastNatural
  <1>3. PICK d \in S : n = MaxDay - d
    BY <1>2
  <1>4. \A e \in S : d >= e
    <2> TAKE e \in S
    <2>1. MaxDay - e \in T
      OBVIOUS
    <2>2. n <= MaxDay - e
      BY <1>2, <2>1
    <2> QED
      BY <1>3, <2>2, MaxDayAssumption DEF Dates
  <1>5. \E x \in S : \A y \in S : x >= y
    BY <1>4
  <1>6. Max(S) \in S /\ \A y \in S : Max(S) >= y
    BY <1>5 DEF Max
  <1> QED
    BY <1>6 DEF Dates

\* A member that nothing exceeds is the greatest.
LEMMA GreatestIs ==
    ASSUME NEW S \in SUBSET Int, NEW m \in S, \A d \in S : d <= m
    PROVE  Max(S) = m
  <1>1. \A d \in S : m >= d
    OBVIOUS
  <1>2. Max(S) \in S /\ \A y \in S : Max(S) >= y
    BY <1>1 DEF Max
  <1>3. Max(S) \in Int /\ m \in Int /\ Max(S) >= m /\ Max(S) <= m
    BY <1>2
  <1> QED
    BY <1>3

\* The streak before a date depends on the verdicts before it, and on nothing
\* else.
LEMMA SameBefore ==
    ASSUME NEW a, NEW b, NEW x,
           \A d \in Dates : d < x => /\ Resolved(b, d) <=> Resolved(a, d)
                                     /\ Resolved(a, d) =>
                                           b.days[d].streak_after
                                              = a.days[d].streak_after
    PROVE  StreakBefore(b, x) = StreakBefore(a, x)
  <1> DEFINE earlier == {e \in ResolvedDays(a) : e < x}
  <1>1. {e \in ResolvedDays(b) : e < x} = earlier
    BY DEF ResolvedDays
  <1>2. CASE earlier = {}
    BY <1>1, <1>2 DEF StreakBefore
  <1>3. CASE earlier # {}
    <2>1. earlier \in SUBSET Dates
      BY DEF ResolvedDays
    <2>2. Max(earlier) \in earlier
      BY <1>3, <2>1, GreatestDate
    <2>3. /\ Max(earlier) \in Dates /\ Max(earlier) < x
          /\ Resolved(a, Max(earlier))
      BY <2>2 DEF ResolvedDays
    <2>4. b.days[Max(earlier)].streak_after = a.days[Max(earlier)].streak_after
      BY <2>3
    <2>5. /\ StreakBefore(a, x) = a.days[Max(earlier)].streak_after
          /\ StreakBefore(b, x) = b.days[Max(earlier)].streak_after
      BY <1>1, <1>3 DEF StreakBefore
    <2> QED
      BY <2>4, <2>5
  <1> QED
    BY <1>2, <1>3

\* What keeps the counters of user_stats and the watermark.
Counters(a) == <<a.current_streak, a.longest_streak>>

Clock(a) == <<a.last_settled_date, a.zone>>

\* To judge nothing leaves the story as it was.
LEMMA SameStory ==
    ASSUME NEW a, NEW b, Judges(a, b, {}), Counters(b) = Counters(a),
           StreakTold(a)
    PROVE  StreakTold(b) /\ ResolvedDays(b) = ResolvedDays(a)
  <1>1. ASSUME NEW d \in Dates, Resolved(a, d)
        PROVE  /\ b.days[d].status = a.days[d].status
               /\ b.days[d].streak_after = a.days[d].streak_after
    BY <1>1 DEF Judges, Verdict
  <1>2. \A d \in Dates : Resolved(b, d) <=> Resolved(a, d)
    BY <1>1 DEF Judges, Resolved
  <1>3. ResolvedDays(b) = ResolvedDays(a)
    BY <1>2 DEF ResolvedDays
  <1>4. \A x : StreakBefore(b, x) = StreakBefore(a, x)
    BY <1>1, <1>2, SameBefore
  <1>5. /\ b.current_streak = a.current_streak
        /\ b.longest_streak = a.longest_streak
    BY DEF Counters
  <1>6. \A d \in ResolvedDays(a) :
           /\ b.days[d].status = a.days[d].status
           /\ b.days[d].streak_after = a.days[d].streak_after
    BY <1>1 DEF ResolvedDays
  <1>7. {b.days[d].streak_after : d \in ResolvedDays(b)}
           = {a.days[d].streak_after : d \in ResolvedDays(a)}
    BY <1>3, <1>6
  <1> QED
    BY <1>3, <1>4, <1>5, <1>6, <1>7 DEF StreakTold

\* b is a after judging the open day d, with the streak that follows.
Continues(a, b, d) ==
    /\ ~Resolved(a, d)
    /\ Judges(a, b, {d})
    /\ Resolved(b, d)
    /\ b.days[d].streak_after = b.current_streak
    /\ b.current_streak = StreakAfter(a.current_streak, b.days[d].status)
    /\ b.longest_streak = IF a.longest_streak < b.current_streak
                          THEN b.current_streak ELSE a.longest_streak

\* A verdict on a day later than all others continues the story.
LEMMA NextChapter ==
    ASSUME NEW a \in AccountType, NEW b \in AccountType, NEW d \in Dates,
           Continues(a, b, d), \A e \in ResolvedDays(a) : e < d, StreakTold(a)
    PROVE  StreakTold(b) /\ ResolvedDays(b) = ResolvedDays(a) \cup {d}
  <1>1. ASSUME NEW e \in Dates, Resolved(a, e)
        PROVE  /\ b.days[e].status = a.days[e].status
               /\ b.days[e].streak_after = a.days[e].streak_after
    BY <1>1 DEF Continues, Judges, Verdict
  <1>2. ASSUME NEW e \in Dates, e # d
        PROVE  Resolved(b, e) <=> Resolved(a, e)
    BY <1>1, <1>2 DEF Continues, Judges, Resolved
  <1>3. ResolvedDays(b) = ResolvedDays(a) \cup {d}
    BY <1>2 DEF Continues, ResolvedDays
  <1>4. d \in 0..MaxDay /\ MaxDay \in Nat /\ Dates = 0..MaxDay
    BY MaxDayAssumption DEF Dates
  <1>5. \A x \in Dates : x <= d => StreakBefore(b, x) = StreakBefore(a, x)
    <2> TAKE x \in Dates
    <2> HAVE x <= d
    <2>1. \A e \in Dates : e < x => e # d
      BY <1>4
    <2> QED
      BY <1>1, <1>2, <2>1, SameBefore
  <1>6. StreakBefore(a, d) = a.current_streak
    <2>1. {e \in ResolvedDays(a) : e < d}
             = {e \in ResolvedDays(a) : e < MaxDay + 1}
      BY <1>4 DEF ResolvedDays
    <2> QED
      BY <2>1 DEF StreakBefore, StreakTold
  <1>7. StreakBefore(b, MaxDay + 1) = b.days[d].streak_after
    <2> DEFINE earlier == {e \in ResolvedDays(b) : e < MaxDay + 1}
    <2>1. d \in earlier /\ earlier \in SUBSET Int
      BY <1>3, <1>4 DEF ResolvedDays
    <2>2. \A e \in earlier : e <= d
      BY <1>3, <1>4 DEF ResolvedDays
    <2>3. Max(earlier) = d
      BY <2>1, <2>2, GreatestIs
    <2> QED
      BY <2>1, <2>3 DEF StreakBefore
  <1>8. \A e \in ResolvedDays(b) :
           b.days[e].streak_after =
              StreakAfter(StreakBefore(b, e), b.days[e].status)
    <2> TAKE e \in ResolvedDays(b)
    <2>1. CASE e = d
      <3>1. StreakBefore(b, d) = a.current_streak
        BY <1>4, <1>5, <1>6
      <3> QED
        BY <2>1, <3>1 DEF Continues
    <2>2. CASE e # d
      <3>1. e \in ResolvedDays(a) /\ e \in Dates /\ Resolved(a, e)
        BY <1>3, <2>2 DEF ResolvedDays
      <3>2. e <= d
        BY <1>4, <3>1
      <3> QED
        BY <1>1, <1>5, <3>1, <3>2 DEF StreakTold
    <2> QED
      BY <2>1, <2>2
  <1>9. /\ a.current_streak \in Nat /\ a.longest_streak \in Nat
        /\ b.current_streak \in Nat
    BY DEF AccountType
  <1>10. \A e \in ResolvedDays(a) :
            /\ a.days[e].streak_after \in Int
            /\ b.days[e].streak_after = a.days[e].streak_after
    BY <1>1 DEF ResolvedDays, AccountType, StudyDay
  <1>11. b.current_streak <= b.longest_streak
         /\ a.longest_streak <= b.longest_streak
    BY <1>9 DEF Continues
  <1>12. \A e \in ResolvedDays(b) : b.days[e].streak_after <= b.longest_streak
    <2> TAKE e \in ResolvedDays(b)
    <2>1. CASE e = d
      BY <1>11, <2>1 DEF Continues
    <2>2. CASE e # d
      <3>1. e \in ResolvedDays(a)
        BY <1>3, <2>2
      <3>2. a.days[e].streak_after <= a.longest_streak
        BY <3>1 DEF StreakTold
      <3>3. b.longest_streak \in Nat
        BY DEF AccountType
      <3> QED
        BY <1>9, <1>10, <1>11, <3>1, <3>2, <3>3
    <2> QED
      BY <2>1, <2>2
  <1>13. b.longest_streak
            \in {0} \cup {b.days[e].streak_after : e \in ResolvedDays(b)}
    <2>1. b.days[d].streak_after = b.current_streak /\ d \in ResolvedDays(b)
      BY <1>3 DEF Continues
    <2>2. {a.days[e].streak_after : e \in ResolvedDays(a)}
             \subseteq {b.days[e].streak_after : e \in ResolvedDays(b)}
      BY <1>3, <1>10
    <2> QED
      BY <2>1, <2>2 DEF Continues, StreakTold
  <1>14. b.current_streak = StreakBefore(b, MaxDay + 1)
    BY <1>7 DEF Continues
  <1> QED
    BY <1>3, <1>8, <1>11, <1>12, <1>13, <1>14 DEF StreakTold

\* And the story told pointwise is the one of the property.
LEMMA StoryIsCalendar ==
    ASSUME db \in AccountType, StreakTold(db)
    PROVE  StreakFollowsCalendar
  <1> DEFINE S == {0} \cup {db.days[d].streak_after : d \in ResolvedDays(db)}
  <1>1. S \in SUBSET Int
    BY DEF AccountType, StudyDay, ResolvedDays
  <1>2. db.longest_streak \in S /\ db.longest_streak \in Nat
    BY DEF StreakTold, AccountType
  <1>3. \A n \in S : n <= db.longest_streak
    BY <1>2 DEF StreakTold
  <1>4. Max(S) = db.longest_streak
    BY <1>1, <1>2, <1>3, GreatestIs
  <1> QED
    BY <1>4 DEF StreakFollowsCalendar, StreakTold

-----------------------------------------------------------------------------
\* Writing a verdict on an open day continues the story when the counters have
\* been moved to where the verdict takes them.
LEMMA ResolveContinues ==
    ASSUME NEW a \in AccountType, NEW c \in AccountType, NEW d \in Dates,
           NEW status \in TerminalStatuses, NEW points \in Int,
           ~Resolved(a, d), c.days = a.days, Clock(c) = Clock(a),
           c.current_streak = StreakAfter(a.current_streak, status),
           c.longest_streak = IF a.longest_streak < c.current_streak
                              THEN c.current_streak ELSE a.longest_streak
    PROVE  LET b == Resolve(c, d, status, points)
           IN  Continues(a, b, d) /\ Clock(b) = Clock(a)
  <1> DEFINE row == [c.days[d] EXCEPT !.status = status,
                                      !.points_awarded = points,
                                      !.streak_after = c.current_streak]
             b == Resolve(c, d, status, points)
  <1>1. c.days \in [Dates -> StudyDay] /\ c.days[d] \in StudyDay
    BY DEF AccountType
  <1>2. row.status = status /\ row.streak_after = c.current_streak
    BY <1>1 DEF StudyDay
  <1>3. b = [c EXCEPT !.days = [c.days EXCEPT ![d] = row]]
    BY DEF Resolve
  <1> HIDE DEF row, b
  <1>4. /\ b.days = [c.days EXCEPT ![d] = row]
        /\ Counters(b) = Counters(c) /\ Clock(b) = Clock(c)
    BY <1>3 DEF AccountType, Counters, Clock
  <1>5. /\ b.days[d].status = status
        /\ b.days[d].streak_after = c.current_streak
        /\ \A e \in Dates \ {d} : b.days[e] = a.days[e]
    BY <1>1, <1>2, <1>4
  <1>6. /\ b.current_streak = c.current_streak
        /\ b.longest_streak = c.longest_streak
    BY <1>4 DEF Counters
  <1>7. Judges(a, b, {d})
    BY <1>5 DEF Judges, Resolved
  <1>8. Resolved(b, d)
    BY <1>5 DEF Resolved
  <1> QED
    BY <1>4, <1>5, <1>6, <1>7, <1>8 DEF Continues, b

\* A completed day makes the streak one longer: its award is posted, since the
\* ledger has none for an open day.
LEMMA CreditDayContinues ==
    ASSUME NEW a \in AccountType, NEW d \in Dates, Sound(a), ~Resolved(a, d)
    PROVE  LET b == CreditDay(a, d)
           IN  Continues(a, b, d) /\ Clock(b) = Clock(a)
  <1> DEFINE streak == a.current_streak + 1
             points == PointsForCompletion(streak)
             key == DailyKey(d)
             paid == PostTransaction(a, key, points)
             moved == [paid EXCEPT !.current_streak = streak,
                                   !.longest_streak = IF @ < streak
                                                      THEN streak ELSE @]
             b == CreditDay(a, d)
  <1>1. /\ streak \in Nat /\ points \in Nat \ {0}
        /\ a.total_points + points >= 0
    <2>1. streak \in Nat /\ a.total_points \in Nat
      BY DEF AccountType
    <2>2. points \in Nat \ {0}
      BY <2>1, PointsPositive
    <2> QED
      BY <2>1, <2>2
  <1>2. key \in TxnTypes \X Nat
    BY DEF DailyKey, TxnTypes, Dates
  <1>3. Posts(a, key, points)
    <2>1. a.days[d].status # "completed"
      BY DEF Resolved, TerminalStatuses
    <2>2. ~HasTransaction(a, key)
      BY <2>1 DEF Sound, VerdictsPaidOnce
    <2> QED
      BY <1>1, <2>2 DEF Posts
  <1>4. b = Resolve(moved, d, "completed", points)
    BY <1>3 DEF CreditDay
  <1> HIDE DEF points, key, b
  <1>5. paid \in AccountType
    BY <1>1, <1>2, PostTransactionType
  <1>6. /\ paid.days = a.days /\ Clock(paid) = Clock(a)
        /\ paid.longest_streak = a.longest_streak
    BY DEF PostTransaction, Clock, AccountType
  <1> HIDE DEF paid
  <1>7. /\ moved \in AccountType /\ moved.days = a.days
        /\ Clock(moved) = Clock(a) /\ moved.current_streak = streak
        /\ moved.longest_streak = IF a.longest_streak < streak
                                  THEN streak ELSE a.longest_streak
    BY <1>1, <1>5, <1>6 DEF AccountType, Clock
  <1> HIDE DEF moved
  <1>8. "completed" \in TerminalStatuses /\ points \in Int
        /\ streak = StreakAfter(a.current_streak, "completed")
    BY <1>1 DEF TerminalStatuses, StreakAfter
  <1> HIDE DEF streak
  <1>9. LET r == Resolve(moved, d, "completed", points)
        IN  Continues(a, r, d) /\ Clock(r) = Clock(a)
    BY <1>7, <1>8, ResolveContinues
  <1> QED
    BY <1>4, <1>9 DEF b

\* A missed day ends it.
LEMMA MissDayContinues ==
    ASSUME NEW a \in AccountType, NEW d \in Dates, ~Resolved(a, d)
    PROVE  LET b == MissDay(a, d)
           IN  Continues(a, b, d) /\ Clock(b) = Clock(a)
  <1> DEFINE penalty == PenaltyForMiss(a.total_points)
             fine == -penalty
             key == PenaltyKey(d)
             fined == PostTransaction(a, key, fine)
             moved == [fined EXCEPT !.current_streak = 0]
             b == MissDay(a, d)
  <1>1. fine \in Int /\ a.total_points + fine >= 0
    <2>1. a.total_points \in Nat
      BY DEF AccountType
    <2>2. penalty \in Nat /\ penalty <= a.total_points
      BY <2>1, PenaltyPayable
    <2> QED
      BY <2>1, <2>2
  <1>2. key \in TxnTypes \X Nat
    BY DEF PenaltyKey, TxnTypes, Dates
  <1>3. b = Resolve(moved, d, "missed", fine)
    BY DEF MissDay
  <1> HIDE DEF fine, key, b
  <1>4. fined \in AccountType
    BY <1>1, <1>2, PostTransactionType
  <1>5. /\ fined.days = a.days /\ Clock(fined) = Clock(a)
        /\ fined.longest_streak = a.longest_streak
    BY DEF PostTransaction, Clock, AccountType
  <1> HIDE DEF fined
  <1>6. /\ moved \in AccountType /\ moved.days = a.days
        /\ Clock(moved) = Clock(a) /\ moved.current_streak = 0
        /\ moved.longest_streak = a.longest_streak
        /\ a.longest_streak \in Nat
    BY <1>4, <1>5 DEF AccountType, Clock
  <1> HIDE DEF moved
  <1>7. /\ "missed" \in TerminalStatuses
        /\ StreakAfter(a.current_streak, "missed") = 0
        /\ ~(a.longest_streak < 0)
    BY <1>6 DEF TerminalStatuses, StreakAfter
  <1>8. LET r == Resolve(moved, d, "missed", fine)
        IN  Continues(a, r, d) /\ Clock(r) = Clock(a)
    BY <1>1, <1>6, <1>7, ResolveContinues
  <1> QED
    BY <1>3, <1>8 DEF b

\* A freeze, a rest and an exemption hold it.
LEMMA NeutralContinues ==
    ASSUME NEW a \in AccountType, NEW c \in AccountType, NEW d \in Dates,
           NEW status \in NeutralStatuses, ~Resolved(a, d), c.days = a.days,
           Clock(c) = Clock(a), Counters(c) = Counters(a),
           a.current_streak <= a.longest_streak
    PROVE  LET b == Resolve(c, d, status, 0)
           IN  Continues(a, b, d) /\ Clock(b) = Clock(a)
  <1>1. /\ c.current_streak = a.current_streak
        /\ c.longest_streak = a.longest_streak
        /\ a.current_streak \in Nat /\ a.longest_streak \in Nat
    BY DEF Counters, AccountType
  <1>2. /\ status \in TerminalStatuses
        /\ StreakAfter(a.current_streak, status) = a.current_streak
    BY DEF TerminalStatuses, NeutralStatuses, StreakAfter
  <1>3. ~(a.longest_streak < c.current_streak)
    BY <1>1
  <1> QED
    BY <1>1, <1>2, <1>3, ResolveContinues

LEMMA FreezeDayContinues ==
    ASSUME NEW a \in AccountType, NEW d \in Dates, ~Resolved(a, d),
           a.current_streak <= a.longest_streak
    PROVE  LET b == FreezeDay(a, d)
           IN  Continues(a, b, d) /\ Clock(b) = Clock(a)
  <1> DEFINE used == [a EXCEPT !.quantity = @ - 1,
                               !.freezes_consumed = @ + 1,
                               !.usages = @ \cup {d}]
  <1>1. CASE a.quantity <= 0
    BY <1>1, MissDayContinues DEF FreezeDay
  <1>2. CASE ~(a.quantity <= 0)
    <2>1. /\ a.quantity - 1 \in Nat /\ a.freezes_consumed + 1 \in Nat
          /\ a.usages \cup {d} \in SUBSET Dates
      BY <1>2 DEF AccountType
    <2>2. used \in AccountType /\ used.days = a.days
          /\ Clock(used) = Clock(a) /\ Counters(used) = Counters(a)
      BY <2>1 DEF AccountType, Clock, Counters
    <2>3. FreezeDay(a, d) = Resolve(used, d, "frozen_item", 0)
      BY <1>2 DEF FreezeDay
    <2>4. "frozen_item" \in NeutralStatuses
      BY DEF NeutralStatuses
    <2> HIDE DEF used
    <2>5. LET r == Resolve(used, d, "frozen_item", 0)
          IN  Continues(a, r, d) /\ Clock(r) = Clock(a)
      BY <2>2, <2>4, NeutralContinues
    <2> QED
      BY <2>3, <2>5
  <1> QED
    BY <1>1, <1>2

LEMMA NeutralDayContinues ==
    ASSUME NEW a \in AccountType, NEW d \in Dates, ~Resolved(a, d),
           a.current_streak <= a.longest_streak,
           NEW status \in NeutralStatuses
    PROVE  LET b == NeutralDay(a, d, status)
           IN  Continues(a, b, d) /\ Clock(b) = Clock(a)
  BY NeutralContinues DEF NeutralDay

\* Every decision but to carry continues the story.
LEMMA ApplyContinues ==
    ASSUME NEW a \in AccountType, NEW d \in Dates, Sound(a), ~Resolved(a, d),
           a.current_streak <= a.longest_streak,
           NEW decision \in Decisions \ {"carry"}
    PROVE  LET b == Apply(a, d, decision)
           IN  Continues(a, b, d) /\ Clock(b) = Clock(a)
  <1>n. "rest_day" \in NeutralStatuses /\ "exempt" \in NeutralStatuses
    BY DEF NeutralStatuses
  <1>2. CASE decision = "credit"
    BY <1>2, CreditDayContinues DEF Apply
  <1>3. CASE decision = "miss"
    BY <1>3, MissDayContinues DEF Apply
  <1>4. CASE decision = "freeze"
    BY <1>4, FreezeDayContinues DEF Apply
  <1>5. CASE decision = "rest"
    BY <1>5, <1>n, NeutralDayContinues DEF Apply
  <1>6. CASE decision = "exempt"
    BY <1>6, <1>n, NeutralDayContinues DEF Apply
  <1> QED
    BY <1>2, <1>3, <1>4, <1>5, <1>6 DEF Decisions

-----------------------------------------------------------------------------
\* b has the plans of a, from the same start dates, and none that has become
\* active.
PlansKept(a, b) ==
    /\ DOMAIN b.plans = DOMAIN a.plans
    /\ \A i \in DOMAIN a.plans : b.plans[i].start_date = a.plans[i].start_date
    /\ ActivePlans(b) \subseteq ActivePlans(a)

\* b has the plans, the watermark and the statuses of a.
Keeps(a, b) ==
    /\ Clock(b) = Clock(a)
    /\ PlansKept(a, b)
    /\ \A d \in Dates : b.days[d].status = a.days[d].status

\* An operation that judges nothing, moves neither the counters nor the
\* watermark, and keeps the plans, leaves the account in order.
LEMMA OrderedSame ==
    ASSUME NEW a, NEW b, NEW t, Ordered(a, t), Judges(a, b, {}),
           Clock(b) = Clock(a), Counters(b) = Counters(a), PlansKept(a, b)
    PROVE  Ordered(b, t)
  <1>1. StreakTold(b) /\ ResolvedDays(b) = ResolvedDays(a)
    BY SameStory DEF Ordered
  <1>2. b.last_settled_date = a.last_settled_date /\ b.zone = a.zone
    BY DEF Clock
  <1>3. ActivePlans(b) \subseteq DOMAIN a.plans
    BY DEF PlansKept, ActivePlans
  <1>4. NothingAhead(b)
    BY <1>1, <1>2, <1>3 DEF Ordered, NothingAhead, PlansKept
  <1>5. OneActive(b)
    BY DEF Ordered, OneActive, PlansKept
  <1> QED
    BY <1>1, <1>2, <1>4, <1>5 DEF Ordered, PlansKept

LEMMA SamePlansKept ==
    ASSUME NEW a, NEW b, b.plans = a.plans
    PROVE  PlansKept(a, b)
  BY DEF PlansKept, ActivePlans

LEMMA KeepsBoth ==
    ASSUME NEW a, NEW b, NEW c, Keeps(a, b), Keeps(b, c)
    PROVE  Keeps(a, c)
  BY DEF Keeps, PlansKept

\* A plan whose row is rewritten keeps its start date.
LEMMA PlanRewritten ==
    ASSUME NEW a \in AccountType, NEW b, NEW i \in DOMAIN a.plans, NEW plan,
           plan.start_date = a.plans[i].start_date,
           plan.status = "active" => a.plans[i].status = "active",
           b.plans = [a.plans EXCEPT ![i] = plan]
    PROVE  PlansKept(a, b)
  <1>1. a.plans \in Seq(StudyPlan)
    BY DEF AccountType
  <1>2. DOMAIN b.plans = DOMAIN a.plans
    BY <1>1
  <1>3. \A j \in DOMAIN a.plans :
           b.plans[j] = IF j = i THEN plan ELSE a.plans[j]
    BY <1>1
  <1> QED
    BY <1>2, <1>3 DEF PlansKept, ActivePlans

\* No judged day is past the one the settlement starts from.
LEMMA JudgedBehind ==
    ASSUME NEW a \in AccountType, NEW t, Ordered(a, t), HasPlan(a)
    PROVE  \A d \in ResolvedDays(a) : d <= FirstUnsettled(a)
  <1>1. PlanId(a) \in ActivePlans(a)
    BY PlanExists DEF ActivePlans, Plan
  <1> QED
    BY <1>1 DEF Ordered, NothingAhead, FirstUnsettled, Plan

\* Opening a day judges nothing and moves nothing.
LEMMA GetOrCreateDayFrame ==
    ASSUME NEW a \in AccountType, NEW d \in Dates, Sound(a), HasPlan(a),
           FreezesAccounted(a)
    PROVE  LET b == GetOrCreateDay(a, d)
           IN  /\ Judges(a, b, {}) /\ Clock(b) = Clock(a)
               /\ Counters(b) = Counters(a) /\ PlansKept(a, b)
  <1> DEFINE b == GetOrCreateDay(a, d)
  <1>1. /\ HasDay(a, d) => b = a
        /\ ~HasDay(a, d) => b.days[d].status = "pending"
        /\ \A e \in Dates \ {d} : b.days[e] = a.days[e]
    BY GetOrCreateDayEffects
  <1>2. b.plans = a.plans
    BY GetOrCreateDaySound
  <1>3. Clock(b) = Clock(a) /\ Counters(b) = Counters(a)
    BY DEF GetOrCreateDay, Clock, Counters, AccountType
  <1> HIDE DEF b
  <1>4. Judges(a, b, {})
    <2>1. CASE HasDay(a, d)
      BY <1>1, <2>1 DEF Judges
    <2>2. CASE ~HasDay(a, d)
      BY <1>1, <2>2
         DEF Judges, Resolved, HasDay, TerminalStatuses, NeutralStatuses
    <2> QED
      BY <2>1, <2>2
  <1> QED
    BY <1>2, <1>3, <1>4, SamePlansKept DEF b

\* One iteration of settle_user judges the next day, and that one only.
LEMMA SettleDayOrdered ==
    ASSUME NEW a \in AccountType, NEW d \in Dates, NEW t \in Dates, Sound(a),
           HasPlan(a), FreezesAccounted(a), Ordered(a, t),
           d = FirstUnsettled(a), d < t
    PROVE  LET b == SettleDay(a, d)
           IN  /\ Ordered(b, t) /\ b.last_settled_date = d
               /\ ResolvedDays(b) = ResolvedDays(a) \cup {d}
  <1> DEFINE opened == GetOrCreateDay(a, d)
             decision == Decide(opened, d, ~HasDay(a, d))
             judged == Apply(opened, d, decision)
             b == SettleDay(a, d)
  <1>1. /\ opened \in AccountType /\ Sound(opened)
        /\ opened.plans = a.plans
    BY GetOrCreateDaySound
  <1>2. /\ Judges(a, opened, {}) /\ Clock(opened) = Clock(a)
        /\ Counters(opened) = Counters(a)
    BY GetOrCreateDayFrame
  <1>3. /\ decision \in Decisions
        /\ decision = "carry" <=> Resolved(opened, d)
    BY DEF Decide, Decisions
  <1>4. b = [judged EXCEPT !.last_settled_date = d]
    BY DEF SettleDay
  <1> HIDE DEF opened, decision, b
  <1>5. StreakTold(opened) /\ ResolvedDays(opened) = ResolvedDays(a)
    BY <1>2, SameStory DEF Ordered
  <1>6. /\ judged \in AccountType /\ judged.plans = a.plans
        /\ StreakTold(judged) /\ judged.zone = a.zone
        /\ ResolvedDays(judged) = ResolvedDays(a) \cup {d}
    <2>1. CASE decision = "carry"
      <3>1. judged = opened /\ d \in ResolvedDays(opened)
        BY <1>3, <2>1 DEF Apply, ResolvedDays
      <3> QED
        BY <1>1, <1>2, <1>5, <3>1 DEF Clock
    <2>2. CASE decision # "carry"
      <3>1. judged \in AccountType /\ judged.plans = a.plans
        BY <1>1, <1>3, <2>2, ApplySound
      <3>2. opened.current_streak <= opened.longest_streak
        BY <1>5 DEF StreakTold
      <3>3. Continues(opened, judged, d) /\ Clock(judged) = Clock(opened)
        BY <1>1, <1>3, <2>2, <3>2, ApplyContinues
      <3>4. \A e \in ResolvedDays(opened) : e < d
        <4> TAKE e \in ResolvedDays(opened)
        <4>1. e \in Dates /\ Resolved(opened, e) /\ e <= d
          BY <1>5, JudgedBehind DEF ResolvedDays
        <4>2. e # d
          BY <1>3, <2>2, <4>1
        <4> QED
          BY <4>1, <4>2 DEF Dates
      <3> HIDE DEF judged
      <3>5. /\ StreakTold(judged)
            /\ ResolvedDays(judged) = ResolvedDays(opened) \cup {d}
        BY <1>1, <1>5, <3>1, <3>3, <3>4, NextChapter
      <3> QED
        BY <1>2, <1>5, <3>1, <3>3, <3>5 DEF Clock
    <2> QED
      BY <2>1, <2>2
  <1> HIDE DEF judged
  <1>7. /\ b.last_settled_date = d /\ b.plans = a.plans /\ b.zone = a.zone
        /\ b.days = judged.days /\ Counters(b) = Counters(judged)
    BY <1>4, <1>6 DEF AccountType, Counters
  <1>8. StreakTold(b) /\ ResolvedDays(b) = ResolvedDays(judged)
    <2>1. Judges(judged, b, {})
      BY <1>7 DEF Judges, Resolved
    <2> QED
      BY <1>6, <1>7, <2>1, SameStory
  <1>9. \A e \in ResolvedDays(b) : e <= d /\ e \in Dates
    <2> TAKE e \in ResolvedDays(b)
    <2>1. e \in Dates
      BY DEF ResolvedDays
    <2>2. e \in ResolvedDays(a) => e <= d
      BY JudgedBehind
    <2> QED
      BY <1>6, <1>8, <2>1, <2>2 DEF Dates
  <1>10. d \in Nat /\ d # NoDate /\ t \in Nat /\ \A e \in Dates : e \in Nat
    BY DEF Dates, NoDate
  <1>11. \A e \in ResolvedDays(b) : e <= d + 1 /\ e <= t
    <2> TAKE e \in ResolvedDays(b)
    <2>1. e \in Nat /\ e <= d
      BY <1>9, <1>10
    <2> QED
      BY <1>10, <2>1
  <1>12. NothingAhead(b)
    BY <1>7, <1>10, <1>11 DEF NothingAhead
  <1>13. OneActive(b)
    BY <1>7 DEF Ordered, OneActive, ActivePlans
  <1> QED
    BY <1>6, <1>7, <1>8, <1>11, <1>12, <1>13 DEF Ordered, b

-----------------------------------------------------------------------------
\* Settlement has come to date t.
ComeTo(a, t) ==
    /\ a.last_settled_date # NoDate => t <= a.last_settled_date + 1
    /\ a.last_settled_date = NoDate =>
          \A i \in ActivePlans(a) : t <= a.plans[i].start_date

\* To complete that day is to judge in order.
LEMMA CreditTodayOrdered ==
    ASSUME NEW a \in AccountType, NEW t \in Dates, Sound(a), Ordered(a, t),
           ComeTo(a, t), ~Resolved(a, t)
    PROVE  Ordered(CreditDay(a, t), t)
  <1> DEFINE b == CreditDay(a, t)
  <1>1. b \in AccountType /\ b.plans = a.plans
    BY CreditDaySound
  <1>2. Continues(a, b, t) /\ Clock(b) = Clock(a)
    BY CreditDayContinues
  <1> HIDE DEF b
  <1>3. \A d \in ResolvedDays(a) : d < t
    BY DEF Ordered, ResolvedDays, Dates
  <1>4. StreakTold(b) /\ ResolvedDays(b) = ResolvedDays(a) \cup {t}
    BY <1>1, <1>2, <1>3, NextChapter DEF Ordered
  <1>5. /\ b.last_settled_date = a.last_settled_date /\ b.zone = a.zone
        /\ ActivePlans(b) = ActivePlans(a)
    BY <1>1, <1>2 DEF Clock, ActivePlans
  <1>6. NothingAhead(b)
    BY <1>1, <1>4, <1>5 DEF Ordered, NothingAhead, ComeTo
  <1>7. \A d \in ResolvedDays(b) : d <= t
    BY <1>4 DEF Ordered, Dates
  <1>8. OneActive(b)
    BY <1>5 DEF Ordered, OneActive
  <1> QED
    BY <1>1, <1>4, <1>5, <1>6, <1>7, <1>8 DEF Ordered, b

\* So a log on that day leaves the account in order.
LEMMA LogStudyOrdered ==
    ASSUME NEW a \in AccountType, NEW t \in Dates, NEW units \in Nat,
           NEW key \in RequestKeys, Sound(a), HasPlan(a), CanLog(a, t),
           FreezesAccounted(a), Ordered(a, t), FirstUnsettled(a) = t
    PROVE  LET b == LogStudy(a, t, units, key)
           IN  /\ Ordered(b, t) /\ Clock(b) = Clock(a) /\ PlansKept(a, b)
               /\ \A d \in Dates \ {t} : b.days[d].status = a.days[d].status
  <1> DEFINE left == Plan(a).mishnayot_count - Plan(a).current_ordinal
             n == IF units < left THEN units ELSE left
             logged == RecordUnits(a, t, n, key)
             finished == units >= left
             enough == logged.days[t].completed_units >= GoalForDay(logged, t)
             credited == IF ~Resolved(logged, t) /\ (enough \/ finished)
                         THEN CreditDay(logged, t) ELSE logged
             i == PlanId(a)
             b == LogStudy(a, t, units, key)
  <1>1. n \in Nat /\ i \in DOMAIN a.plans /\ a.plans[i].status = "active"
        /\ a.plans[i] \in StudyPlan /\ i \in ActivePlans(a)
    BY PlanExists DEF CanLog, StudyPlan, Plan, ActivePlans
  <1>2. b = IF finished THEN [credited EXCEPT !.plans[i].status = "completed"]
                        ELSE credited
    BY DEF LogStudy
  <1> HIDE DEF n, finished
  <1>3. /\ logged \in AccountType /\ Sound(logged) /\ Judges(a, logged, {})
        /\ FreezesAccounted(logged)
        /\ \A d \in Dates : Verdict(logged.days[d]) = Verdict(a.days[d])
    BY <1>1, RecordUnitsSound, RecordUnitsEffects
  <1>4. /\ Clock(logged) = Clock(a) /\ Counters(logged) = Counters(a)
        /\ PlansKept(a, logged)
    <2> DEFINE plan == [a.plans[i] EXCEPT !.current_ordinal = @ + n]
    <2>1. /\ plan.start_date = a.plans[i].start_date
          /\ plan.status = "active"
      BY <1>1 DEF StudyPlan
    <2>2. logged.plans = [a.plans EXCEPT ![i] = plan]
      BY DEF RecordUnits, AccountType
    <2>3. Clock(logged) = Clock(a) /\ Counters(logged) = Counters(a)
      BY DEF RecordUnits, AccountType, Clock, Counters
    <2> HIDE DEF plan, logged
    <2> QED
      BY <1>1, <2>1, <2>2, <2>3, PlanRewritten
  <1>5. ComeTo(a, t)
    BY <1>1 DEF ComeTo, FirstUnsettled, Plan, Ordered, OneActive, Dates, NoDate
  <1> HIDE DEF logged, enough, i
  <1>6. Ordered(logged, t)
    BY <1>3, <1>4, OrderedSame
  <1>7. ComeTo(logged, t)
    BY <1>4, <1>5 DEF ComeTo, Clock, PlansKept, ActivePlans
  <1>8. /\ credited \in AccountType /\ Ordered(credited, t)
        /\ Clock(credited) = Clock(a) /\ credited.plans = logged.plans
        /\ \A d \in Dates \ {t} :
              credited.days[d].status = a.days[d].status
    <2>1. CASE ~Resolved(logged, t) /\ (enough \/ finished)
      <3>1. credited = CreditDay(logged, t)
        BY <2>1
      <3>2. /\ credited \in AccountType /\ Ordered(credited, t)
            /\ Clock(credited) = Clock(logged)
            /\ credited.plans = logged.plans
            /\ JudgesOne(logged, credited, t)
        BY <1>3, <1>6, <1>7, <2>1, <3>1, CreditDaySound, CreditDayEffects,
           CreditDayContinues, CreditTodayOrdered
      <3> HIDE DEF credited
      <3> QED
        BY <1>3, <1>4, <3>2 DEF JudgesOne, Verdict
    <2>2. CASE ~(~Resolved(logged, t) /\ (enough \/ finished))
      <3>1. credited = logged
        BY <2>2
      <3> HIDE DEF credited
      <3> QED
        BY <1>3, <1>4, <1>6, <3>1 DEF Verdict
    <2> QED
      BY <2>1, <2>2
  <1> HIDE DEF credited, b
  <1>k. PlansKept(a, credited) /\ DOMAIN credited.plans = DOMAIN a.plans
    BY <1>4, <1>8 DEF PlansKept, ActivePlans
  <1>9. CASE finished
    <2> DEFINE done == [credited EXCEPT !.plans[i].status = "completed"]
               plan == [credited.plans[i] EXCEPT !.status = "completed"]
    <2>1. i \in DOMAIN credited.plans /\ credited.plans[i] \in StudyPlan
      <3>1. i \in DOMAIN credited.plans
        BY <1>1, <1>k
      <3>2. credited.plans \in Seq(StudyPlan)
        BY <1>8 DEF AccountType
      <3> QED
        BY <3>1, <3>2
    <2>2. /\ plan.start_date = credited.plans[i].start_date
          /\ plan.status # "active"
      BY <2>1 DEF StudyPlan
    <2>3. /\ done.plans = [credited.plans EXCEPT ![i] = plan]
          /\ done.days = credited.days
          /\ Clock(done) = Clock(credited)
          /\ Counters(done) = Counters(credited)
      BY <1>8 DEF AccountType, Clock, Counters
    <2>4. b = done
      BY <1>2, <1>9
    <2> HIDE DEF plan, done
    <2>5. PlansKept(credited, done)
      BY <1>8, <2>1, <2>2, <2>3, PlanRewritten
    <2>6. Judges(credited, done, {})
      BY <2>3 DEF Judges, Resolved
    <2>7. Ordered(done, t)
      BY <1>8, <2>3, <2>5, <2>6, OrderedSame
    <2>8. PlansKept(a, done)
      BY <1>k, <2>5 DEF PlansKept
    <2> QED
      BY <1>8, <2>3, <2>4, <2>7, <2>8 DEF b
  <1>10. CASE ~finished
    BY <1>2, <1>8, <1>k, <1>10 DEF b
  <1> QED
    BY <1>9, <1>10

-----------------------------------------------------------------------------
\* What a change of goal, of position, of preferences or of the inventory does
\* not touch.
LEMMA ChangeGoalOrdered ==
    ASSUME NEW a \in AccountType, NEW goal \in Nat \ {0}, NEW d \in Dates,
           NEW t, HasPlan(a), FreezesAccounted(a), Ordered(a, t)
    PROVE  LET b == ChangeGoal(a, goal, d) IN Ordered(b, t) /\ Keeps(a, b)
  <1> DEFINE b == ChangeGoal(a, goal, d)
             i == PlanId(a)
             plan == [a.plans[i] EXCEPT !.daily_goal = goal]
  <1>1. i \in DOMAIN a.plans /\ a.plans[i] \in StudyPlan
        /\ a.plans[i].status = "active"
    BY PlanExists DEF Plan
  <1>2. /\ Judges(a, b, {})
        /\ \A e \in Dates : b.days[e].status = a.days[e].status
    BY ChangeGoalEffects
  <1>3. /\ Clock(b) = Clock(a) /\ Counters(b) = Counters(a)
        /\ b.plans = [a.plans EXCEPT ![i] = plan]
    BY DEF ChangeGoal, AccountType, Clock, Counters
  <1>4. plan.start_date = a.plans[i].start_date
    BY <1>1 DEF StudyPlan
  <1> HIDE DEF b, plan, i
  <1>5. PlansKept(a, b)
    BY <1>1, <1>3, <1>4, PlanRewritten
  <1> QED
    BY <1>2, <1>3, <1>5, OrderedSame DEF Keeps, b

LEMMA SetPositionOrdered ==
    ASSUME NEW a \in AccountType, NEW ordinal \in Nat, NEW t, HasPlan(a),
           FreezesAccounted(a), Sound(a), Ordered(a, t)
    PROVE  LET b == SetPosition(a, ordinal) IN Ordered(b, t) /\ Keeps(a, b)
  <1> DEFINE b == SetPosition(a, ordinal)
             i == PlanId(a)
             plan == [a.plans[i] EXCEPT !.current_ordinal = ordinal]
  <1>1. i \in DOMAIN a.plans /\ a.plans[i] \in StudyPlan
        /\ a.plans[i].status = "active"
    BY PlanExists DEF Plan
  <1>2. Judges(a, b, {})
    BY SetPositionEffects
  <1>3. /\ Clock(b) = Clock(a) /\ Counters(b) = Counters(a)
        /\ b.days = a.days
        /\ b.plans = [a.plans EXCEPT ![i] = plan]
    BY DEF SetPosition, AccountType, Clock, Counters
  <1>4. plan.start_date = a.plans[i].start_date
    BY <1>1 DEF StudyPlan
  <1> HIDE DEF b, plan, i
  <1>5. PlansKept(a, b)
    BY <1>1, <1>3, <1>4, PlanRewritten
  <1> QED
    BY <1>2, <1>3, <1>5, OrderedSame DEF Keeps, b

LEMMA PreferOrdered ==
    ASSUME NEW a \in AccountType, NEW week \in StudyWeeks, NEW at \in Dates,
           NEW t, FreezesAccounted(a), Ordered(a, t)
    PROVE  LET b == Prefer(a, week, 0, at) IN Ordered(b, t) /\ Keeps(a, b)
  <1> DEFINE c == [a EXCEPT !.study_week = week, !.zone = 0]
             goal == Plan(a).daily_goal
  <1>1. /\ c \in AccountType /\ c.days = a.days /\ c.plans = a.plans
        /\ Purse(c) = Purse(a) /\ c.ledger = a.ledger
        /\ Counters(c) = Counters(a)
    BY DEF AccountType, Purse, ZoneKinds, Counters
  <1>2. Clock(c) = Clock(a)
    BY DEF AccountType, Clock, Ordered
  <1>3. Prefer(a, week, 0, at) = IF HasPlan(a) THEN ChangeGoal(c, goal, at)
                                 ELSE c
    BY DEF Prefer
  <1> HIDE DEF c
  <1>4. FreezesAccounted(c) /\ Judges(a, c, {})
    BY <1>1, SameDays
  <1>5. Ordered(c, t) /\ PlansKept(a, c) /\ Keeps(a, c)
    BY <1>1, <1>2, <1>4, SamePlansKept, OrderedSame DEF Keeps
  <1>6. HasPlan(a) => HasPlan(c) /\ goal \in Nat \ {0}
    BY <1>1, SamePlan, PlanExists DEF StudyPlan
  <1> DEFINE b == ChangeGoal(c, goal, at)
  <1> HIDE DEF goal, b
  <1>7. CASE HasPlan(a)
    <2>1. Ordered(b, t) /\ Keeps(c, b)
      BY <1>1, <1>4, <1>5, <1>6, <1>7, ChangeGoalOrdered DEF b
    <2>2. Keeps(a, b)
      BY <1>5, <2>1, KeepsBoth
    <2> QED
      BY <1>3, <1>7, <2>1, <2>2 DEF b
  <1>8. CASE ~HasPlan(a)
    BY <1>3, <1>5, <1>8
  <1> QED
    BY <1>7, <1>8

LEMMA PurchaseOrdered ==
    ASSUME NEW a \in AccountType, NEW key \in RequestKeys, NEW t,
           CanPurchase(a), FreezesAccounted(a), Ordered(a, t)
    PROVE  LET b == Purchase(a, key) IN Ordered(b, t) /\ Keeps(a, b)
  <1> DEFINE b == Purchase(a, key)
  <1>1. Judges(a, b, {})
    BY PurchaseEffects
  <1>2. /\ Clock(b) = Clock(a) /\ Counters(b) = Counters(a)
        /\ b.plans = a.plans /\ b.days = a.days
    BY DEF Purchase, PostTransaction, AccountType, Clock, Counters
  <1> QED
    BY <1>1, <1>2, SamePlansKept, OrderedSame DEF Keeps

-----------------------------------------------------------------------------
\* The plan that is left behind was the only active one.
LEMMA AbandonOrdered ==
    ASSUME NEW a \in AccountType, NEW t, Sound(a), FreezesAccounted(a),
           Ordered(a, t)
    PROVE  Ordered(Abandon(a), t) /\ ~HasPlan(Abandon(a))
  <1> DEFINE b == Abandon(a)
             i == PlanId(a)
             plan == [a.plans[i] EXCEPT !.status = "abandoned"]
  <1>1. CASE ~HasPlan(a)
    BY <1>1 DEF Abandon
  <1>2. CASE HasPlan(a)
    <2>1. i \in DOMAIN a.plans /\ a.plans[i] \in StudyPlan
          /\ a.plans \in Seq(StudyPlan) /\ i \in ActivePlans(a)
      BY <1>2, PlanExists DEF Plan, ActivePlans, AccountType
    <2>2. Judges(a, b, {})
      BY AbandonEffects
    <2>3. /\ Clock(b) = Clock(a) /\ Counters(b) = Counters(a)
          /\ b.plans = [a.plans EXCEPT ![i] = plan]
      BY <1>2 DEF Abandon, AccountType, Clock, Counters
    <2>4. /\ plan.start_date = a.plans[i].start_date
          /\ plan.status # "active"
      BY <2>1 DEF StudyPlan
    <2> HIDE DEF b, plan, i
    <2>5. PlansKept(a, b)
      BY <2>1, <2>3, <2>4, PlanRewritten
    <2>6. Ordered(b, t)
      BY <2>2, <2>3, <2>5, OrderedSame
    <2>7. i \notin ActivePlans(b)
      BY <2>1, <2>3, <2>4 DEF ActivePlans
    <2>8. ActivePlans(b) = {}
      BY <2>1, <2>5, <2>7 DEF Ordered, OneActive, PlansKept
    <2> QED
      BY <2>6, <2>8 DEF HasPlan, b
  <1> QED
    BY <1>1, <1>2

\* A plan that starts today starts after every day judged so far.
LEMMA CreatePlanOrdered ==
    ASSUME NEW a \in AccountType, NEW goal \in Nat \ {0},
           NEW size \in Nat \ {0}, NEW t \in Dates, NEW created \in Dates,
           Sound(a), FreezesAccounted(a), Ordered(a, t), ~HasPlan(a)
    PROVE  Ordered(CreatePlan(a, goal, size, t, created), t)
  <1> DEFINE plan == [daily_goal |-> goal, start_date |-> t,
                      created |-> created, current_ordinal |-> 0,
                      mishnayot_count |-> size, status |-> "active"]
             b == CreatePlan(a, goal, size, t, created)
             n == Len(a.plans)
  <1>1. Judges(a, b, {})
    BY CreatePlanEffects
  <1>2. /\ b.plans = Append(a.plans, plan)
        /\ Clock(b) = Clock(a) /\ Counters(b) = Counters(a)
    BY DEF CreatePlan, AccountType, Clock, Counters
  <1>3. plan.start_date = t /\ plan \in StudyPlan
    <2>1. "active" \in PlanStatuses
      BY DEF PlanStatuses
    <2> QED
      BY <2>1 DEF StudyPlan
  <1>4. a.plans \in Seq(StudyPlan)
    BY DEF AccountType
  <1> HIDE DEF b, plan
  <1>5. /\ DOMAIN b.plans = DOMAIN a.plans \cup {n + 1}
        /\ \A i \in DOMAIN a.plans : b.plans[i] = a.plans[i]
        /\ b.plans[n + 1] = plan
    <2>1. /\ DOMAIN b.plans = 1..(n + 1) /\ DOMAIN a.plans = 1..n
          /\ n \in Nat
          /\ \A i \in 1..n : b.plans[i] = a.plans[i]
          /\ b.plans[n + 1] = plan
      BY <1>2, <1>3, <1>4, AppendProperties, LenProperties
    <2> QED
      BY <2>1
  <1>6. \A i \in ActivePlans(b) : i = n + 1
    BY <1>5 DEF ActivePlans, HasPlan
  <1>7. StreakTold(b) /\ ResolvedDays(b) = ResolvedDays(a)
    BY <1>1, <1>2, SameStory DEF Ordered
  <1>8. b.last_settled_date = a.last_settled_date /\ b.zone = a.zone
    BY <1>2 DEF Clock
  <1>9. NothingAhead(b)
    BY <1>3, <1>5, <1>6, <1>7, <1>8 DEF Ordered, NothingAhead
  <1>10. \A i \in DOMAIN b.plans : b.plans[i].start_date <= t
    BY <1>3, <1>5 DEF Ordered, Dates
  <1>11. OneActive(b)
    BY <1>6 DEF OneActive
  <1> QED
    BY <1>7, <1>8, <1>9, <1>10, <1>11 DEF Ordered, b

LEMMA SwitchTractateOrdered ==
    ASSUME NEW a \in AccountType, NEW goal \in Nat \ {0},
           NEW size \in Nat \ {0}, NEW ordinal \in Nat, NEW t \in Dates,
           NEW created \in Dates, Sound(a), FreezesAccounted(a),
           Ordered(a, t)
    PROVE  Ordered(SwitchTractate(a, goal, size, ordinal, t, created), t)
  <1> DEFINE left == Abandon(a)
             fresh == CreatePlan(left, goal, size, t, created)
             placed == SetPosition(fresh, ordinal)
             b == ChangeGoal(placed, goal, t)
  <1>0. SwitchTractate(a, goal, size, ordinal, t, created) = b
    BY DEF SwitchTractate
  <1>1. /\ left \in AccountType /\ Sound(left) /\ FreezesAccounted(left)
        /\ Ordered(left, t) /\ ~HasPlan(left)
    BY AbandonSound, AbandonEffects, AbandonOrdered
  <1> HIDE DEF left, b
  <1>2. /\ fresh \in AccountType /\ Sound(fresh) /\ HasPlan(fresh)
        /\ FreezesAccounted(fresh) /\ Ordered(fresh, t)
    BY <1>1, CreatePlanSound, CreatePlanEffects, CreatePlanOrdered
  <1> HIDE DEF fresh
  <1>3. /\ placed \in AccountType /\ Sound(placed) /\ HasPlan(placed)
        /\ FreezesAccounted(placed) /\ Ordered(placed, t)
    BY <1>2, SetPositionSound, SetPositionEffects, SetPositionOrdered
  <1> HIDE DEF placed
  <1>4. Ordered(b, t)
    BY <1>3, ChangeGoalOrdered DEF b
  <1> QED
    BY <1>0, <1>4

-----------------------------------------------------------------------------
\* To judge nothing, or one day that is not before any other, is later.
LEMMA LaterByOne ==
    ASSUME NEW a, NEW b, NEW c, NEW d \in Dates, Later(a, b),
           ResolvedDays(a) \subseteq ResolvedDays(b),
           ResolvedDays(c) \subseteq ResolvedDays(b) \cup {d},
           \A e \in ResolvedDays(b) : e <= d
    PROVE  Later(a, c)
  <1> SUFFICES ASSUME NEW x \in ResolvedDays(c) \ ResolvedDays(a),
                      NEW e \in ResolvedDays(a)
               PROVE  e < x
    BY DEF Later
  <1>1. CASE x \in ResolvedDays(b)
    BY <1>1 DEF Later
  <1>2. CASE x \notin ResolvedDays(b)
    <2>1. x = d /\ e <= d /\ e # d
      BY <1>2
    <2>2. e \in Nat /\ d \in Nat
      BY DEF ResolvedDays, Dates
    <2> QED
      BY <2>1, <2>2
  <1> QED
    BY <1>1, <1>2

LEMMA LaterNothing ==
    ASSUME NEW a, NEW b, Judges(a, b, {})
    PROVE  Later(a, b)
  BY DEF Later, Judges, ResolvedDays

\* What a judges, b judges too when it has changed no verdict of a.
LEMMA StillResolved ==
    ASSUME NEW a, NEW b, NEW D, Judges(a, b, D)
    PROVE  ResolvedDays(a) \subseteq ResolvedDays(b)
  <1>1. \A d \in Dates : Resolved(a, d) => b.days[d].status = a.days[d].status
    BY DEF Judges, Verdict
  <1> QED
    BY <1>1 DEF ResolvedDays, Resolved

\* An account is in order on a later date too.
LEMMA OrderedLater ==
    ASSUME NEW a \in AccountType, NEW t \in Dates, NEW u \in Dates, t <= u,
           Ordered(a, t)
    PROVE  Ordered(a, u)
  <1>p. a.plans \in Seq(StudyPlan)
    BY DEF AccountType
  <1>1. /\ a.last_settled_date \in Int /\ t \in Int /\ u \in Int
        /\ \A d \in ResolvedDays(a) : d \in Int
        /\ \A i \in DOMAIN a.plans : a.plans[i].start_date \in Int
    <2>1. \A i \in DOMAIN a.plans : a.plans[i] \in StudyPlan
      BY <1>p
    <2>2. a.last_settled_date \in Int /\ Dates \subseteq Int
      BY DEF AccountType, Dates, NoDate
    <2> QED
      BY <2>1, <2>2 DEF ResolvedDays, StudyPlan
  <1>2. a.last_settled_date < u
    BY <1>1 DEF Ordered
  <1>3. \A d \in ResolvedDays(a) : d <= u
    BY <1>1 DEF Ordered
  <1>4. \A i \in DOMAIN a.plans : a.plans[i].start_date <= u
    BY <1>1 DEF Ordered
  <1> QED
    BY <1>2, <1>3, <1>4 DEF Ordered

\* Settlement never starts after today.
LEMMA FirstUnsettledDue ==
    ASSUME NEW a \in AccountType, NEW t \in Dates, HasPlan(a), Ordered(a, t)
    PROVE  FirstUnsettled(a) <= t
  <1>1. PlanId(a) \in DOMAIN a.plans
    BY PlanExists
  <1>2. a.last_settled_date \in Int /\ t \in Int
    BY DEF AccountType, Dates, NoDate
  <1> QED
    BY <1>1, <1>2 DEF Ordered, FirstUnsettled, Plan

\* A learner who has just signed in has been judged in order.
LEMMA NewAccountOrdered ==
    ASSUME NEW week \in StudyWeeks, NEW t \in Dates
    PROVE  Ordered(NewAccount(week, 0), t)
  <1> DEFINE b == NewAccount(week, 0)
  <1>1. /\ b.plans = <<>> /\ b.zone = 0 /\ b.last_settled_date = -1
        /\ b.current_streak = 0 /\ b.longest_streak = 0
        /\ \A d \in Dates : b.days[d].status = "none"
    BY DEF NewAccount, NoDate, NoDay
  <1> HIDE DEF b
  <1>2. ResolvedDays(b) = {}
    BY <1>1 DEF ResolvedDays, Resolved, TerminalStatuses, NeutralStatuses
  <1>3. StreakBefore(b, MaxDay + 1) = 0
    BY <1>2 DEF StreakBefore
  <1>4. StreakTold(b)
    BY <1>1, <1>2, <1>3 DEF StreakTold
  <1>5. DOMAIN b.plans = {}
    BY <1>1
  <1> QED
    BY <1>1, <1>2, <1>4, <1>5
       DEF Ordered, OneActive, NothingAhead, ActivePlans, Dates, b

-----------------------------------------------------------------------------
\* The learners the order is proved for: the study date is the UTC date, plans
\* start on the day they are made, and one settlement may judge all that is due.
SteadyLearner ==
    /\ Zones = {0}
    /\ Starts = {}
    /\ MaxDay <= MaxDaysPerSettlement

LEMMA InitOInv ==
    ASSUME SteadyLearner
    PROVE  Init => OInv
  <1> SUFFICES ASSUME Init PROVE OInv
    OBVIOUS
  <1>1. PICK week \in Weeks, zone \in Zones :
           db = NewAccount(week, zone) /\ today \in LocalDates(0, zone)
    BY DEF Init
  <1>2. zone = 0 /\ week \in StudyWeeks
    BY WeeksAssumption DEF SteadyLearner
  <1>3. today = 0 /\ utc = 0 /\ w = db /\ pc = "idle" /\ today \in Dates
    BY <1>1, <1>2 DEF Init, LocalDates
  <1>4. Ordered(db, today)
    BY <1>1, <1>2, <1>3, NewAccountOrdered
  <1>5. Later(db, db)
    BY DEF Later
  <1> QED
    BY <1>3, <1>4, <1>5, InitVInv DEF OInv

LEMMA BeginSettleOInv ==
    ASSUME NEW op, NEW units, NEW key, OInv, VInv',
           BeginSettle(op, units, key)
    PROVE  OInv'
  <1>1. /\ w = db /\ w' = w /\ db' = db /\ today' = today /\ utc' = utc
        /\ pc' = "settle" /\ req'.at = today /\ processed' = 0
        /\ today \in Dates /\ db \in AccountType /\ cursor' \in Nat
    BY DEF BeginSettle, OInv, VInv, IInv, TypeOK
  <1>2. /\ Ordered(db, today)' /\ Ordered(w, today)' /\ Later(db, w)'
        /\ utc' = today'
    BY <1>1 DEF OInv
  <1>3. HasPlan(db) =>
           /\ cursor' = FirstUnsettled(db) /\ cursor' <= today
           /\ processed' <= cursor'
    BY <1>1, FirstUnsettledDue DEF BeginSettle, OInv
  <1>4. HasPlan(w)' =>
           /\ processed' <= cursor' /\ cursor' = FirstUnsettled(w)'
           /\ cursor' <= today'
    BY <1>1, <1>3
       DEF HasPlan, ActivePlans, FirstUnsettled, Plan, PlanId
  <1> QED
    BY <1>1, <1>2, <1>4 DEF OInv

LEMMA RollbackOInv ==
    ASSUME OInv, VInv', Rollback
    PROVE  OInv'
  <1>1. w' = db /\ db' = db /\ pc' = "idle" /\ today' = today /\ utc' = utc
    BY DEF Rollback
  <1>2. Later(db, db)
    BY DEF Later
  <1>3. Ordered(db, today)' /\ Ordered(w, today)' /\ Later(db, w)'
    BY <1>1, <1>2 DEF OInv
  <1> QED
    BY <1>1, <1>3 DEF OInv

LEMMA HandleOInv ==
    ASSUME NEW op, NEW key, NEW account, Ordered(account, today),
           Judges(db, account, {}), OInv, VInv',
           Handle(op, key, today, account)
    PROVE  OInv'
  <1>1. /\ w' = account /\ db' = db /\ pc' = "commit" /\ req'.at = today
        /\ today' = today /\ utc' = utc
    BY DEF Handle
  <1>2. Later(db, account)
    BY LaterNothing
  <1>3. Ordered(db, today)' /\ Ordered(w, today)' /\ Later(db, w)'
    BY <1>1, <1>2 DEF OInv
  <1> QED
    BY <1>1, <1>3 DEF OInv

\* Every step of every request keeps the invariant.
LEMMA NextOInv ==
    ASSUME SteadyLearner
    PROVE  OInv /\ [Next]_vars => OInv'
  <1> SUFFICES ASSUME OInv, [Next]_vars PROVE OInv'
    OBVIOUS
  <1>i. VInv /\ VInv'
    BY NextVInv DEF OInv
  <1>t. /\ db \in AccountType /\ w \in AccountType /\ Sound(db) /\ Sound(w)
        /\ today \in Dates /\ utc = today /\ cursor \in Nat
        /\ processed \in Nat /\ req.key \in RequestKeys
        /\ req.units \in Nat /\ NoKey \in RequestKeys
        /\ FreezesAccounted(db) /\ FreezesAccounted(w)
        /\ Ordered(db, today) /\ Ordered(w, today) /\ Later(db, w)
    BY <1>i, BoundsAssumption
       DEF OInv, VInv, IInv, TypeOK, Request, RequestKeys
  <1>r. ResolvedDays(db) \subseteq ResolvedDays(w)
    BY <1>i, StillResolved DEF VInv, Allowed
  <1>s. \A x \in Starts \cup {utc} : x = today
    BY <1>t DEF SteadyLearner
  <1>1. CASE BeginLog
    BY <1>1, <1>i, BeginSettleOInv, KeysSent DEF BeginLog
  <1>2. CASE BeginRead
    BY <1>2, <1>i, BeginSettleOInv DEF BeginRead
  <1>3. CASE BeginSweep
    BY <1>3, <1>i, BeginSettleOInv DEF BeginSweep
  <1>4. CASE NoActivePlan
    BY <1>4, <1>i, RollbackOInv DEF NoActivePlan
  <1>5. CASE SettleNext
    <2>0. /\ pc = "settle" /\ pc' = "settle" /\ HasPlan(w)
          /\ cursor < req.at /\ w' = SettleDay(w, cursor)
          /\ cursor' = cursor + 1 /\ processed' = processed + 1
          /\ db' = db /\ req' = req /\ today' = today /\ utc' = utc
      BY <1>5 DEF SettleNext, MoreToSettle
    <2>1. /\ req.at = today /\ processed <= cursor
          /\ cursor = FirstUnsettled(w)
      BY <2>0 DEF OInv
    <2>2. cursor \in Dates /\ cursor < today
      BY <1>t, <2>0, <2>1, MaxDayAssumption DEF Dates
    <2>3. /\ Ordered(w', today) /\ w'.last_settled_date = cursor
          /\ ResolvedDays(w') = ResolvedDays(w) \cup {cursor}
      BY <1>t, <2>0, <2>1, <2>2, SettleDayOrdered
    <2>4. Later(db, w')
      <3>1. \A e \in ResolvedDays(w) : e <= cursor
        BY <1>t, <2>0, <2>1, JudgedBehind
      <3> QED
        BY <1>r, <1>t, <2>2, <2>3, <3>1, LaterByOne
    <2>5. /\ processed' <= cursor' /\ cursor' = FirstUnsettled(w')
          /\ cursor' <= today
      <3>1. cursor # NoDate /\ today \in Nat
        BY <1>t DEF NoDate, Dates
      <3> QED
        BY <1>t, <2>0, <2>1, <2>2, <2>3, <3>1 DEF FirstUnsettled
    <2>6. Ordered(db, today)' /\ Ordered(w, today)' /\ Later(db, w)'
      BY <1>t, <2>0, <2>3, <2>4
    <2>7. cursor' = FirstUnsettled(w)'
      BY <2>5 DEF FirstUnsettled, Plan, PlanId, ActivePlans
    <2> QED
      BY <1>i, <1>t, <2>0, <2>1, <2>5, <2>6, <2>7 DEF OInv
  <1>6. CASE EndSettle
    <2>0. /\ pc = "settle" /\ HasPlan(w) /\ ~MoreToSettle
          /\ w' = GetOrCreateDay(w, req.at)
          /\ pc' = IF req.op = "log" THEN "log" ELSE "commit"
          /\ db' = db /\ req' = req /\ today' = today /\ utc' = utc
      BY <1>6 DEF EndSettle
    <2>1. /\ req.at = today /\ processed <= cursor /\ cursor <= today
          /\ cursor = FirstUnsettled(w)
      BY <2>0 DEF OInv
    <2>2. /\ Judges(w, w', {}) /\ Clock(w') = Clock(w)
          /\ Counters(w') = Counters(w) /\ PlansKept(w, w')
          /\ w'.plans = w.plans
      BY <1>t, <2>0, <2>1, GetOrCreateDayFrame, GetOrCreateDaySound
    <2>3. Ordered(w', today) /\ ResolvedDays(w') = ResolvedDays(w)
      BY <1>t, <2>2, OrderedSame, SameStory DEF Ordered
    <2>4. Later(db, w')
      BY <1>t, <2>3 DEF Later
    <2>5. cursor = today
      BY <1>t, <2>0, <2>1, MaxDaysAssumption, MaxDayAssumption
         DEF MoreToSettle, SteadyLearner, Dates
    <2>6. FirstUnsettled(w') = FirstUnsettled(w)
      BY <2>2 DEF FirstUnsettled, Plan, PlanId, ActivePlans, Clock
    <2>7. FirstUnsettled(w)' = today'
      BY <2>0, <2>1, <2>5, <2>6 DEF FirstUnsettled, Plan, PlanId, ActivePlans
    <2>8. Ordered(db, today)' /\ Ordered(w, today)' /\ Later(db, w)'
      BY <1>t, <2>0, <2>3, <2>4
    <2> QED
      BY <1>i, <1>t, <2>0, <2>1, <2>7, <2>8 DEF OInv
  <1>7. CASE LogReplay
    <2>1. /\ pc = "log" /\ pc' = "commit" /\ w' = w /\ db' = db
          /\ req' = req /\ today' = today /\ utc' = utc
      BY <1>7 DEF LogReplay
    <2>2. Ordered(db, today)' /\ Ordered(w, today)' /\ Later(db, w)'
      BY <1>t, <2>1
    <2> QED
      BY <1>i, <1>t, <2>1, <2>2 DEF OInv
  <1>8. CASE LogRefused
    BY <1>8, <1>i, RollbackOInv DEF LogRefused
  <1>9. CASE LogUnits
    <2>0. /\ pc = "log" /\ HasPlan(w) /\ CanLog(w, req.at)
          /\ w' = LogStudy(w, req.at, req.units, req.key)
          /\ pc' = "commit" /\ db' = db /\ req' = req
          /\ today' = today /\ utc' = utc
      BY <1>9, <1>i DEF LogUnits, IInv, VInv
    <2>1. req.at = today /\ FirstUnsettled(w) = today
      BY <2>0 DEF OInv
    <2>2. Ordered(w', today)
      BY <1>t, <2>0, <2>1, LogStudyOrdered
    <2>3. ResolvedDays(w') \subseteq ResolvedDays(w) \cup {today}
      <3>1. Judges(w, w', {today})
        BY <1>t, <2>0, <2>1, LogStudyEffects
      <3> QED
        BY <3>1 DEF Judges, ResolvedDays
    <2>4. Later(db, w')
      BY <1>r, <1>t, <2>3, LaterByOne DEF Ordered
    <2>5. Ordered(db, today)' /\ Ordered(w, today)' /\ Later(db, w)'
      BY <1>t, <2>0, <2>2, <2>4
    <2> QED
      BY <1>i, <1>t, <2>0, <2>1, <2>5 DEF OInv
  <1>10. CASE BuyFreeze
    <2>1. PICK key \in RequestKeys :
             /\ CanPurchase(db)
             /\ Handle("purchase", key, today, Purchase(db, key))
      BY <1>10, KeysSent DEF BuyFreeze
    <2>2. Ordered(Purchase(db, key), today)
          /\ Judges(db, Purchase(db, key), {})
      BY <1>t, <2>1, PurchaseEffects, PurchaseOrdered
    <2> QED
      BY <1>i, <2>1, <2>2, HandleOInv
  <1>11. CASE NewPlan
    <2>1. PICK goal \in Goals, size \in TractateSizes,
               start \in Starts \cup {utc} :
             /\ ~HasPlan(db)
             /\ Handle("create", NoKey, today,
                       CreatePlan(db, goal, size, start, today))
      BY <1>11 DEF NewPlan
    <2> DEFINE account == CreatePlan(db, goal, size, today, today)
    <2>2. goal \in Nat \ {0} /\ size \in Nat \ {0} /\ start = today
      BY <1>s, GoalsAssumption, TractateSizesAssumption
    <2>3. Judges(db, account, {}) /\ Ordered(account, today)
      BY <1>t, <2>1, <2>2, CreatePlanEffects, CreatePlanOrdered
    <2>4. Handle("create", NoKey, today, account)
      BY <2>1, <2>2
    <2> HIDE DEF account
    <2> QED
      BY <1>i, <2>3, <2>4, HandleOInv
  <1>12. CASE UpdatePlan
    <2>1. PICK goal \in Goals, ordinal \in 0..(Plan(db).mishnayot_count - 1) :
             Handle("update", NoKey, today,
                    ChangeGoal(SetPosition(db, ordinal), goal, today))
      BY <1>12 DEF UpdatePlan
    <2> DEFINE placed == SetPosition(db, ordinal)
               account == ChangeGoal(placed, goal, today)
    <2>2. goal \in Nat \ {0} /\ ordinal \in Nat /\ HasPlan(db)
      <3>1. HasPlan(db)
        BY <1>12 DEF UpdatePlan
      <3>2. Plan(db).mishnayot_count \in Nat
        BY <1>t, <3>1, PlanExists DEF StudyPlan
      <3> QED
        BY <3>1, <3>2, GoalsAssumption
    <2>3. /\ placed \in AccountType /\ HasPlan(placed)
          /\ FreezesAccounted(placed) /\ Judges(db, placed, {})
          /\ Ordered(placed, today)
      BY <1>t, <2>2, SetPositionSound, SetPositionEffects, SetPositionOrdered
    <2>4. Handle("update", NoKey, today, account)
      BY <2>1
    <2> HIDE DEF placed
    <2>5. Judges(placed, account, {}) /\ Ordered(account, today)
      BY <1>t, <2>2, <2>3, ChangeGoalEffects, ChangeGoalOrdered
    <2> HIDE DEF account
    <2>6. Judges(db, account, {})
      <3>1. {} \cup {} = {}
        OBVIOUS
      <3> QED
        BY <2>3, <2>5, <3>1, JudgesBoth
    <2> QED
      BY <1>i, <2>4, <2>5, <2>6, HandleOInv
  <1>13. CASE SwitchPlan
    <2>0. PICK goal \in Goals, size \in TractateSizes :
             \E ordinal \in 0..(size - 1) :
                Handle("switch", NoKey, today,
                       SwitchTractate(db, goal, size, ordinal, utc, today))
      BY <1>13 DEF SwitchPlan
    <2>1. PICK ordinal \in 0..(size - 1) :
             Handle("switch", NoKey, today,
                    SwitchTractate(db, goal, size, ordinal, utc, today))
      BY <2>0
    <2> DEFINE account ==
                  SwitchTractate(db, goal, size, ordinal, today, today)
    <2>2. goal \in Nat \ {0} /\ size \in Nat \ {0} /\ ordinal \in Nat
      BY GoalsAssumption, TractateSizesAssumption
    <2>3. Judges(db, account, {}) /\ Ordered(account, today)
      BY <1>t, <2>2, SwitchTractateEffects, SwitchTractateOrdered
    <2>4. Handle("switch", NoKey, today, account)
      BY <1>t, <2>1
    <2> HIDE DEF account
    <2> QED
      BY <1>i, <2>3, <2>4, HandleOInv
  <1>14. CASE SetStudyWeek
    <2>1. PICK week \in Weeks :
             Handle("week", NoKey, today, Prefer(db, week, db.zone, today))
      BY <1>14 DEF SetStudyWeek
    <2> DEFINE account == Prefer(db, week, 0, today)
    <2>2. /\ week \in StudyWeeks /\ 0 \in ZoneKinds
          /\ Handle("week", NoKey, today, account)
      BY <1>t, <2>1, WeeksAssumption DEF Ordered, ZoneKinds
    <2>3. Judges(db, account, {}) /\ Ordered(account, today)
      BY <1>t, <2>2, PreferEffects, PreferOrdered
    <2> HIDE DEF account
    <2> QED
      BY <1>i, <2>2, <2>3, HandleOInv
  <1>15. CASE SetTimezone
    <2>0. PICK zone \in Zones :
             \E at \in LocalDates(utc, zone) :
                Handle("timezone", NoKey, at,
                       Prefer(db, db.study_week, zone, at))
      BY <1>15 DEF SetTimezone
    <2>1. PICK at \in LocalDates(utc, zone) :
             Handle("timezone", NoKey, at,
                    Prefer(db, db.study_week, zone, at))
      BY <2>0
    <2> DEFINE account == Prefer(db, db.study_week, 0, today)
    <2>2. zone = 0 /\ at = today
      BY <1>t, <2>0, <2>1 DEF SteadyLearner, LocalDates, Dates
    <2>3. /\ 0 \in ZoneKinds /\ db.study_week \in StudyWeeks
          /\ Handle("timezone", NoKey, today, account)
      BY <1>t, <2>1, <2>2 DEF AccountType, ZoneKinds
    <2>4. Judges(db, account, {}) /\ Ordered(account, today)
      BY <1>t, <2>3, PreferEffects, PreferOrdered
    <2> HIDE DEF account
    <2> QED
      BY <1>i, <2>3, <2>4, HandleOInv
  <1>16. CASE Commit
    <2>1. /\ db' = w /\ w' = w /\ pc' = "idle" /\ pc = "commit"
          /\ today' = req.at /\ utc' = utc
      BY <1>16 DEF Commit
    <2>2. today' = today
      BY <2>1 DEF OInv
    <2>3. Later(w, w)
      BY DEF Later
    <2>4. Ordered(db, today)' /\ Ordered(w, today)' /\ Later(db, w)'
      BY <1>t, <2>1, <2>2, <2>3
    <2> QED
      BY <1>i, <1>t, <2>1, <2>2, <2>4 DEF OInv
  <1>17. CASE Abort
    BY <1>17, <1>i, RollbackOInv DEF Abort
  <1>18. CASE Tick
    <2>1. /\ pc = "idle" /\ pc' = "idle" /\ w' = w /\ db' = db
          /\ today' \in {today, today + 1} \cap Dates
          /\ today' \in LocalDates(utc', db.zone)
      BY <1>18 DEF Tick
    <2>2. utc' = today'
      <3>1. db.zone = 0
        BY <1>t DEF Ordered
      <3>2. utc' \in Dates
        BY <1>i DEF VInv, IInv, TypeOK
      <3>3. today' = utc' \/ today' = utc' - 0
        BY <2>1, <3>1 DEF LocalDates
      <3> QED
        BY <3>2, <3>3 DEF Dates
    <2>3. today' \in Dates /\ today <= today'
      BY <1>t, <2>1 DEF Dates
    <2>4. Ordered(db, today') /\ Ordered(w, today')
      BY <1>t, <2>3, OrderedLater
    <2>5. Ordered(db, today)' /\ Ordered(w, today)' /\ Later(db, w)'
      BY <1>t, <2>1, <2>4
    <2> QED
      BY <1>i, <2>1, <2>2, <2>5 DEF OInv
  <1>19. CASE UNCHANGED vars
    <2>1. /\ pc' = pc /\ w' = w /\ db' = db /\ req' = req /\ today' = today
          /\ utc' = utc /\ cursor' = cursor /\ processed' = processed
      BY <1>19 DEF vars
    <2>2. Ordered(db, today)' /\ Ordered(w, today)' /\ Later(db, w)'
      BY <1>t, <2>1
    <2> QED
      BY <1>i, <2>1, <2>2
         DEF OInv, HasPlan, FirstUnsettled, Plan, PlanId, ActivePlans
  <1> QED
    BY <1>1, <1>2, <1>3, <1>4, <1>5, <1>6, <1>7, <1>8, <1>9, <1>10, <1>11,
       <1>12, <1>13, <1>14, <1>15, <1>16, <1>17, <1>18, <1>19 DEF Next

-----------------------------------------------------------------------------
\* Read in calendar order, the days tell the streak, whatever tractates were
\* taken up, finished and left, and whatever was rolled back (settlement.py:
\* the loop goes through the days in order; credit_day and _miss_day move the
\* counters).
THEOREM StreakIsCalendar ==
    ASSUME Zones = {0}, Starts = {}, MaxDay <= MaxDaysPerSettlement
    PROVE  Spec => []StreakFollowsCalendar
  <1>1. SteadyLearner
    BY DEF SteadyLearner
  <1>2. Init => OInv
    BY <1>1, InitOInv
  <1>3. OInv /\ [Next]_vars => OInv'
    BY <1>1, NextOInv
  <1>4. OInv => StreakFollowsCalendar
    BY StoryIsCalendar DEF OInv, Ordered, VInv, IInv, TypeOK
  <1> QED
    BY <1>2, <1>3, <1>4, PTL DEF Spec

\* A commit judges only days later than all that were judged before
\* (settlement.py: the cursor starts after the watermark; study.py: today is
\* credited after settlement has come to it).
THEOREM OrderIsKept ==
    ASSUME Zones = {0}, Starts = {}, MaxDay <= MaxDaysPerSettlement
    PROVE  Spec => JudgedInOrder
  <1> DEFINE A == \A d \in NewlyResolved, e \in ResolvedDays(db) : e < d
  <1>1. SteadyLearner
    BY DEF SteadyLearner
  <1>2. Init => OInv
    BY <1>1, InitOInv
  <1>3. OInv /\ [Next]_vars => OInv'
    BY <1>1, NextOInv
  <1>4. OInv /\ [Next]_vars => [A]_vars
    <2> SUFFICES ASSUME OInv, [Next]_vars PROVE A
      OBVIOUS
    <2>1. db' = db \/ db' = w
      BY OnlyCommits DEF OInv
    <2>2. Later(db, db')
      BY <2>1 DEF OInv, Later
    <2> QED
      BY <2>2 DEF Later, NewlyResolved, ResolvedDays, Resolved
  <1> QED
    BY <1>2, <1>3, <1>4, PTL DEF Spec, JudgedInOrder

-----------------------------------------------------------------------------
\* A plan of the account has begun by date d.
Begun(a, d) == \E i \in DOMAIN a.plans : a.plans[i].start_date <= d

\* For a learner with one plan, the days from its start to the watermark are
\* judged, and there is no row and no watermark before that start.
Closed(a) ==
    /\ \A i, j \in DOMAIN a.plans : i = j
    /\ \A d \in Dates : HasDay(a, d) => Begun(a, d)
    /\ a.last_settled_date # NoDate => Begun(a, a.last_settled_date)
    /\ \A d \in Dates :
          Begun(a, d) /\ d <= a.last_settled_date => Resolved(a, d)

\* An operation that moves no watermark and opens only days the plan covers.
LEMMA ClosedSame ==
    ASSUME NEW a, NEW b, Closed(a), Clock(b) = Clock(a), PlansKept(a, b),
           ResolvedDays(a) \subseteq ResolvedDays(b),
           \A d \in Dates : HasDay(b, d) => HasDay(a, d) \/ Begun(a, d)
    PROVE  Closed(b)
  <1>1. \A d : Begun(b, d) <=> Begun(a, d)
    BY DEF PlansKept, Begun
  <1>2. b.last_settled_date = a.last_settled_date
    BY DEF Clock
  <1>3. \A d \in Dates : Resolved(a, d) => Resolved(b, d)
    BY DEF ResolvedDays
  <1>4. \A i, j \in DOMAIN b.plans : i = j
    BY DEF Closed, PlansKept
  <1> QED
    BY <1>1, <1>2, <1>3, <1>4 DEF Closed

LEMMA KeepsClosed ==
    ASSUME NEW a, NEW b, Closed(a), Keeps(a, b)
    PROVE  Closed(b)
  <1>1. /\ ResolvedDays(a) \subseteq ResolvedDays(b)
        /\ \A d \in Dates : HasDay(b, d) => HasDay(a, d)
    BY DEF Keeps, ResolvedDays, Resolved, HasDay
  <1> QED
    BY <1>1, ClosedSame DEF Keeps

\* Settlement starts on a day the plan covers.
LEMMA FirstUnsettledBegun ==
    ASSUME NEW a \in AccountType, HasPlan(a), Closed(a)
    PROVE  Begun(a, FirstUnsettled(a))
  <1>1. PlanId(a) \in DOMAIN a.plans /\ Plan(a) \in StudyPlan
    BY PlanExists
  <1>2. CASE a.last_settled_date = NoDate
    BY <1>1, <1>2 DEF FirstUnsettled, Begun, Plan, StudyPlan, Dates
  <1>3. CASE a.last_settled_date # NoDate
    <2>1. PICK i \in DOMAIN a.plans :
             a.plans[i].start_date <= a.last_settled_date
      BY <1>3 DEF Closed, Begun
    <2>2. a.plans[i] \in StudyPlan
      BY <2>1 DEF AccountType
    <2>3. a.plans[i].start_date \in Nat /\ a.last_settled_date \in Nat
      BY <1>3, <2>2 DEF AccountType, StudyPlan, Dates
    <2>4. a.plans[i].start_date <= a.last_settled_date + 1
      BY <2>1, <2>3
    <2> QED
      BY <1>3, <2>4 DEF FirstUnsettled, Begun
  <1> QED
    BY <1>2, <1>3

\* Opening a day the plan covers, or logging on it.
LEMMA GetOrCreateDayClosed ==
    ASSUME NEW a \in AccountType, NEW d \in Dates, Sound(a), HasPlan(a),
           FreezesAccounted(a), Closed(a), Begun(a, d)
    PROVE  Closed(GetOrCreateDay(a, d))
  <1> DEFINE b == GetOrCreateDay(a, d)
  <1>1. /\ Judges(a, b, {}) /\ Clock(b) = Clock(a) /\ PlansKept(a, b)
        /\ \A e \in Dates \ {d} : b.days[e] = a.days[e]
    BY GetOrCreateDayFrame, GetOrCreateDayEffects
  <1> HIDE DEF b
  <1>2. ResolvedDays(a) \subseteq ResolvedDays(b)
    BY <1>1, StillResolved
  <1>3. \A e \in Dates : HasDay(b, e) => HasDay(a, e) \/ Begun(a, e)
    BY <1>1 DEF HasDay
  <1> QED
    BY <1>1, <1>2, <1>3, ClosedSame DEF b

LEMMA LogStudyClosed ==
    ASSUME NEW a \in AccountType, NEW t \in Dates, NEW units \in Nat,
           NEW key \in RequestKeys, Sound(a), HasPlan(a), CanLog(a, t),
           FreezesAccounted(a), Ordered(a, t), FirstUnsettled(a) = t,
           Closed(a)
    PROVE  Closed(LogStudy(a, t, units, key))
  <1> DEFINE b == LogStudy(a, t, units, key)
  <1>1. /\ Judges(a, b, {t}) /\ Clock(b) = Clock(a) /\ PlansKept(a, b)
        /\ \A d \in Dates \ {t} : b.days[d].status = a.days[d].status
    BY LogStudyEffects, LogStudyOrdered
  <1> HIDE DEF b
  <1>2. ResolvedDays(a) \subseteq ResolvedDays(b)
    BY <1>1, StillResolved
  <1>3. \A d \in Dates : HasDay(b, d) => HasDay(a, d) \/ Begun(a, d)
    BY <1>1, FirstUnsettledBegun DEF HasDay
  <1> QED
    BY <1>1, <1>2, <1>3, ClosedSame DEF b

\* An iteration of the settlement closes the day the watermark moves to, which
\* is the next one.
LEMMA SettleDayClosed ==
    ASSUME NEW a \in AccountType, NEW d \in Dates, NEW t \in Dates, Sound(a),
           HasPlan(a), FreezesAccounted(a), Ordered(a, t),
           d = FirstUnsettled(a), d < t, Closed(a)
    PROVE  Closed(SettleDay(a, d))
  <1> DEFINE b == SettleDay(a, d)
  <1>1. /\ b.last_settled_date = d /\ b.plans = a.plans
        /\ ResolvedDays(b) = ResolvedDays(a) \cup {d}
        /\ \A e \in Dates \ {d} : b.days[e] = a.days[e]
    BY SettleDayOrdered, SettleDayEffects, SettleDaySound
  <1> HIDE DEF b
  <1>2. \A e : Begun(b, e) <=> Begun(a, e)
    BY <1>1 DEF Begun
  <1>3. Begun(a, d)
    BY FirstUnsettledBegun
  <1>4. ASSUME NEW e \in Dates, Begun(a, e), e <= d, e # d
        PROVE  Resolved(a, e)
    <2>1. e \in Nat /\ d \in Nat /\ e < d
      BY <1>4 DEF Dates
    <2>2. CASE a.last_settled_date = NoDate
      <3>1. PICK i \in DOMAIN a.plans : a.plans[i].start_date <= e
        BY <1>4 DEF Begun
      <3>2. PlanId(a) = i
        BY PlanExists DEF Closed
      <3>3. d = a.plans[i].start_date
        BY <2>2, <3>2 DEF FirstUnsettled, Plan
      <3> QED
        BY <2>1, <3>1, <3>3
    <2>3. CASE a.last_settled_date # NoDate
      <3>1. d = a.last_settled_date + 1 /\ a.last_settled_date \in Nat
        BY <2>3 DEF FirstUnsettled, AccountType, Dates
      <3>2. e <= a.last_settled_date
        BY <2>1, <3>1
      <3> QED
        BY <1>4, <3>2 DEF Closed
    <2> QED
      BY <2>2, <2>3
  <1>5. \A e \in Dates : Begun(b, e) /\ e <= d => Resolved(b, e)
    BY <1>1, <1>2, <1>4 DEF ResolvedDays
  <1>6. \A e \in Dates : HasDay(b, e) => Begun(b, e)
    BY <1>1, <1>2, <1>3 DEF Closed, HasDay
  <1> QED
    BY <1>1, <1>2, <1>3, <1>5, <1>6 DEF Closed, b

\* The first plan of a learner finds no rows and no watermark.
LEMMA FirstPlanClosed ==
    ASSUME NEW a \in AccountType, NEW goal \in Nat \ {0},
           NEW size \in Nat \ {0}, NEW t \in Dates, NEW created \in Dates,
           a.plans = <<>>, Closed(a)
    PROVE  Closed(CreatePlan(a, goal, size, t, created))
  <1> DEFINE plan == [daily_goal |-> goal, start_date |-> t,
                      created |-> created, current_ordinal |-> 0,
                      mishnayot_count |-> size, status |-> "active"]
             b == CreatePlan(a, goal, size, t, created)
  <1>1. \A d : ~Begun(a, d)
    BY DEF Begun
  <1>2. a.last_settled_date = NoDate /\ \A d \in Dates : ~HasDay(a, d)
    BY <1>1 DEF Closed
  <1>3. b.plans = <<plan>> /\ b.days = a.days
        /\ b.last_settled_date = NoDate
    BY <1>2 DEF CreatePlan, AccountType
  <1> HIDE DEF b, plan
  <1>4. \A i, j \in DOMAIN b.plans : i = j
    BY <1>3
  <1>5. \A d \in Dates : ~HasDay(b, d)
    BY <1>2, <1>3 DEF HasDay
  <1>6. \A d \in Dates : ~(d <= b.last_settled_date)
    BY <1>3 DEF NoDate, Dates
  <1> QED
    BY <1>3, <1>4, <1>5, <1>6 DEF Closed, b

LEMMA FirstSwitchClosed ==
    ASSUME NEW a \in AccountType, NEW goal \in Nat \ {0},
           NEW size \in Nat \ {0}, NEW ordinal \in Nat, NEW t \in Dates,
           NEW created \in Dates, Sound(a), FreezesAccounted(a),
           Ordered(a, t), a.plans = <<>>, Closed(a)
    PROVE  Closed(SwitchTractate(a, goal, size, ordinal, t, created))
  <1> DEFINE fresh == CreatePlan(a, goal, size, t, created)
             placed == SetPosition(fresh, ordinal)
             b == ChangeGoal(placed, goal, t)
  <1>0. /\ ~HasPlan(a)
        /\ SwitchTractate(a, goal, size, ordinal, t, created) = b
    BY DEF SwitchTractate, Abandon, HasPlan, ActivePlans
  <1> HIDE DEF b
  <1>1. /\ fresh \in AccountType /\ Sound(fresh) /\ HasPlan(fresh)
        /\ FreezesAccounted(fresh) /\ Ordered(fresh, t) /\ Closed(fresh)
    BY <1>0, CreatePlanSound, CreatePlanEffects, CreatePlanOrdered,
       FirstPlanClosed
  <1> HIDE DEF fresh
  <1>2. /\ placed \in AccountType /\ Sound(placed) /\ HasPlan(placed)
        /\ FreezesAccounted(placed) /\ Ordered(placed, t)
        /\ Keeps(fresh, placed)
    BY <1>1, SetPositionSound, SetPositionEffects, SetPositionOrdered
  <1> HIDE DEF placed
  <1>3. Closed(placed) /\ Keeps(placed, b)
    BY <1>1, <1>2, KeepsClosed, ChangeGoalOrdered DEF b
  <1> QED
    BY <1>0, <1>3, KeepsClosed

-----------------------------------------------------------------------------
CInv == OInv /\ Closed(db) /\ Closed(w)

LEMMA InitCInv ==
    ASSUME SteadyLearner
    PROVE  Init => CInv
  <1> SUFFICES ASSUME Init PROVE CInv
    OBVIOUS
  <1>1. PICK week \in Weeks, zone \in Zones : db = NewAccount(week, zone)
    BY DEF Init
  <1>2. /\ db.plans = <<>> /\ db.last_settled_date = NoDate
        /\ \A d \in Dates : db.days[d].status = "none"
    BY <1>1 DEF NewAccount, NoDay
  <1>3. Closed(db)
    BY <1>2 DEF Closed, Begun, HasDay
  <1> QED
    BY <1>3, InitOInv DEF CInv, Init

\* Every step keeps the days of a learner's only plan closed.
LEMMA NextCInv ==
    ASSUME SteadyLearner, MaxPlans = 1
    PROVE  CInv /\ [Next]_vars => CInv'
  <1> SUFFICES ASSUME CInv, [Next]_vars PROVE CInv'
    OBVIOUS
  <1>i. OInv /\ OInv' /\ VInv /\ IInv
    BY NextOInv DEF CInv, OInv, VInv
  <1>t. /\ db \in AccountType /\ w \in AccountType /\ Sound(db) /\ Sound(w)
        /\ today \in Dates /\ utc = today /\ cursor \in Nat
        /\ req.key \in RequestKeys /\ req.units \in Nat
        /\ NoKey \in RequestKeys
        /\ FreezesAccounted(db) /\ FreezesAccounted(w)
        /\ Ordered(db, today) /\ Ordered(w, today)
        /\ Closed(db) /\ Closed(w)
    BY <1>i, BoundsAssumption
       DEF CInv, OInv, VInv, IInv, TypeOK, Request, RequestKeys
  <1>s. \A x \in Starts \cup {utc} : x = today
    BY <1>t DEF SteadyLearner
  <1>p. Len(db.plans) < 1 => db.plans = <<>>
    <2>1. db.plans \in Seq(StudyPlan)
      BY <1>t DEF AccountType
    <2> QED
      BY <2>1, EmptySeq
  <1>d. db' = db \/ db' = w
    BY <1>i, OnlyCommits
  <1>h. ASSUME NEW op, NEW key, NEW at, NEW account, Closed(account),
               Handle(op, key, at, account)
        PROVE  Closed(w')
    BY <1>h DEF Handle
  <1>k. ASSUME NEW op, NEW key, NEW at, NEW account, Keeps(db, account),
               Handle(op, key, at, account)
        PROVE  Closed(w')
    BY <1>t, <1>k, KeepsClosed DEF Handle
  <1>q. (w' = w \/ w' = db) => Closed(w')
    BY <1>t
  <1>1. ASSUME BeginLog \/ BeginRead \/ BeginSweep PROVE Closed(w')
    BY <1>1, <1>q DEF BeginLog, BeginRead, BeginSweep, BeginSettle
  <1>2. ASSUME NoActivePlan \/ LogRefused \/ Abort PROVE Closed(w')
    BY <1>2, <1>q DEF NoActivePlan, LogRefused, Abort, Rollback
  <1>3. ASSUME LogReplay \/ Commit \/ Tick \/ UNCHANGED vars PROVE Closed(w')
    BY <1>3, <1>q DEF LogReplay, Commit, Tick, vars
  <1>4. ASSUME SettleNext PROVE Closed(w')
    <2>1. /\ pc = "settle" /\ HasPlan(w) /\ cursor < req.at
          /\ w' = SettleDay(w, cursor)
      BY <1>4 DEF SettleNext, MoreToSettle
    <2>2. cursor = FirstUnsettled(w) /\ cursor < today
      BY <1>i, <2>1 DEF OInv
    <2>3. cursor \in Dates
      BY <1>t, <2>2, MaxDayAssumption DEF Dates
    <2> QED
      BY <1>t, <2>1, <2>2, <2>3, SettleDayClosed
  <1>5. ASSUME EndSettle PROVE Closed(w')
    <2>1. /\ pc = "settle" /\ HasPlan(w) /\ req.at = today
          /\ w' = GetOrCreateDay(w, req.at)
      BY <1>5, <1>i DEF EndSettle, OInv
    <2>2. Begun(w, today)
      BY <1>t, <2>1, PlanExists DEF Begun, Ordered
    <2> QED
      BY <1>t, <2>1, <2>2, GetOrCreateDayClosed
  <1>6. ASSUME LogUnits PROVE Closed(w')
    <2>1. /\ pc = "log" /\ CanLog(w, req.at) /\ req.at = today
          /\ w' = LogStudy(w, req.at, req.units, req.key)
          /\ FirstUnsettled(w) = today /\ HasPlan(w)
      BY <1>6, <1>i DEF LogUnits, OInv, IInv, VInv
    <2> QED
      BY <1>t, <2>1, LogStudyClosed
  <1>7. ASSUME BuyFreeze PROVE Closed(w')
    <2>1. PICK key \in RequestKeys :
             /\ CanPurchase(db)
             /\ Handle("purchase", key, today, Purchase(db, key))
      BY <1>7, KeysSent DEF BuyFreeze
    <2>2. Keeps(db, Purchase(db, key))
      BY <1>t, <2>1, PurchaseOrdered
    <2> QED
      BY <1>k, <2>1, <2>2
  <1>8. ASSUME NewPlan PROVE Closed(w')
    <2>1. PICK goal \in Goals, size \in TractateSizes,
               start \in Starts \cup {utc} :
             /\ Len(db.plans) < 1
             /\ Handle("create", NoKey, today,
                       CreatePlan(db, goal, size, start, today))
      BY <1>8 DEF NewPlan
    <2>2. goal \in Nat \ {0} /\ size \in Nat \ {0} /\ start = today
      BY <1>s, GoalsAssumption, TractateSizesAssumption
    <2>3. Closed(CreatePlan(db, goal, size, start, today))
      BY <1>p, <1>t, <2>1, <2>2, FirstPlanClosed
    <2> QED
      BY <1>h, <2>1, <2>3
  <1>9. ASSUME UpdatePlan PROVE Closed(w')
    <2>1. PICK goal \in Goals, ordinal \in 0..(Plan(db).mishnayot_count - 1) :
             Handle("update", NoKey, today,
                    ChangeGoal(SetPosition(db, ordinal), goal, today))
      BY <1>9 DEF UpdatePlan
    <2> DEFINE placed == SetPosition(db, ordinal)
    <2>2. goal \in Nat \ {0} /\ ordinal \in Nat /\ HasPlan(db)
      <3>1. HasPlan(db)
        BY <1>9 DEF UpdatePlan
      <3>2. Plan(db).mishnayot_count \in Nat
        BY <1>t, <3>1, PlanExists DEF StudyPlan
      <3> QED
        BY <3>1, <3>2, GoalsAssumption
    <2>3. /\ placed \in AccountType /\ HasPlan(placed)
          /\ FreezesAccounted(placed) /\ Ordered(placed, today)
          /\ Keeps(db, placed)
      BY <1>t, <2>2, SetPositionSound, SetPositionEffects, SetPositionOrdered
    <2> HIDE DEF placed
    <2>4. Keeps(placed, ChangeGoal(placed, goal, today))
      BY <1>t, <2>2, <2>3, ChangeGoalOrdered
    <2>5. Keeps(db, ChangeGoal(placed, goal, today))
      BY <2>3, <2>4, KeepsBoth
    <2> QED
      BY <1>k, <2>1, <2>5 DEF placed
  <1>10. ASSUME SwitchPlan PROVE Closed(w')
    <2>0. PICK goal \in Goals, size \in TractateSizes :
             \E ordinal \in 0..(size - 1) :
                /\ Len(db.plans) < 1
                /\ Handle("switch", NoKey, today,
                          SwitchTractate(db, goal, size, ordinal, utc, today))
      BY <1>10 DEF SwitchPlan
    <2>1. PICK ordinal \in 0..(size - 1) :
             /\ Len(db.plans) < 1
             /\ Handle("switch", NoKey, today,
                       SwitchTractate(db, goal, size, ordinal, utc, today))
      BY <2>0
    <2>2. goal \in Nat \ {0} /\ size \in Nat \ {0} /\ ordinal \in Nat
      BY GoalsAssumption, TractateSizesAssumption
    <2>3. Closed(SwitchTractate(db, goal, size, ordinal, utc, today))
      BY <1>p, <1>t, <2>1, <2>2, FirstSwitchClosed
    <2> QED
      BY <1>h, <2>1, <2>3
  <1>11. ASSUME SetStudyWeek PROVE Closed(w')
    <2>1. PICK week \in Weeks :
             Handle("week", NoKey, today, Prefer(db, week, db.zone, today))
      BY <1>11 DEF SetStudyWeek
    <2>2. week \in StudyWeeks /\ db.zone = 0
      BY <1>t, WeeksAssumption DEF Ordered
    <2>3. Keeps(db, Prefer(db, week, db.zone, today))
      BY <1>t, <2>2, PreferOrdered
    <2> QED
      BY <1>k, <2>1, <2>3
  <1>12. ASSUME SetTimezone PROVE Closed(w')
    <2>0. PICK zone \in Zones :
             \E at \in LocalDates(utc, zone) :
                Handle("timezone", NoKey, at,
                       Prefer(db, db.study_week, zone, at))
      BY <1>12 DEF SetTimezone
    <2>1. PICK at \in LocalDates(utc, zone) :
             Handle("timezone", NoKey, at,
                    Prefer(db, db.study_week, zone, at))
      BY <2>0
    <2>2. zone = 0 /\ at \in Dates /\ db.study_week \in StudyWeeks
      BY <1>t, <2>0, <2>1 DEF SteadyLearner, LocalDates, AccountType
    <2>3. Keeps(db, Prefer(db, db.study_week, zone, at))
      BY <1>t, <2>2, PreferOrdered
    <2> QED
      BY <1>k, <2>1, <2>3
  <1>13. Closed(w')
    BY <1>1, <1>2, <1>3, <1>4, <1>5, <1>6, <1>7, <1>8, <1>9, <1>10, <1>11,
       <1>12 DEF Next
  <1>14. Closed(db')
    BY <1>d, <1>t
  <1>15. Closed(db)' /\ Closed(w)'
    BY <1>13, <1>14
  <1> QED
    BY <1>i, <1>15 DEF CInv

\* From the first day a learner ever had to the watermark every day is judged,
\* as long as the learner has one plan (settlement.py: the loop goes from the
\* first day that is not settled and leaves none out; it starts with the first
\* day of the present plan, which a second plan moves past days that are open).
THEOREM ClosedDaysAreFinal ==
    ASSUME Zones = {0}, Starts = {}, MaxDay <= MaxDaysPerSettlement,
           MaxPlans = 1
    PROVE  Spec => []ClosedDaysFinalised
  <1>1. SteadyLearner
    BY DEF SteadyLearner
  <1>2. Init => CInv
    BY <1>1, InitCInv
  <1>3. CInv /\ [Next]_vars => CInv'
    BY <1>1, NextCInv
  <1>4. CInv => ClosedDaysFinalised
    <2> SUFFICES ASSUME CInv, NEW d \in Dates, NEW e \in Dates,
                        d <= db.last_settled_date, e <= d, HasDay(db, e)
                 PROVE  Resolved(db, d)
      BY DEF ClosedDaysFinalised
    <2>1. PICK i \in DOMAIN db.plans : db.plans[i].start_date <= e
      BY DEF CInv, Closed, Begun
    <2>2. db.plans[i] \in StudyPlan
      <3>1. db \in AccountType
        BY DEF CInv, OInv, VInv, IInv, TypeOK
      <3>2. db.plans \in Seq(StudyPlan)
        BY <3>1 DEF AccountType
      <3> QED
        BY <2>1, <3>2
    <2>3. db.plans[i].start_date <= d
      BY <2>1, <2>2 DEF StudyPlan, Dates
    <2> QED
      BY <2>3 DEF CInv, Closed, Begun
  <1> QED
    BY <1>2, <1>3, <1>4, PTL DEF Spec

-----------------------------------------------------------------------------
\* What the portion on screen is computed from, in a and in a later account b:
\* the plan, its goal, the quota of the row, and the cursor less what was
\* logged today.
EventsUnder(a, d) ==
    {i \in DOMAIN a.events : /\ a.events[i].plan_id = PlanId(a)
                             /\ a.events[i].credited_local_date = d}

SamePortion(a, b, d) ==
    /\ HasDay(a, d) =>
          /\ HasDay(b, d)
          /\ b.days[d].required_units = a.days[d].required_units
          /\ b.days[d].plan_id = a.days[d].plan_id
    /\ HasPlan(b) =>
          /\ HasPlan(a) /\ PlanId(b) = PlanId(a)
          /\ Plan(b).daily_goal = Plan(a).daily_goal
          /\ Plan(b).current_ordinal - SumOf(Units(b), EventsUnder(b, d))
                = Plan(a).current_ordinal - SumOf(Units(a), EventsUnder(a, d))

LEMMA SamePortionBoth ==
    ASSUME NEW a, NEW b, NEW c, NEW d, SamePortion(a, b, d),
           SamePortion(b, c, d)
    PROVE  SamePortion(a, c, d)
  BY DEF SamePortion

\* An account with the same record shows the same portion.
LEMMA RecordPortion ==
    ASSUME NEW a, NEW b, NEW d, Record(b) = Record(a),
           HasDay(a, d) => HasDay(b, d) /\ Quota(b.days[d]) = Quota(a.days[d])
    PROVE  SamePortion(a, b, d)
  <1>1. b.events = a.events /\ b.plans = a.plans /\ Units(b) = Units(a)
    BY DEF Record, Units
  <1>2. (HasPlan(b) <=> HasPlan(a)) /\ PlanId(b) = PlanId(a)
        /\ Plan(b) = Plan(a)
    BY <1>1, SamePlan
  <1>3. EventsUnder(b, d) = EventsUnder(a, d)
    BY <1>1, <1>2 DEF EventsUnder
  <1> QED
    BY <1>1, <1>2, <1>3 DEF SamePortion, Quota

\* Ticking off mishnayot moves the cursor by what it adds to the day.
LEMMA LogStudyPortion ==
    ASSUME NEW a \in AccountType, NEW d \in Dates, NEW units \in Nat,
           NEW key \in RequestKeys, Sound(a), HasPlan(a), Recorded(a),
           HasDay(a, d), CanLog(a, d)
    PROVE  SamePortion(a, LogStudy(a, d, units, key), d)
  <1> DEFINE left == Plan(a).mishnayot_count - Plan(a).current_ordinal
             n == IF units < left THEN units ELSE left
             finished == units >= left
             i == PlanId(a)
             b == LogStudy(a, d, units, key)
             last == Len(a.events) + 1
             event == [key |-> key, plan_id |-> i, credited_local_date |-> d,
                       units |-> n, from_ordinal |-> Plan(a).current_ordinal]
  <1>1. /\ Plan(a).mishnayot_count \in Nat /\ Plan(a).current_ordinal \in Nat
        /\ n \in Nat
    BY PlanExists DEF CanLog, StudyPlan
  <1>2. Logs(a, b, d, n, key, finished)
    BY LogStudyLogs
  <1>3. b.events = Append(a.events, event) /\ event.plan_id = i
        /\ event.credited_local_date = d /\ event.units = n
    BY <1>2 DEF Logs
  <1> HIDE DEF n, finished, b, event, i
  <1>4. /\ HasDay(b, d)
        /\ b.days[d].required_units = a.days[d].required_units
        /\ b.days[d].plan_id = a.days[d].plan_id
    BY <1>2 DEF Logs, HasDay
  <1>5. /\ i \in DOMAIN a.plans /\ Plan(a) = a.plans[i]
        /\ a.plans[i].status = "active" /\ \A j \in ActivePlans(a) : j = i
    BY PlanExists DEF Plan, i, ActivePlans, Recorded, OneActive
  <1>6. /\ DOMAIN b.plans = DOMAIN a.plans
        /\ \A j \in DOMAIN a.plans \ {i} : b.plans[j] = a.plans[j]
        /\ b.plans[i].current_ordinal = Plan(a).current_ordinal + n
        /\ b.plans[i].daily_goal = Plan(a).daily_goal
        /\ b.plans[i].status = IF finished THEN "completed" ELSE "active"
    BY <1>2 DEF Logs, i
  <1>7. ASSUME HasPlan(b)
        PROVE  /\ PlanId(b) = i /\ Plan(b) = b.plans[i]
    <2>1. ActivePlans(b) = {i} /\ ActivePlans(a) = {i}
      BY <1>5, <1>6, <1>7 DEF HasPlan, ActivePlans
    <2> QED
      BY <2>1 DEF PlanId, Plan
  <1>8. EventAdded(a, b, event, last)
    BY <1>1, <1>3, EventAppended
  <1>9. ASSUME HasPlan(b)
        PROVE  SumOf(Units(b), EventsUnder(b, d))
                  = n + SumOf(Units(a), EventsUnder(a, d))
    <2>1. EventsUnder(b, d) = EventsUnder(a, d) \cup {last}
      BY <1>3, <1>7, <1>8, <1>9 DEF EventsUnder, EventAdded, i
    <2>2. EventsUnder(a, d) \in SUBSET DOMAIN a.events
      BY DEF EventsUnder
    <2> QED
      BY <1>3, <1>8, <2>1, <2>2 DEF EventAdded
  <1>10. SumOf(Units(a), EventsUnder(a, d)) \in Int
    BY UnitsAreSums DEF EventsUnder
  <1>11. HasPlan(b) =>
            /\ PlanId(b) = PlanId(a)
            /\ Plan(b).daily_goal = Plan(a).daily_goal
            /\ Plan(b).current_ordinal - SumOf(Units(b), EventsUnder(b, d))
                = Plan(a).current_ordinal - SumOf(Units(a), EventsUnder(a, d))
    BY <1>1, <1>6, <1>7, <1>9, <1>10 DEF i
  <1> QED
    BY <1>4, <1>11 DEF SamePortion, b

\* New preferences change the zone, the week and an open row at most.
LEMMA PreferRecord ==
    ASSUME NEW a \in AccountType, NEW week \in StudyWeeks,
           NEW zone \in ZoneKinds, NEW at \in Dates, Recorded(a)
    PROVE  Recorded(Prefer(a, week, zone, at))
  <1> DEFINE c == [a EXCEPT !.study_week = week, !.zone = zone]
             goal == Plan(a).daily_goal
  <1>1. /\ c \in AccountType /\ c.days = a.days /\ c.plans = a.plans
        /\ Record(c) = Record(a)
    BY DEF AccountType, Record
  <1>2. Prefer(a, week, zone, at) =
           IF HasPlan(a) THEN ChangeGoal(c, goal, at) ELSE c
    BY DEF Prefer
  <1> HIDE DEF c
  <1>3. Recorded(c)
    BY <1>1, SameRecordRecorded DEF SameRecord
  <1>4. CASE HasPlan(a)
    <2>1. HasPlan(c) /\ goal \in Nat \ {0}
      BY <1>1, <1>4, SamePlan, PlanExists DEF StudyPlan
    <2> HIDE DEF goal
    <2> QED
      BY <1>1, <1>2, <1>3, <1>4, <2>1, ChangeGoalRecord
  <1> QED
    BY <1>2, <1>3, <1>4

-----------------------------------------------------------------------------
\* Both copies of the account are recorded; a log request writes to a row that
\* is there, and its copy shows the portion that the committed account shows.
RInv ==
    /\ VInv
    /\ Recorded(db)
    /\ Recorded(w)
    /\ pc = "log" => HasDay(w, req.at)
    /\ pc # "idle" /\ req.op = "log" =>
          req.at = today /\ SamePortion(db, w, today)

LEMMA InitRInv == Init => RInv
  <1> SUFFICES ASSUME Init PROVE RInv
    OBVIOUS
  <1>1. VInv
    BY InitVInv
  <1>2. Recorded(db) /\ w = db /\ pc = "idle"
    BY NewAccountRecord DEF Init
  <1> QED
    BY <1>1, <1>2 DEF RInv

LEMMA BeginSettleRInv ==
    ASSUME NEW op, NEW units, NEW key, RInv, VInv',
           BeginSettle(op, units, key)
    PROVE  RInv'
  <1>1. /\ w = db /\ db' = db /\ w' = w /\ pc' = "settle"
        /\ req'.at = today /\ today' = today
    BY DEF RInv, VInv, BeginSettle
  <1>2. SamePortion(db, db, today)
    BY RecordPortion
  <1> QED
    BY <1>1, <1>2 DEF RInv

LEMMA RollbackRInv ==
    ASSUME RInv, VInv', Rollback
    PROVE  RInv'
  BY DEF RInv, Rollback

LEMMA HandleRInv ==
    ASSUME NEW op, op # "log", NEW key, NEW at, NEW account,
           Recorded(account), RInv, VInv', Handle(op, key, at, account)
    PROVE  RInv'
  BY DEF RInv, Handle

\* Every step of every request keeps the invariant.
LEMMA NextRInv == RInv /\ [Next]_vars => RInv'
  <1> SUFFICES ASSUME RInv, [Next]_vars PROVE RInv'
    OBVIOUS
  <1>i. VInv /\ VInv'
    BY NextVInv DEF RInv
  <1>t. /\ db \in AccountType /\ w \in AccountType /\ Sound(db) /\ Sound(w)
        /\ today \in Dates /\ utc \in Dates /\ cursor \in Nat
        /\ req.at \in Dates /\ req.key \in RequestKeys
        /\ req.units \in Nat /\ NoKey \in RequestKeys
        /\ Recorded(db) /\ Recorded(w)
    BY <1>i, BoundsAssumption
       DEF RInv, VInv, IInv, TypeOK, Request, RequestKeys
  <1>1. CASE BeginLog
    BY <1>1, <1>i, BeginSettleRInv, KeysSent DEF BeginLog
  <1>2. CASE BeginRead
    BY <1>2, <1>i, BeginSettleRInv DEF BeginRead
  <1>3. CASE BeginSweep
    BY <1>3, <1>i, BeginSettleRInv DEF BeginSweep
  <1>4. CASE NoActivePlan
    BY <1>4, <1>i, RollbackRInv DEF NoActivePlan
  <1>5. CASE SettleNext
    <2>0. /\ pc = "settle" /\ HasPlan(w) /\ cursor < req.at
          /\ w' = SettleDay(w, cursor)
          /\ db' = db /\ pc' = pc /\ req' = req /\ today' = today
      BY <1>5 DEF SettleNext, MoreToSettle
    <2>1. cursor \in Dates
      BY <1>t, <2>0, MaxDayAssumption DEF Dates
    <2>2. /\ Recorded(w') /\ Record(w') = Record(w)
          /\ \A e \in Dates : HasDay(w, e) =>
                HasDay(w', e) /\ Quota(w'.days[e]) = Quota(w.days[e])
      BY <1>t, <2>0, <2>1, SettleDayRecord
    <2>3. SamePortion(w, w', today)
      BY <1>t, <2>2, RecordPortion
    <2>4. SamePortion(db, w, today) => SamePortion(db, w', today)
      BY <2>3, SamePortionBoth
    <2> QED
      BY <1>i, <1>t, <2>0, <2>2, <2>4 DEF RInv
  <1>6. CASE EndSettle
    <2>0. /\ pc = "settle" /\ HasPlan(w)
          /\ w' = GetOrCreateDay(w, req.at)
          /\ db' = db /\ req' = req /\ today' = today
      BY <1>6 DEF EndSettle
    <2>1. /\ Recorded(w') /\ HasDay(w', req.at) /\ Record(w') = Record(w)
          /\ HasDay(w, req.at) => w' = w
          /\ \A e \in Dates \ {req.at} : w'.days[e] = w.days[e]
      BY <1>t, <2>0, GetOrCreateDayRecord
    <2>2. HasDay(w, today) =>
             HasDay(w', today) /\ Quota(w'.days[today]) = Quota(w.days[today])
      BY <1>t, <2>1 DEF HasDay
    <2>3. SamePortion(w, w', today)
      BY <2>1, <2>2, RecordPortion
    <2>4. SamePortion(db, w, today) => SamePortion(db, w', today)
      BY <2>3, SamePortionBoth
    <2> QED
      BY <1>i, <1>t, <2>0, <2>1, <2>4 DEF RInv
  <1>7. CASE LogReplay
    BY <1>7, <1>i DEF LogReplay, RInv
  <1>8. CASE LogRefused
    BY <1>8, <1>i, RollbackRInv DEF LogRefused
  <1>9. CASE LogUnits
    <2>0. /\ pc = "log" /\ HasPlan(w) /\ CanLog(w, req.at)
          /\ ~Replayed(w, req.key) /\ HasDay(w, req.at)
          /\ w' = LogStudy(w, req.at, req.units, req.key)
          /\ pc' = "commit" /\ db' = db /\ req' = req /\ req.op = "log"
          /\ today' = today /\ req.at = today /\ SamePortion(db, w, today)
      BY <1>9, <1>i DEF LogUnits, IInv, VInv, RInv
    <2>1. Recorded(w')
      BY <1>t, <2>0, LogStudyRecord
    <2>2. SamePortion(w, w', today)
      BY <1>t, <2>0, LogStudyPortion
    <2>3. SamePortion(db, w', today)
      BY <2>0, <2>2, SamePortionBoth
    <2> QED
      BY <1>i, <1>t, <2>0, <2>1, <2>3 DEF RInv
  <1>10. CASE BuyFreeze
    <2>1. PICK key \in RequestKeys :
             Handle("purchase", key, today, Purchase(db, key))
      BY <1>10, KeysSent DEF BuyFreeze
    <2>2. Recorded(Purchase(db, key))
      BY <1>t, PurchaseRecord
    <2> QED
      BY <1>i, <2>1, <2>2, HandleRInv
  <1>11. CASE NewPlan
    <2>1. PICK goal \in Goals, size \in TractateSizes,
               start \in Starts \cup {utc} :
             /\ ~HasPlan(db)
             /\ Handle("create", NoKey, today,
                       CreatePlan(db, goal, size, start, today))
      BY <1>11 DEF NewPlan
    <2> DEFINE account == CreatePlan(db, goal, size, start, today)
    <2>2. Recorded(account)
      BY <1>t, <2>1, CreatePlanRecord, GoalsAssumption,
         TractateSizesAssumption
    <2> HIDE DEF account
    <2> QED
      BY <1>i, <2>1, <2>2, HandleRInv DEF account
  <1>12. CASE UpdatePlan
    <2>1. PICK goal \in Goals, ordinal \in 0..(Plan(db).mishnayot_count - 1) :
             Handle("update", NoKey, today,
                    ChangeGoal(SetPosition(db, ordinal), goal, today))
      BY <1>12 DEF UpdatePlan
    <2> DEFINE placed == SetPosition(db, ordinal)
               account == ChangeGoal(placed, goal, today)
    <2>2. /\ goal \in Nat \ {0} /\ ordinal \in Nat /\ HasPlan(db)
          /\ ordinal < Plan(db).mishnayot_count
      <3>1. HasPlan(db)
        BY <1>12 DEF UpdatePlan
      <3>2. Plan(db).mishnayot_count \in Nat
        BY <1>t, <3>1, PlanExists DEF StudyPlan
      <3> QED
        BY <3>1, <3>2, GoalsAssumption
    <2>3. placed \in AccountType /\ HasPlan(placed) /\ Recorded(placed)
      BY <1>t, <2>2, SetPositionSound, SetPositionRecord
    <2>4. Handle("update", NoKey, today, account)
      BY <2>1
    <2> HIDE DEF placed
    <2>5. Recorded(account)
      BY <1>t, <2>2, <2>3, ChangeGoalRecord
    <2> HIDE DEF account
    <2> QED
      BY <1>i, <2>4, <2>5, HandleRInv
  <1>13. CASE SwitchPlan
    <2>0. PICK goal \in Goals, size \in TractateSizes :
             \E ordinal \in 0..(size - 1) :
                Handle("switch", NoKey, today,
                       SwitchTractate(db, goal, size, ordinal, utc, today))
      BY <1>13 DEF SwitchPlan
    <2>1. PICK ordinal \in 0..(size - 1) :
             Handle("switch", NoKey, today,
                    SwitchTractate(db, goal, size, ordinal, utc, today))
      BY <2>0
    <2> DEFINE account == SwitchTractate(db, goal, size, ordinal, utc, today)
    <2>2. /\ goal \in Nat \ {0} /\ size \in Nat \ {0} /\ ordinal \in Nat
          /\ ordinal < size
      BY GoalsAssumption, TractateSizesAssumption
    <2>3. Recorded(account)
      BY <1>t, <2>2, SwitchTractateRecord
    <2> HIDE DEF account
    <2> QED
      BY <1>i, <2>1, <2>3, HandleRInv DEF account
  <1>14. CASE SetStudyWeek
    <2>1. PICK week \in Weeks :
             Handle("week", NoKey, today, Prefer(db, week, db.zone, today))
      BY <1>14 DEF SetStudyWeek
    <2> DEFINE account == Prefer(db, week, db.zone, today)
    <2>2. week \in StudyWeeks /\ db.zone \in ZoneKinds
      BY <1>t, WeeksAssumption DEF AccountType
    <2>3. Recorded(account)
      BY <1>t, <2>2, PreferRecord
    <2> HIDE DEF account
    <2> QED
      BY <1>i, <2>1, <2>3, HandleRInv DEF account
  <1>15. CASE SetTimezone
    <2>0. PICK zone \in Zones :
             \E at \in LocalDates(utc, zone) :
                Handle("timezone", NoKey, at,
                       Prefer(db, db.study_week, zone, at))
      BY <1>15 DEF SetTimezone
    <2>1. PICK at \in LocalDates(utc, zone) :
             Handle("timezone", NoKey, at,
                    Prefer(db, db.study_week, zone, at))
      BY <2>0
    <2> DEFINE account == Prefer(db, db.study_week, zone, at)
    <2>2. zone \in ZoneKinds /\ db.study_week \in StudyWeeks /\ at \in Dates
      BY <1>t, ZonesAssumption DEF AccountType, LocalDates
    <2>3. Recorded(account)
      BY <1>t, <2>2, PreferRecord
    <2> HIDE DEF account
    <2> QED
      BY <1>i, <2>1, <2>3, HandleRInv DEF account
  <1>16. CASE Commit
    BY <1>16, <1>i DEF Commit, RInv
  <1>17. CASE Abort
    BY <1>17, <1>i, RollbackRInv DEF Abort
  <1>18. CASE Tick
    BY <1>18, <1>i DEF Tick, RInv
  <1>19. CASE UNCHANGED vars
    BY <1>19, <1>i DEF vars, RInv
  <1> QED
    BY <1>1, <1>2, <1>3, <1>4, <1>5, <1>6, <1>7, <1>8, <1>9, <1>10, <1>11,
       <1>12, <1>13, <1>14, <1>15, <1>16, <1>17, <1>18, <1>19 DEF Next

\* The invariant is inductive.
LEMMA InductiveR == Spec => []RInv
  BY InitRInv, NextRInv, PTL DEF Spec

\* A weekday is fined or frozen only below its quota, a day is credited only at
\* its quota or by the end of a tractate, however the goal, the week and the
\* tractate were changed in between (settlement.py, _decide; study.py,
\* log_study; progress.py, change_goal).
THEOREM VerdictsAreFair == Spec => []VerdictsFair
  <1>1. RInv => VerdictsFair
    BY DEF RInv, Recorded, JudgedFairly, FairOn, EndsTractateOn, VerdictsFair
  <1> QED
    BY <1>1, InductiveR, PTL

\* The units of each day and of the learner are the sums of the events, each
\* key counts once, and no event reads past the end of its tractate, through
\* every retry, abort and switch (study.py, log_study).
THEOREM EventsExplainUnits == Spec => []EventsAddUp
  <1>1. ASSUME RInv
        PROVE  EventsAddUp
    <2>1. db \in AccountType /\ UnitsAddUp(db) /\ KeysOnce(db)
          /\ EventsInside(db)
      BY <1>1 DEF RInv, VInv, IInv, TypeOK, Recorded
    <2>2. \A S \in SUBSET DOMAIN db.events : UnitsOf(S) = SumOf(Units(db), S)
      BY <2>1, UnitsAreSums DEF UnitsOf
    <2>3. db.total_units_completed = UnitsOf(DOMAIN db.events)
      BY <2>1, <2>2 DEF UnitsAddUp
    <2>4. \A d \in Dates :
             db.days[d].completed_units =
                UnitsOf({i \in DOMAIN db.events :
                            db.events[i].credited_local_date = d})
      BY <2>1, <2>2 DEF UnitsAddUp, EventsOn
    <2> QED
      BY <2>1, <2>3, <2>4 DEF EventsAddUp, KeysOnce, EventsInside
  <1> QED
    BY <1>1, InductiveR, PTL

\* The units logged today under the present plan are part of the day's.
LEMMA LoggedTodayIsSum ==
    ASSUME NEW a \in AccountType, NEW d \in Dates, Recorded(a)
    PROVE  /\ LoggedToday(a, d) = SumOf(Units(a), EventsUnder(a, d))
           /\ LoggedToday(a, d) \in Int /\ 0 <= LoggedToday(a, d)
           /\ LoggedToday(a, d) <= a.days[d].completed_units
           /\ EventsUnder(a, d) = {} => LoggedToday(a, d) = 0
  <1>1. /\ EventsUnder(a, d) \in SUBSET DOMAIN a.events
        /\ EventsOn(a, d) \in SUBSET DOMAIN a.events
        /\ EventsUnder(a, d) \in SUBSET EventsOn(a, d)
        /\ {} \in SUBSET EventsUnder(a, d)
    BY DEF EventsUnder, EventsOn
  <1>2. /\ LoggedToday(a, d) = SumOf(Units(a), EventsUnder(a, d))
        /\ LoggedToday(a, d) \in Int
        /\ IsFiniteSet(EventsUnder(a, d)) /\ IsFiniteSet(EventsOn(a, d))
        /\ \A i \in EventsOn(a, d) : Units(a)[i] \in Nat
        /\ \A i \in EventsUnder(a, d) : Units(a)[i] \in Nat
    BY <1>1, UnitsAreSums DEF LoggedToday, EventsUnder
  <1>3. LoggedToday(a, d) <= a.days[d].completed_units
    BY <1>1, <1>2, SumGrows DEF Recorded, UnitsAddUp
  <1>4. SumOf(Units(a), {}) = 0
    BY FS_EmptySet, SumUnfolds
  <1>5. 0 <= LoggedToday(a, d)
    BY <1>1, <1>2, <1>4, SumGrows
  <1> QED
    BY <1>2, <1>3, <1>4, <1>5

\* While nothing was logged today under this plan, and while the quota of a row
\* of this plan is not met, the next mishnah is on the screen, whatever was
\* changed during the day (routes.py, _portion_ordinals, study_portion).
THEOREM NextAlwaysShown == Spec => []NextIsShown
  <1>1. ASSUME RInv, Readable
        PROVE  NextIsShown
    <2>1. /\ db \in AccountType /\ Recorded(db) /\ today \in Dates
          /\ HasPlan(db)
      BY <1>1 DEF RInv, VInv, IInv, TypeOK, Readable
    <2> DEFINE plan == Plan(db)
               day == db.days[today]
               logged == LoggedToday(db, today)
               count == PortionCount(db, today)
               next == plan.current_ordinal + 1
    <2>2. /\ plan.daily_goal \in Nat \ {0} /\ plan.current_ordinal \in Nat
          /\ plan.mishnayot_count \in Nat
          /\ plan.current_ordinal < plan.mishnayot_count
      <3>1. PlanId(db) \in ActivePlans(db) /\ plan \in StudyPlan
        BY <2>1, PlanExists DEF HasPlan, PlanId
      <3> QED
        BY <2>1, <3>1 DEF StudyPlan, Plan, Recorded, SomethingLeft
    <2>3. /\ day.required_units \in Nat /\ day.completed_units \in Nat
      BY <2>1 DEF AccountType, StudyDay
    <2>4. /\ logged \in Int /\ 0 <= logged /\ logged <= day.completed_units
          /\ EventsUnder(db, today) = {} => logged = 0
      BY <2>1, LoggedTodayIsSum
    <2>5. count \in Nat \ {0}
      BY <2>2, <2>3 DEF PortionCount
    <2>6. day.plan_id = PlanId(db) => count = GoalForDay(db, today)
      BY <2>2, <2>3 DEF PortionCount, GoalForDay
    <2> HIDE DEF plan, day, logged, count
    <2>7. PortionOrdinals(db, today)
             = (plan.current_ordinal - logged + 1)
               ..(plan.current_ordinal - logged + 1 + count - 1)
      BY DEF PortionOrdinals, PortionStart, plan, logged, count
    <2>8. logged < count => next \in PortionOrdinals(db, today)
      BY <2>2, <2>4, <2>5, <2>7
    <2>9. next \in 1..plan.mishnayot_count
      BY <2>2
    <2>10. logged < count => next \in Shown(db, today)
      BY <2>8, <2>9 DEF Shown, plan
    <2>11. EventsUnder(db, today) = {} => logged < count
      BY <2>4, <2>5
    <2>12. day.plan_id = PlanId(db)
           /\ day.completed_units < GoalForDay(db, today) => logged < count
      BY <2>3, <2>4, <2>5, <2>6
    <2> QED
      BY <2>10, <2>11, <2>12 DEF NextIsShown, EventsUnder, day, plan
  <1>2. RInv => NextIsShown
    BY <1>1 DEF NextIsShown
  <1> QED
    BY <1>2, InductiveR, PTL

\* Ticking off mishnayot leaves the portion on the screen where it is, unless
\* it ends the tractate (routes.py, _portion_ordinals: anchored to where the
\* day started).
THEOREM PortionKept == Spec => PortionStays
  <1> DEFINE A == pc = "commit" /\ req.op = "log" /\ Readable /\ HasPlan(db')
                  => PortionOrdinals(db', today) = PortionOrdinals(db, today)
  <1>1. ASSUME RInv, [Next]_vars, pc = "commit", req.op = "log", Readable,
               HasPlan(db')
        PROVE  PortionOrdinals(db', today) = PortionOrdinals(db, today)
    <2>1. db' = db \/ db' = w
      BY <1>1, OnlyCommits DEF RInv
    <2>2. CASE db' = w
      <3>1. /\ db \in AccountType /\ w \in AccountType /\ today \in Dates
            /\ Recorded(db) /\ Recorded(w) /\ SamePortion(db, w, today)
            /\ HasDay(db, today) /\ HasPlan(db) /\ HasPlan(w)
        BY <1>1, <2>2 DEF RInv, VInv, IInv, TypeOK, Readable
      <3>2. /\ PlanId(w) = PlanId(db)
            /\ Plan(w).daily_goal = Plan(db).daily_goal
            /\ Plan(w).current_ordinal - LoggedToday(w, today)
                  = Plan(db).current_ordinal - LoggedToday(db, today)
            /\ w.days[today].required_units = db.days[today].required_units
            /\ w.days[today].plan_id = db.days[today].plan_id
        BY <3>1, LoggedTodayIsSum DEF SamePortion
      <3>3. /\ PortionStart(w, today) = PortionStart(db, today)
            /\ PortionCount(w, today) = PortionCount(db, today)
        BY <3>2 DEF PortionStart, PortionCount
      <3> QED
        BY <2>2, <3>3 DEF PortionOrdinals
    <2> QED
      BY <2>1, <2>2
  <1>2. RInv /\ [Next]_vars => [A]_vars
    BY <1>1
  <1> QED
    BY <1>2, InductiveR, PTL DEF Spec, PortionStays

=============================================================================
