-------------------------- MODULE ConcurrentProofs --------------------------
(***************************************************************************)
(* What holds of requests that overlap, for every value of the constants:  *)
(* any number of sessions, requests, days and plans.  A row has one holder *)
(* at a time; a session that holds the row of user_stats works on a copy   *)
(* whose points, ledger, freezes and verdicts are the committed ones; and  *)
(* a session that does not changes none of them.  So each commit writes    *)
(* what its session worked out, over the account it worked it out from.    *)
(* The plan is read without the lock: its cursor may be an old one, which  *)
(* the events recorded since can only put further behind them.             *)
(***************************************************************************)
EXTENDS Concurrent, AccountProofs

\* Only a commit changes the account.
LEMMA OnlyCommits == [Next]_vars => db' = db \/ \E s \in Sessions : Commit(s)
  BY DEF Next, Serve, BeginLog, BeginPurchase, BeginUpdate, BeginSwitch,
         BeginWeek, Begin, Settle, FlushSettlement, PlanGone, LogReplay,
         LogUnits, BuyFreeze, ChangeGoalNow, SwitchNow, SetStudyWeek,
         UniqueViolation, DeadlockVictim, Abort, Rollback, Proceed, Tick,
         Done, vars

LEMMA InitOnePlan == Init => OneActivePlan(db)
  <1> SUFFICES ASSUME Init PROVE OneActivePlan(db)
    OBVIOUS
  <1>1. PICK week \in Weeks, zone \in Zones, goal \in Goals,
             size \in TractateSizes :
           db = GetOrCreateDay(CreatePlan(NewAccount(week, zone), goal,
                                          size, 0, 0), 0)
    BY DEF Init
  <1>2. db.plans = Append(<<>>, [daily_goal |-> goal, start_date |-> 0,
                                 created |-> 0, current_ordinal |-> 0,
                                 mishnayot_count |-> size,
                                 status |-> "active"])
    BY <1>1 DEF GetOrCreateDay, CreatePlan, NewAccount
  <1>3. DOMAIN db.plans = {1}
    BY <1>2
  <1>4. ActivePlans(db) \subseteq {1}
    BY <1>3 DEF ActivePlans
  <1>5. Cardinality({1}) = 1 /\ IsFiniteSet({1})
    BY FS_Singleton
  <1>6. Cardinality(ActivePlans(db)) <= Cardinality({1})
    BY <1>4, <1>5, FS_Subset
  <1> QED
    BY <1>5, <1>6 DEF OneActivePlan

LEMMA OneMeansSame ==
    ASSUME NEW a \in AccountType, OneActivePlan(a)
    PROVE  OneActive(a)
  <1> SUFFICES ASSUME NEW i \in ActivePlans(a), NEW j \in ActivePlans(a),
                      i # j
               PROVE  FALSE
    BY DEF OneActive
  <1>1. IsFiniteSet(ActivePlans(a))
    <2>1. DOMAIN a.plans = 1..Len(a.plans) /\ Len(a.plans) \in Nat
      BY DEF AccountType
    <2>2. IsFiniteSet(1..Len(a.plans))
      BY <2>1, FS_Interval
    <2> QED
      BY <2>1, <2>2, FS_Subset DEF ActivePlans
  <1>2. IsFiniteSet({i}) /\ Cardinality({i}) = 1
    BY FS_Singleton
  <1>3. Cardinality({i} \cup {j}) = 2
    <2>1. j \notin {i}
      OBVIOUS
    <2> QED
      BY <1>2, <2>1, FS_AddElement
  <1>4. Cardinality({i} \cup {j}) <= Cardinality(ActivePlans(a))
    BY <1>1, FS_Subset
  <1>5. Cardinality(ActivePlans(a)) \in Nat
    BY <1>1, FS_CardinalityType
  <1> QED
    BY <1>3, <1>4, <1>5 DEF OneActivePlan

-----------------------------------------------------------------------------
\* The rows of an account are written column by column: each keeps its type,
\* and shows the session's value where the session changed it.
LEMMA WrittenDay ==
    ASSUME NEW row \in StudyDay, NEW read \in StudyDay, NEW written \in StudyDay
    PROVE  LET new == UpdateRow(row, read, written)
           IN  /\ new \in StudyDay
               /\ read.status = row.status => new.status = written.status
               /\ read.points_awarded = row.points_awarded =>
                     new.points_awarded = written.points_awarded
               /\ written.status = read.status => new.status = row.status
               /\ written.points_awarded = read.points_awarded =>
                     new.points_awarded = row.points_awarded
  BY DEF UpdateRow, StudyDay

LEMMA WrittenPlan ==
    ASSUME NEW row \in StudyPlan, NEW read \in StudyPlan,
           NEW written \in StudyPlan
    PROVE  LET new == UpdateRow(row, read, written)
           IN  /\ new \in StudyPlan
               /\ new.current_ordinal =
                     IF written.current_ordinal = read.current_ordinal
                     THEN row.current_ordinal ELSE written.current_ordinal
  BY DEF UpdateRow, StudyPlan

LEMMA WrittenStats ==
    ASSUME NEW a \in AccountType, NEW read \in AccountType,
           NEW written \in AccountType
    PROVE  LET new == UpdateRow(a, read, written)
           IN  /\ new \in AccountType
               /\ new.total_points = IF written.total_points = read.total_points
                                     THEN a.total_points
                                     ELSE written.total_points
               /\ new.quantity = IF written.quantity = read.quantity
                                 THEN a.quantity ELSE written.quantity
               /\ new.freezes_consumed =
                     IF written.freezes_consumed = read.freezes_consumed
                     THEN a.freezes_consumed ELSE written.freezes_consumed
               /\ new.usages = IF written.usages = read.usages
                               THEN a.usages ELSE written.usages
  BY DEF UpdateRow, AccountType

\* The rows a transaction has added, after the rows it has read.
LEMMA RowsAdded ==
    ASSUME NEW S, NEW read \in Seq(S), NEW written \in Seq(S)
    PROVE  LET n == Len(read)
               m == Len(written)
               rows == NewRows(read, written)
           IN  /\ rows \in Seq(S) /\ Len(rows) = IF n + 1 <= m THEN m - n ELSE 0
               /\ \A i \in 1..(m - n) : rows[i] = written[n + i]
  <1> DEFINE n == Len(read)
             m == Len(written)
  <1>1. /\ n \in Nat /\ m \in Nat /\ DOMAIN read = 1..n /\ DOMAIN written = 1..m
        /\ \A i \in 1..n : read[i] \in S
        /\ \A i \in 1..m : written[i] \in S
    BY LenProperties
  <1>2. n + 1 \in Int /\ m \in Int /\ \A i \in (n + 1)..m : written[i] \in S
    BY <1>1
  <1>3. /\ SubSeq(written, n + 1, m) \in Seq(S)
        /\ Len(SubSeq(written, n + 1, m)) =
              IF n + 1 <= m THEN m - (n + 1) + 1 ELSE 0
        /\ \A i \in 1..(m - (n + 1) + 1) :
              SubSeq(written, n + 1, m)[i] = written[(n + 1) + i - 1]
    BY <1>2, SubSeqProperties
  <1> HIDE DEF n, m
  <1>4. m - (n + 1) + 1 = m - n /\ \A i \in Int : (n + 1) + i - 1 = n + i
    BY <1>1
  <1> QED
    BY <1>3, <1>4 DEF NewRows, n, m

\* There are none if it has written what it read, and what it wrote are the rows
\* it read and those.
LEMMA AddedRows ==
    ASSUME NEW S, NEW read \in Seq(S), NEW written \in Seq(S)
    PROVE  /\ NewRows(read, written) \in Seq(S)
           /\ written = read => NewRows(read, written) = <<>>
           /\ /\ Len(read) <= Len(written)
              /\ \A i \in 1..Len(read) : written[i] = read[i]
              => read \o NewRows(read, written) = written
  <1> DEFINE n == Len(read)
             m == Len(written)
             rows == NewRows(read, written)
  <1>1. /\ n \in Nat /\ m \in Nat /\ DOMAIN read = 1..n /\ DOMAIN written = 1..m
        /\ \A i \in 1..n : read[i] \in S
        /\ \A i \in 1..m : written[i] \in S
    BY LenProperties
  <1>2. /\ rows \in Seq(S) /\ Len(rows) = IF n + 1 <= m THEN m - n ELSE 0
        /\ \A i \in 1..(m - n) : rows[i] = written[n + i]
    BY RowsAdded
  <1>3. written = read => rows = <<>>
    BY <1>1, SubSeqEmpty DEF NewRows
  <1>4. ASSUME n <= m, \A i \in 1..n : written[i] = read[i]
        PROVE  read \o rows = written
    <2>1. /\ read \o rows \in Seq(S) /\ Len(read \o rows) = m
          /\ \A i \in 1..m : (read \o rows)[i] =
                IF i <= n THEN read[i] ELSE rows[i - n]
      <3> HIDE DEF rows, n, m
      <3>1. Len(rows) = m - n /\ n + Len(rows) = m
        BY <1>1, <1>2, <1>4
      <3> QED
        BY <1>2, <3>1, ConcatProperties DEF n
    <2>2. \A i \in 1..m : (read \o rows)[i] = written[i]
      <3> SUFFICES ASSUME NEW i \in 1..m PROVE (read \o rows)[i] = written[i]
        OBVIOUS
      <3>1. CASE i <= n
        <4>1. i \in 1..n
          BY <1>1, <3>1
        <4> QED
          BY <1>4, <2>1, <3>1, <4>1
      <3>2. CASE ~(i <= n)
        <4>1. i - n \in 1..(m - n) /\ n + (i - n) = i
          BY <1>1, <3>2
        <4>2. rows[i - n] = written[n + (i - n)]
          BY <1>2, <4>1
        <4> HIDE DEF rows
        <4> QED
          BY <2>1, <3>2, <4>1, <4>2
      <3> QED
        BY <3>1, <3>2
    <2> HIDE DEF rows
    <2> QED
      BY <1>1, <2>1, <2>2, SeqEqual
  <1> QED
    BY <1>2, <1>3, <1>4

\* The committed rows, with the columns that a session changed.
UpdatedDays(a, t) ==
    [d \in Dates |-> UpdateRow(a.days[d], t.base.days[d], t.w.days[d])]

UpdatedPlans(a, t) ==
    [i \in DOMAIN a.plans |->
        IF i \in DOMAIN t.base.plans
        THEN UpdateRow(a.plans[i], t.base.plans[i], t.w.plans[i])
        ELSE a.plans[i]]

\* What a commit writes of an account, a part at a time.
LEMMA WrittenParts ==
    ASSUME NEW a \in AccountType, NEW t, t.base \in AccountType,
           t.w \in AccountType, DOMAIN t.base.plans \subseteq DOMAIN t.w.plans
    PROVE  LET b == Written(a, t)
               updated == UpdateRow(a, t.base, t.w)
           IN  /\ b \in AccountType
               /\ b.total_points = updated.total_points
               /\ b.total_units_completed = updated.total_units_completed
               /\ b.quantity = updated.quantity
               /\ b.freezes_consumed = updated.freezes_consumed
               /\ b.usages = updated.usages \cup (t.w.usages \ t.base.usages)
               /\ b.ledger = a.ledger \o NewRows(t.base.ledger, t.w.ledger)
               /\ b.events = a.events \o NewRows(t.base.events, t.w.events)
               /\ b.plans = UpdatedPlans(a, t)
                            \o NewRows(t.base.plans, t.w.plans)
               /\ b.days = UpdatedDays(a, t)
  <1> DEFINE updated == UpdateRow(a, t.base, t.w)
             days == UpdatedDays(a, t)
             kept == UpdatedPlans(a, t)
             plans == kept \o NewRows(t.base.plans, t.w.plans)
             events == a.events \o NewRows(t.base.events, t.w.events)
             ledger == a.ledger \o NewRows(t.base.ledger, t.w.ledger)
             usages == updated.usages \cup (t.w.usages \ t.base.usages)
             b == Written(a, t)
  <1>1. updated \in AccountType
    BY WrittenStats
  <1>2. days \in [Dates -> StudyDay]
    <2>1. \A d \in Dates : /\ a.days[d] \in StudyDay
                           /\ t.base.days[d] \in StudyDay
                           /\ t.w.days[d] \in StudyDay
      BY DEF AccountType
    <2> QED
      BY <2>1, WrittenDay DEF UpdatedDays
  <1>3. kept \in Seq(StudyPlan)
    <2>1. /\ a.plans \in Seq(StudyPlan) /\ t.base.plans \in Seq(StudyPlan)
          /\ t.w.plans \in Seq(StudyPlan)
      BY DEF AccountType
    <2>2. \A i \in DOMAIN a.plans :
             /\ a.plans[i] \in StudyPlan
             /\ i \in DOMAIN t.base.plans =>
                   t.base.plans[i] \in StudyPlan /\ t.w.plans[i] \in StudyPlan
      BY <2>1
    <2>3. \A i \in DOMAIN a.plans : kept[i] \in StudyPlan
      BY <2>2, WrittenPlan DEF UpdatedPlans
    <2>4. DOMAIN a.plans = 1..Len(a.plans) /\ Len(a.plans) \in Nat
      BY <2>1, LenProperties
    <2>5. kept \in [1..Len(a.plans) -> StudyPlan]
      BY <2>3, <2>4 DEF UpdatedPlans
    <2> HIDE DEF kept
    <2> QED
      BY <2>4, <2>5
  <1>4. plans \in Seq(StudyPlan)
    BY <1>3, AddedRows, ConcatProperties DEF AccountType
  <1>5. events \in Seq(StudyEvent)
    BY AddedRows, ConcatProperties DEF AccountType
  <1>6. ledger \in Seq(PointTransaction)
    BY AddedRows, ConcatProperties DEF AccountType
  <1>7. usages \in SUBSET Dates
    BY <1>1 DEF AccountType
  <1>8. b = [updated EXCEPT !.days = days, !.plans = plans, !.events = events,
                            !.ledger = ledger, !.usages = usages]
    BY DEF Written, UpdatedPlans, UpdatedDays
  <1> HIDE DEF updated, plans, events, ledger, usages, b
  <1>9. /\ b \in AccountType
        /\ b.total_points = updated.total_points
        /\ b.total_units_completed = updated.total_units_completed
        /\ b.quantity = updated.quantity
        /\ b.freezes_consumed = updated.freezes_consumed
        /\ b.usages = usages /\ b.ledger = ledger /\ b.events = events
        /\ b.plans = plans /\ b.days = days
    BY <1>1, <1>2, <1>4, <1>5, <1>6, <1>7, <1>8 DEF AccountType
  <1> QED
    BY <1>9 DEF b, updated, plans, events, ledger, usages

LEMMA WrittenRows ==
    ASSUME NEW a \in AccountType, NEW t, t.base \in AccountType,
           t.w \in AccountType, DOMAIN t.base.plans \subseteq DOMAIN t.w.plans
    PROVE  /\ Written(a, t).ledger =
                 a.ledger \o NewRows(t.base.ledger, t.w.ledger)
           /\ Written(a, t).events =
                 a.events \o NewRows(t.base.events, t.w.events)
           /\ \A d \in Dates :
                 Written(a, t).days[d] =
                    UpdateRow(a.days[d], t.base.days[d], t.w.days[d])
  <1>1. Written(a, t).ledger = a.ledger \o NewRows(t.base.ledger, t.w.ledger)
    BY WrittenParts
  <1>2. Written(a, t).events = a.events \o NewRows(t.base.events, t.w.events)
    BY WrittenParts
  <1>3. \A d \in Dates :
           Written(a, t).days[d] =
              UpdateRow(a.days[d], t.base.days[d], t.w.days[d])
    <2>1. Written(a, t).days = UpdatedDays(a, t)
      BY WrittenParts
    <2> QED
      BY <2>1 DEF UpdatedDays
  <1> QED
    BY <1>1, <1>2, <1>3

\* A session that worked from the committed points, ledger, freezes and
\* verdicts commits the ones it worked out.
LEMMA WrittenOver ==
    ASSUME NEW a \in AccountType, NEW t, t.base \in AccountType,
           t.w \in AccountType, DOMAIN t.base.plans \subseteq DOMAIN t.w.plans,
           Agree(t.base, a), Grows(t.base, t.w)
    PROVE  Agree(t.w, Written(a, t))
  <1> DEFINE b == Written(a, t)
             base == t.base
             new == t.w
  <1>1. /\ a.total_points = base.total_points /\ a.ledger = base.ledger
        /\ a.quantity = base.quantity /\ a.usages = base.usages
        /\ a.freezes_consumed = base.freezes_consumed
    BY DEF Agree, Money
  <1>2. /\ b.total_points = new.total_points
        /\ b.quantity = new.quantity
        /\ b.freezes_consumed = new.freezes_consumed
        /\ b.usages = new.usages
    <2>1. /\ b.total_points = UpdateRow(a, base, new).total_points
          /\ b.quantity = UpdateRow(a, base, new).quantity
          /\ b.freezes_consumed = UpdateRow(a, base, new).freezes_consumed
          /\ b.usages = UpdateRow(a, base, new).usages
                        \cup (new.usages \ base.usages)
      BY WrittenParts
    <2> HIDE DEF b
    <2> QED
      BY <1>1, <2>1, WrittenStats
  <1>3. b.ledger = new.ledger
    <2>0. b.ledger = a.ledger \o NewRows(base.ledger, new.ledger)
      BY WrittenRows
    <2>1. b.ledger = base.ledger \o NewRows(base.ledger, new.ledger)
      BY <1>1, <2>0
    <2>2. /\ base.ledger \in Seq(PointTransaction)
          /\ new.ledger \in Seq(PointTransaction)
      BY DEF AccountType
    <2> QED
      BY <2>1, <2>2, AddedRows DEF Grows
  <1>4. ASSUME NEW d \in Dates PROVE Paid(b, d) = Paid(new, d)
    <2>1. /\ a.days[d] \in StudyDay /\ base.days[d] \in StudyDay
          /\ new.days[d] \in StudyDay
      BY DEF AccountType
    <2>2. /\ base.days[d].status = a.days[d].status
          /\ base.days[d].points_awarded = a.days[d].points_awarded
      BY DEF Agree, Paid
    <2>3. b.days[d] = UpdateRow(a.days[d], base.days[d], new.days[d])
      BY WrittenRows
    <2> HIDE DEF b, base, new
    <2> QED
      BY <2>1, <2>2, <2>3, WrittenDay DEF Paid
  <1> QED
    BY <1>2, <1>3, <1>4 DEF Agree, Money

\* A session that changed none of them leaves them as they are.
LEMMA WrittenBeside ==
    ASSUME NEW a \in AccountType, NEW t, t.base \in AccountType,
           t.w \in AccountType, DOMAIN t.base.plans \subseteq DOMAIN t.w.plans,
           Agree(t.base, t.w)
    PROVE  Agree(a, Written(a, t))
  <1> DEFINE b == Written(a, t)
             base == t.base
             new == t.w
  <1>1. /\ new.total_points = base.total_points /\ new.ledger = base.ledger
        /\ new.quantity = base.quantity /\ new.usages = base.usages
        /\ new.freezes_consumed = base.freezes_consumed
    BY DEF Agree, Money
  <1>2. /\ b.total_points = a.total_points /\ b.quantity = a.quantity
        /\ b.freezes_consumed = a.freezes_consumed /\ b.usages = a.usages
    <2>1. /\ b.total_points = UpdateRow(a, base, new).total_points
          /\ b.quantity = UpdateRow(a, base, new).quantity
          /\ b.freezes_consumed = UpdateRow(a, base, new).freezes_consumed
          /\ b.usages = UpdateRow(a, base, new).usages
                        \cup (new.usages \ base.usages)
      BY WrittenParts
    <2> HIDE DEF b
    <2> QED
      BY <1>1, <2>1, WrittenStats
  <1>3. b.ledger = a.ledger
    <2>1. /\ base.ledger \in Seq(PointTransaction)
          /\ a.ledger \in Seq(PointTransaction)
      BY DEF AccountType
    <2>2. NewRows(base.ledger, new.ledger) = <<>>
      <3> HIDE DEF base, new
      <3>1. NewRows(base.ledger, base.ledger) = <<>>
        BY <2>1, AddedRows
      <3> QED
        BY <1>1, <3>1
    <2>3. b.ledger = a.ledger \o NewRows(base.ledger, new.ledger)
      BY WrittenRows
    <2> QED
      BY <2>1, <2>2, <2>3, ConcatEmptySeq
  <1>4. ASSUME NEW d \in Dates PROVE Paid(b, d) = Paid(a, d)
    <2>1. /\ a.days[d] \in StudyDay /\ base.days[d] \in StudyDay
          /\ new.days[d] \in StudyDay
      BY DEF AccountType
    <2>2. /\ new.days[d].status = base.days[d].status
          /\ new.days[d].points_awarded = base.days[d].points_awarded
      BY DEF Agree, Paid
    <2>3. b.days[d] = UpdateRow(a.days[d], base.days[d], new.days[d])
      BY WrittenRows
    <2> HIDE DEF b, base, new
    <2> QED
      BY <2>1, <2>2, <2>3, WrittenDay DEF Paid
  <1> QED
    BY <1>2, <1>3, <1>4 DEF Agree, Money

-----------------------------------------------------------------------------
\* b is what a session has made of a by judging days.
Worked(a, b) ==
    /\ b \in AccountType /\ Sound(b) /\ FreezesAccounted(b)
    /\ Judges(a, b, Dates) /\ Gains(a, b) /\ Grows(a, b)

LEMMA WorkedNothing ==
    ASSUME NEW a \in AccountType, Sound(a), FreezesAccounted(a)
    PROVE  Worked(a, a)
  <1>1. PaysNothing(a, a) /\ PostsOnce(a, a) /\ Judges(a, a, Dates)
    BY SameBooks DEF PostsOnce, PaysNothing, Judges
  <1> QED
    BY <1>1, GainsSelf, PostsOnceGrows DEF Worked

\* One more piece of work, on one day or none.
LEMMA WorkedMore ==
    ASSUME NEW a \in AccountType, NEW b, NEW c \in AccountType, NEW d \in Dates,
           Worked(a, b), PaysFor(b, c, d) \/ PaysNothing(b, c),
           Sound(c), FreezesAccounted(c), Grows(b, c)
    PROVE  Worked(a, c)
  <1>1. b \in AccountType /\ Judges(a, b, Dates) /\ Gains(a, b) /\ Grows(a, b)
    BY DEF Worked
  <1>2. Judges(a, c, Dates) /\ Gains(a, c)
    <2>1. ASSUME NEW D \in SUBSET Dates, Judges(b, c, D)
          PROVE  Judges(a, c, Dates)
      <3>1. Judges(a, c, Dates \cup D) /\ Dates \cup D = Dates
        BY <1>1, <2>1, JudgesBoth
      <3> QED
        BY <3>1
    <2>2. CASE PaysFor(b, c, d)
      BY <1>1, <2>1, <2>2, GainsOne DEF PaysFor
    <2>3. CASE PaysNothing(b, c)
      BY <1>1, <2>1, <2>3, GainsNothing DEF PaysNothing
    <2> QED
      BY <2>2, <2>3
  <1>3. Grows(a, c)
    BY <1>1, GrowsBoth
  <1> QED
    BY <1>2, <1>3 DEF Worked

LEMMA SettleDayWorked ==
    ASSUME NEW a \in AccountType, NEW b, NEW d \in Dates, Worked(a, b),
           HasPlan(b)
    PROVE  LET c == SettleDay(b, d)
           IN  Worked(a, c) /\ c.plans = b.plans /\ c.events = b.events
  <1> DEFINE c == SettleDay(b, d)
  <1>1. b \in AccountType /\ Sound(b) /\ FreezesAccounted(b)
    BY DEF Worked
  <1>2. c \in AccountType /\ Sound(c) /\ c.plans = b.plans
    BY <1>1, SettleDaySound
  <1>3. FreezesAccounted(c)
    BY <1>1, SettleDayEffects
  <1>4. PaysFor(b, c, d) \/ PaysNothing(b, c)
    BY <1>1, SettleDayPays
  <1>5. Grows(b, c) /\ c.events = b.events
    BY <1>1, SettleDayGrows, SettleDayEvents
  <1> HIDE DEF c
  <1>6. Worked(a, c)
    BY <1>2, <1>3, <1>4, <1>5, WorkedMore
  <1> QED
    BY <1>2, <1>5, <1>6 DEF c

LEMMA OpenDayWorked ==
    ASSUME NEW a \in AccountType, NEW b, NEW d \in Dates, Worked(a, b),
           HasPlan(b)
    PROVE  LET c == GetOrCreateDay(b, d)
           IN  Worked(a, c) /\ c.plans = b.plans /\ c.events = b.events
  <1> DEFINE c == GetOrCreateDay(b, d)
  <1>1. b \in AccountType /\ Sound(b) /\ FreezesAccounted(b)
    BY DEF Worked
  <1>2. c \in AccountType /\ Sound(c) /\ c.plans = b.plans
    BY <1>1, GetOrCreateDaySound
  <1>3. FreezesAccounted(c)
    BY <1>1, GetOrCreateDayEffects
  <1>4. PaysNothing(b, c)
    BY <1>1, GetOrCreateDayPays
  <1>5. c.ledger = b.ledger /\ c.events = b.events
    BY <1>1 DEF GetOrCreateDay, AccountType
  <1>6. Grows(b, c)
    BY <1>1, <1>5, PostsOnceGrows DEF PostsOnce
  <1> HIDE DEF c
  <1>7. Worked(a, c)
    BY <1>2, <1>3, <1>4, <1>6, WorkedMore
  <1> QED
    BY <1>2, <1>5, <1>7 DEF c

LEMMA LogStudyWorked ==
    ASSUME NEW a \in AccountType, NEW b, NEW d \in Dates, Worked(a, b),
           NEW units \in Nat, NEW key \in RequestKeys, HasPlan(b),
           CanLog(b, d)
    PROVE  Worked(a, LogStudy(b, d, units, key))
  <1> DEFINE c == LogStudy(b, d, units, key)
  <1>1. b \in AccountType /\ Sound(b) /\ FreezesAccounted(b)
    BY DEF Worked
  <1>2. c \in AccountType /\ Sound(c)
    BY <1>1, LogStudySound
  <1>3. FreezesAccounted(c)
    BY <1>1, LogStudyEffects
  <1>4. PaysFor(b, c, d) \/ PaysNothing(b, c)
    BY <1>1, LogStudyPays
  <1>5. Grows(b, c)
    BY <1>1, LogStudyPosts, PostsOnceGrows
  <1> HIDE DEF c
  <1>6. Worked(a, c)
    BY <1>2, <1>3, <1>4, <1>5, WorkedMore
  <1> QED
    BY <1>6 DEF c

\* The accounts the loop of settle_user goes through, n days from first on.
Loops(f, a, first, n) ==
    f = [i \in 0..n |-> IF i = 0 THEN a
                        ELSE SettleDay(f[i - 1], first + i - 1)]

LEMMA LoopUnfolds ==
    ASSUME NEW a, NEW first, NEW n \in Nat
    PROVE  \E f : Loops(f, a, first, n)
  <1> USE DEF Loops
  <1> DEFINE Loop(f, m) == Loops(f, a, first, m)
             Short == {m \in Nat : ~ \E f : Loop(f, m)}
  <1>1. Short = {}
    <2> SUFFICES ASSUME Short # {} PROVE FALSE
      OBVIOUS
    <2>1. PICK m \in Short : \A k \in Short : m <= k
      BY LeastNatural
    <2>2. m # 0
      <3> DEFINE f == [i \in 0..0 |-> a]
      <3>1. Loop(f, 0)
        OBVIOUS
      <3> QED
        BY <2>1, <3>1
    <2>3. m - 1 \in Nat /\ m - 1 \notin Short
      <3>1. m \in Nat
        BY <2>1
      <3>2. m - 1 \in Nat /\ ~(m <= m - 1)
        BY <2>2, <3>1
      <3> HIDE DEF Short
      <3> QED
        BY <2>1, <3>2
    <2>4. PICK f : Loop(f, m - 1)
      BY <2>3
    <2> DEFINE g == [i \in 0..m |-> IF i = m THEN SettleDay(f[m - 1], first + m - 1)
                                    ELSE f[i]]
    <2>5. Loop(g, m)
      <3>1. ASSUME NEW i \in 0..m
            PROVE  g[i] = IF i = 0 THEN a
                          ELSE SettleDay(g[i - 1], first + i - 1)
        <4>1. CASE i = m
          <5>1. g[i - 1] = f[m - 1]
            BY <2>3, <4>1
          <5> QED
            BY <2>2, <4>1, <5>1
        <4>2. CASE i # m
          <5>1. i \in 0..(m - 1) /\ g[i] = f[i]
            BY <2>3, <4>2
          <5>2. f[i] = IF i = 0 THEN a
                       ELSE SettleDay(f[i - 1], first + i - 1)
            BY <2>4, <5>1
          <5>3. i # 0 => g[i - 1] = f[i - 1]
            BY <2>3, <4>2
          <5> QED
            BY <5>1, <5>2, <5>3
        <4> QED
          BY <4>1, <4>2
      <3> HIDE DEF g
      <3>2. g = [i \in 0..m |-> g[i]]
        BY DEF g
      <3> QED
        BY <3>1, <3>2
    <2> QED
      BY <2>1, <2>5
  <1> QED
    BY <1>1

-----------------------------------------------------------------------------
\* A day without a row holds no units.
NoRowNoUnits(a) ==
    \A d \in Dates : ~HasDay(a, d) => a.days[d].completed_units = 0

\* b counts the units that a counts, and has a row for every day that has one.
KeepsUnits(a, b) ==
    /\ b.total_units_completed = a.total_units_completed
    /\ \A d \in Dates :
          /\ b.days[d].completed_units = a.days[d].completed_units
          /\ HasDay(a, d) => HasDay(b, d)

LEMMA KeepsUnitsBoth ==
    ASSUME NEW a, NEW b, NEW c, KeepsUnits(a, b), KeepsUnits(b, c)
    PROVE  KeepsUnits(a, c)
  BY DEF KeepsUnits

LEMMA KeepsNoRow ==
    ASSUME NEW a, NEW b, KeepsUnits(a, b), NoRowNoUnits(a)
    PROVE  NoRowNoUnits(b)
  BY DEF KeepsUnits, NoRowNoUnits

\* Opening a day records no units.
LEMMA OpenDayUnits ==
    ASSUME NEW a \in AccountType, NEW d \in Dates, NoRowNoUnits(a)
    PROVE  LET b == GetOrCreateDay(a, d)
           IN  KeepsUnits(a, b) /\ HasDay(b, d)
  <1> DEFINE kind == ClassifyDay(d, a.study_week)
             row == [day_kind |-> kind,
                     required_units |->
                         RequiredUnitsFor(kind, Plan(a).daily_goal),
                     completed_units |-> 0, status |-> "pending",
                     points_awarded |-> 0, streak_after |-> 0,
                     plan_id |-> PlanId(a)]
             b == GetOrCreateDay(a, d)
  <1>1. CASE HasDay(a, d)
    BY <1>1 DEF GetOrCreateDay, KeepsUnits
  <1>2. CASE ~HasDay(a, d)
    <2>1. b = [a EXCEPT !.days = [a.days EXCEPT ![d] = row]]
      BY <1>2 DEF GetOrCreateDay
    <2>2. row.status = "pending" /\ row.completed_units = 0
      OBVIOUS
    <2> HIDE DEF row, b
    <2>3. /\ b.total_units_completed = a.total_units_completed
          /\ b.days[d] = row
          /\ \A e \in Dates \ {d} : b.days[e] = a.days[e]
      BY <2>1 DEF AccountType
    <2>4. KeepsUnits(a, b)
      BY <1>2, <2>2, <2>3 DEF KeepsUnits, NoRowNoUnits, HasDay
    <2> QED
      BY <2>2, <2>3, <2>4 DEF HasDay, b
  <1> QED
    BY <1>1, <1>2

\* Nor does judging one.
LEMMA SettleDayUnits ==
    ASSUME NEW a \in AccountType, NEW d \in Dates, Sound(a), HasPlan(a),
           NoRowNoUnits(a)
    PROVE  KeepsUnits(a, SettleDay(a, d))
  <1> DEFINE opened == GetOrCreateDay(a, d)
             decision == Decide(opened, d, ~HasDay(a, d))
             judged == Apply(opened, d, decision)
             b == SettleDay(a, d)
  <1>1. /\ opened \in AccountType /\ Sound(opened)
        /\ KeepsUnits(a, opened) /\ HasDay(opened, d)
    BY GetOrCreateDaySound, OpenDayUnits
  <1>2. /\ decision \in Decisions
        /\ decision # "carry" => ~Resolved(opened, d)
    BY DEF Decide, Decisions
  <1>3. b = [judged EXCEPT !.last_settled_date = d]
    BY DEF SettleDay, opened, decision
  <1> HIDE DEF opened, decision
  <1>4. /\ SameRecord(opened, judged)
        /\ \A e \in Dates \ {d} : judged.days[e] = opened.days[e]
        /\ decision = "carry" => judged = opened
        /\ decision = "credit" => judged.days[d].status = "completed"
        /\ decision \in {"miss", "freeze"} =>
              judged.days[d].status \in {"missed", "frozen_item"}
        /\ decision = "rest" => judged.days[d].status = "rest_day"
        /\ decision = "exempt" => judged.days[d].status = "exempt"
    BY <1>1, <1>2, ApplyRecord
  <1>5. judged \in AccountType
    BY <1>1, <1>2, ApplySound
  <1> HIDE DEF judged, b
  <1>6. b.days = judged.days
        /\ b.total_units_completed = judged.total_units_completed
    BY <1>3, <1>5 DEF AccountType
  <1>7. HasDay(b, d)
    BY <1>1, <1>2, <1>4, <1>6 DEF HasDay, Decisions
  <1>8. \A e \in Dates : HasDay(opened, e) => HasDay(b, e)
    BY <1>4, <1>6, <1>7 DEF HasDay
  <1>9. b.total_units_completed = opened.total_units_completed
    BY <1>4, <1>6 DEF SameRecord, Record
  <1>10. \A e \in Dates :
            b.days[e].completed_units = opened.days[e].completed_units
    BY <1>4, <1>6 DEF SameRecord, Quota
  <1>11. KeepsUnits(opened, b)
    BY <1>8, <1>9, <1>10 DEF KeepsUnits
  <1> QED
    BY <1>1, <1>11, KeepsUnitsBoth DEF b

\* The days the loop settles are worked off one after the other.
LEMMA SettleDaysWorked ==
    ASSUME NEW a \in AccountType, Sound(a), FreezesAccounted(a), HasPlan(a),
           NEW first \in Int, NEW n \in Nat,
           \A i \in 1..n : first + i - 1 \in Dates
    PROVE  LET b == SettleDays(a, first, n)
           IN  /\ Worked(a, b) /\ b.plans = a.plans /\ b.events = a.events
               /\ NoRowNoUnits(a) => KeepsUnits(a, b)
  <1> DEFINE f == CHOOSE g : Loops(g, a, first, n)
             Through(i) == /\ Worked(a, f[i])
                           /\ f[i].plans = a.plans /\ f[i].events = a.events
                           /\ NoRowNoUnits(a) => KeepsUnits(a, f[i])
             Short == {i \in 0..n : ~Through(i)}
  <1>1. Loops(f, a, first, n)
    BY LoopUnfolds
  <1>2. SettleDays(a, first, n) = f[n]
    BY DEF SettleDays, Loops
  <1> HIDE DEF f
  <1>3. Short = {}
    <2> SUFFICES ASSUME Short # {} PROVE FALSE
      OBVIOUS
    <2>0. Short \in SUBSET Nat
      OBVIOUS
    <2>1. PICK m \in Short : \A k \in Short : m <= k
      <3> HIDE DEF Short
      <3> QED
        BY <2>0, LeastNatural
    <2>2. f[0] = a
      BY <1>1 DEF Loops
    <2>3. m # 0
      BY <2>1, <2>2, WorkedNothing DEF KeepsUnits
    <2>4. m - 1 \in 0..n /\ Through(m - 1) /\ m \in 1..n
      BY <2>1, <2>3
    <2>5. f[m] = SettleDay(f[m - 1], first + m - 1)
      BY <1>1, <2>4 DEF Loops
    <2>6. HasPlan(f[m - 1])
      BY <2>4, SamePlan
    <2>7. Worked(a, f[m]) /\ f[m].plans = a.plans /\ f[m].events = a.events
      BY <2>4, <2>5, <2>6, SettleDayWorked
    <2>8. NoRowNoUnits(a) => KeepsUnits(a, f[m])
      <3>1. /\ f[m - 1] \in AccountType /\ Sound(f[m - 1])
            /\ first + m - 1 \in Dates
        BY <2>4 DEF Worked
      <3>2. NoRowNoUnits(a) => KeepsUnits(f[m - 1], f[m])
        BY <2>4, <2>5, <2>6, <3>1, KeepsNoRow, SettleDayUnits
      <3> QED
        BY <2>4, <3>2, KeepsUnitsBoth
    <2> QED
      BY <2>1, <2>7, <2>8
  <1> QED
    BY <1>2, <1>3

\* The greater and the smaller of two numbers.
LEMMA TwoNumbers ==
    ASSUME NEW m \in Int, NEW n \in Int
    PROVE  /\ Max({m, n}) = IF m >= n THEN m ELSE n
           /\ Min({m, n}) = IF m <= n THEN m ELSE n
  BY DEF Max, Min

\* However many days are due, a settlement works off closed ones and opens
\* today.
LEMMA SettleAllWorked ==
    ASSUME NEW a \in AccountType, Sound(a), FreezesAccounted(a), HasPlan(a),
           today \in Dates
    PROVE  LET b == SettleAll(a)
           IN  /\ Worked(a, b) /\ b.plans = a.plans /\ b.events = a.events
               /\ NoRowNoUnits(a) => KeepsUnits(a, b) /\ HasDay(b, today)
  <1> DEFINE first == FirstUnsettled(a)
             few == Min({today - first, MaxDaysPerSettlement})
             due == Max({0, few})
             b == SettleDays(a, first, due)
  <1>1. first \in Nat /\ today \in Nat /\ today <= MaxDay /\ MaxDay \in Nat
    <2>1. Plan(a).start_date \in Nat
      BY PlanExists DEF StudyPlan, Dates
    <2>2. a.last_settled_date \in Nat \cup {NoDate}
      BY DEF AccountType, Dates
    <2>3. today \in Nat /\ today <= MaxDay /\ MaxDay \in Nat
      BY MaxDayAssumption DEF Dates
    <2> QED
      BY <2>1, <2>2, <2>3 DEF FirstUnsettled
  <1> HIDE DEF first
  <1>2. few \in Int /\ few <= today - first
    <2>1. today - first \in Int /\ MaxDaysPerSettlement \in Int
      BY <1>1, MaxDaysAssumption
    <2>2. few = IF today - first <= MaxDaysPerSettlement
                THEN today - first ELSE MaxDaysPerSettlement
      BY <2>1, TwoNumbers
    <2> QED
      BY <2>1, <2>2
  <1> HIDE DEF few
  <1>3. due \in Nat /\ (due = 0 \/ due <= today - first)
    BY <1>1, <1>2, TwoNumbers
  <1> HIDE DEF due
  <1>4. \A i \in 1..due : first + i - 1 \in Dates
    BY <1>1, <1>3 DEF Dates
  <1>5. /\ Worked(a, b) /\ b.plans = a.plans /\ b.events = a.events
        /\ NoRowNoUnits(a) => KeepsUnits(a, b)
    <2>1. first \in Int
      BY <1>1
    <2> QED
      BY <1>3, <1>4, <2>1, SettleDaysWorked
  <1>6. HasPlan(b)
    BY <1>5, SamePlan
  <1>7. SettleAll(a) = GetOrCreateDay(b, today)
    BY DEF SettleAll, first, few, due
  <1>8. NoRowNoUnits(a) =>
           /\ KeepsUnits(b, GetOrCreateDay(b, today))
           /\ HasDay(GetOrCreateDay(b, today), today)
    <2> HIDE DEF b
    <2> QED
      BY <1>5, KeepsNoRow, OpenDayUnits DEF Worked
  <1> DEFINE c == GetOrCreateDay(b, today)
  <1>9. Worked(a, c) /\ c.plans = a.plans /\ c.events = a.events
    BY <1>5, <1>6, OpenDayWorked
  <1>10. NoRowNoUnits(a) => KeepsUnits(a, c) /\ HasDay(c, today)
    BY <1>5, <1>8, KeepsUnitsBoth
  <1> HIDE DEF b, c
  <1> QED
    BY <1>7, <1>9, <1>10 DEF c

-----------------------------------------------------------------------------
\* A request that the environment sends.
Asked(req) ==
    /\ req.op \in {"log", "purchase", "update", "switch", "week"}
    /\ req.op = "log" => req.units \in Nat /\ req.key \in RequestKeys
    /\ req.op \in {"update", "switch"} => req.goal \in Nat \ {0}
    /\ req.op = "switch" => req.size \in Nat \ {0}
    /\ req.op = "week" => req.week \in StudyWeeks

Locking == {"log", "purchase"}

\* Work that logs nothing leaves the cursors of the plans it has read, and
\* starts a new plan at its beginning.
Keeps(read, work) ==
    /\ work.events = read.events
    /\ \A i \in DOMAIN read.plans :
          work.plans[i].current_ordinal = read.plans[i].current_ordinal
    /\ \A i \in DOMAIN work.plans \ DOMAIN read.plans :
          work.plans[i].current_ordinal = 0

Parts == {"pc", "req", "held", "base", "w"}

\* A running transaction: what it read and what it made of it.
Transaction(t) ==
    /\ DOMAIN t = Parts
    /\ t.pc \in {"begun", "settled", "flushed", "commit"}
    /\ Asked(t.req)
    /\ t.base \in AccountType /\ t.w \in AccountType
    /\ DOMAIN t.base.plans \subseteq DOMAIN t.w.plans
    /\ t.req.op \in {"log", "update"} => HasPlan(t.base)
    /\ t.pc = "begun" => OneActive(t.base)
    /\ t.pc \in {"settled", "flushed"} =>
          /\ t.req.op = "log"
          /\ Worked(t.base, t.w) /\ t.w.plans = t.base.plans
          /\ t.w.events = t.base.events
    /\ t.pc = "commit" /\ t.req.op # "log" => Keeps(t.base, t.w)
    /\ t.pc = "commit" /\ t.req.op \in Locking =>
          /\ Worked(t.base, t.w) \/ Bought(t.base, t.w)
          /\ Sound(t.w) /\ FreezesAccounted(t.w) /\ Grows(t.base, t.w)
    /\ t.pc = "commit" /\ t.req.op \notin Locking => Agree(t.base, t.w)

\* It has read the account under the lock on user_stats.
Holds(t) ==
    t.pc \in {"settled", "flushed"}
    \/ (t.pc = "commit" /\ t.req.op \in Locking)

TypeOK ==
    /\ db \in AccountType
    /\ DOMAIN tx = Sessions
    /\ \A s \in Sessions : tx[s] = Idle \/ Transaction(tx[s])
    /\ today \in Dates /\ utc \in Dates /\ sent \in Nat

\* No row has two holders.
RowsHeldOnce ==
    \A s, o \in Sessions : s # o => tx[s].held \cap tx[o].held = {}

\* A session that has the lock works from the committed account.
LockedIsCurrent ==
    \A s \in Sessions :
        Holds(tx[s]) => StatsRow \in tx[s].held /\ Agree(tx[s].base, db)

KInv ==
    /\ TypeOK /\ RowsHeldOnce /\ LockedIsCurrent
    /\ Sound(db) /\ FreezesAccounted(db) /\ OneActive(db)

LEMMA InitKInv == Init => KInv
  <1> SUFFICES ASSUME Init PROVE KInv
    OBVIOUS
  <1>1. PICK week \in Weeks, zone \in Zones, goal \in Goals,
             size \in TractateSizes :
           /\ db = GetOrCreateDay(CreatePlan(NewAccount(week, zone), goal,
                                             size, 0, 0), 0)
           /\ today = Max(LocalDates(0, zone))
    BY DEF Init
  <1> DEFINE new == NewAccount(week, zone)
             planned == CreatePlan(new, goal, size, 0, 0)
  <1>2. /\ week \in StudyWeeks /\ zone \in ZoneKinds /\ 0 \in Dates
        /\ goal \in Nat \ {0} /\ size \in Nat \ {0}
    BY WeeksAssumption, ZonesAssumption, GoalsAssumption,
       TractateSizesAssumption, MaxDayAssumption DEF Dates
  <1>3. new \in AccountType /\ Sound(new) /\ FreezesAccounted(new)
    BY <1>2, NewAccountSound, NewAccountEffects
  <1> HIDE DEF new
  <1>4. /\ planned \in AccountType /\ Sound(planned) /\ HasPlan(planned)
        /\ FreezesAccounted(planned)
    BY <1>2, <1>3, CreatePlanSound, CreatePlanEffects
  <1> HIDE DEF planned
  <1>5. db \in AccountType /\ Sound(db) /\ FreezesAccounted(db)
    BY <1>1, <1>2, <1>4, GetOrCreateDaySound, GetOrCreateDayEffects
       DEF new, planned
  <1>6. today \in Dates
    <2> DEFINE other == 0 - zone
    <2>1. other \in Int /\ LocalDates(0, zone) = {0, other} \cap Dates
      BY <1>2 DEF LocalDates, ZoneKinds
    <2> HIDE DEF other
    <2>2. LocalDates(0, zone) = {0, 0} \/ LocalDates(0, zone) = {0, other}
      BY <1>2, <2>1
    <2>3. today \in {0, other} /\ (other \notin Dates => today = 0)
      BY <1>1, <1>2, <2>1, <2>2, TwoNumbers
    <2> QED
      BY <1>2, <2>3
  <1>7. /\ DOMAIN tx = Sessions /\ \A s \in Sessions : tx[s] = Idle
        /\ utc \in Dates /\ sent \in Nat
    BY <1>2 DEF Init
  <1>8. OneActive(db)
    BY <1>5, InitOnePlan, OneMeansSame
  <1>9. ~Holds(Idle) /\ Idle.held = {}
    BY DEF Holds, Idle
  <1> QED
    BY <1>5, <1>6, <1>7, <1>8, <1>9
       DEF KInv, TypeOK, RowsHeldOnce, LockedIsCurrent

-----------------------------------------------------------------------------
\* A session that begins holds nothing, and knows the user and the plans.
LEMMA KnownType ==
    ASSUME db \in AccountType
    PROVE  Known \in AccountType /\ Known.plans = db.plans
  <1>1. db.study_week \in StudyWeeks /\ db.zone \in ZoneKinds
    BY DEF AccountType
  <1>2. NewAccount(db.study_week, db.zone) \in AccountType
    BY <1>1, NewAccountSound
  <1> DEFINE new == NewAccount(db.study_week, db.zone)
  <1>3. Known = [new EXCEPT !.plans = db.plans]
    BY DEF Known
  <1> HIDE DEF new
  <1> QED
    BY <1>2, <1>3 DEF AccountType, new

LEMMA BeginKInv ==
    ASSUME KInv, NEW s \in Sessions, NEW req, Begin(s, req), Asked(req),
           req.op \in {"log", "update"} => HasPlan(db)
    PROVE  KInv'
  <1> DEFINE t == [pc |-> "begun", req |-> req, held |-> {}, base |-> Known,
                   w |-> Known]
  <1>1. /\ db \in AccountType /\ DOMAIN tx = Sessions /\ sent \in Nat
        /\ today \in Dates /\ utc \in Dates
    BY DEF KInv, TypeOK
  <1>2. /\ tx' = [tx EXCEPT ![s] = t] /\ db' = db /\ sent' = sent + 1
        /\ today' = today /\ utc' = utc
    BY DEF Begin
  <1>3. Transaction(t) /\ ~Holds(t) /\ t.held = {}
    <2>1. HasPlan(Known) <=> HasPlan(db)
      BY <1>1, KnownType, SamePlan
    <2>2. OneActive(Known)
      BY <1>1, KnownType DEF KInv, OneActive, ActivePlans
    <2> QED
      BY <1>1, <2>1, <2>2, KnownType DEF Transaction, Holds, Parts
  <1> HIDE DEF t
  <1>4. /\ DOMAIN tx' = Sessions /\ tx'[s] = t
        /\ \A o \in Sessions \ {s} : tx'[o] = tx[o]
    BY <1>1, <1>2
  <1> QED
    BY <1>1, <1>2, <1>3, <1>4
       DEF KInv, TypeOK, RowsHeldOnce, LockedIsCurrent

\* A session that ends without a commit lets go of its rows.
LEMMA RollbackKInv ==
    ASSUME KInv, NEW s \in Sessions, Rollback(s)
    PROVE  KInv'
  <1>1. /\ db \in AccountType /\ DOMAIN tx = Sessions
    BY DEF KInv, TypeOK
  <1>2. /\ tx' = [tx EXCEPT ![s] = Idle] /\ db' = db /\ sent' = sent
        /\ today' = today /\ utc' = utc
    BY DEF Rollback
  <1>3. ~Holds(Idle) /\ Idle.held = {}
    BY DEF Holds, Idle
  <1>4. /\ DOMAIN tx' = Sessions /\ tx'[s] = Idle
        /\ \A o \in Sessions \ {s} : tx'[o] = tx[o]
    BY <1>1, <1>2
  <1> HIDE DEF Idle
  <1> QED
    BY <1>2, <1>3, <1>4 DEF KInv, TypeOK, RowsHeldOnce, LockedIsCurrent

\* A session that goes on takes rows that nobody else holds.
LEMMA ProceedKInv ==
    ASSUME KInv, NEW s \in Sessions, NEW t, NEW pc, Proceed(s, t, pc),
           NEW new,
           new = [t EXCEPT !.pc = pc, !.held = tx[s].held \cup Wants(s)],
           new.held = tx[s].held \cup Wants(s),
           Transaction(new),
           Holds(new) => StatsRow \in new.held /\ Agree(new.base, db)
    PROVE  KInv'
  <1>1. db \in AccountType /\ DOMAIN tx = Sessions
    BY DEF KInv, TypeOK
  <1>2. /\ tx' = [tx EXCEPT ![s] = new] /\ db' = db /\ sent' = sent
        /\ today' = today /\ utc' = utc
    BY DEF Proceed
  <1>3. /\ DOMAIN tx' = Sessions /\ tx'[s] = new
        /\ \A o \in Sessions \ {s} : tx'[o] = tx[o]
    BY <1>1, <1>2
  <1>4. ASSUME NEW o \in Sessions, o # s
        PROVE  new.held \cap tx[o].held = {}
    <2>1. Wants(s) \cap tx[o].held = {}
      BY <1>4 DEF Proceed, Waits, HeldByOthers
    <2>2. tx[s].held \cap tx[o].held = {}
      BY <1>4 DEF KInv, RowsHeldOnce
    <2> QED
      BY <2>1, <2>2
  <1>5. RowsHeldOnce'
    <2> SUFFICES ASSUME NEW o \in Sessions, NEW p \in Sessions, o # p
                 PROVE  tx'[o].held \cap tx'[p].held = {}
      BY DEF RowsHeldOnce
    <2>1. CASE o = s
      BY <1>3, <1>4, <2>1
    <2>2. CASE p = s
      BY <1>3, <1>4, <2>2
    <2>3. CASE o # s /\ p # s
      BY <1>3, <2>3 DEF KInv, RowsHeldOnce
    <2> QED
      BY <2>1, <2>2, <2>3
  <1> QED
    BY <1>2, <1>3, <1>5 DEF KInv, TypeOK, LockedIsCurrent

-----------------------------------------------------------------------------
\* What a session has read of the committed account is sound, whatever it knew
\* of the user and of the plans before.
LEMMA ReadSound ==
    ASSUME KInv, NEW read, Money(read) = Money(db), read.days = db.days
    PROVE  /\ Agree(read, db) /\ Agree(db, read)
           /\ Sound(read) /\ FreezesAccounted(read)
  <1>1. Agree(read, db) /\ Agree(db, read)
    BY DEF Agree, Paid
  <1> QED
    BY <1>1, AgreeSound DEF KInv

\* n is the transaction t with another step, read and work.
Resumed(n, t, pc, held, base, work) ==
    /\ DOMAIN n = Parts
    /\ n.pc = pc /\ n.req = t.req /\ n.held = held
    /\ n.base = base /\ n.w = work

LEMMA Resumes ==
    ASSUME NEW t, DOMAIN t = Parts, NEW pc, NEW held, NEW base, NEW work
    PROVE  /\ Resumed([[t EXCEPT !.base = base, !.w = work]
                          EXCEPT !.pc = pc, !.held = held],
                      t, pc, held, base, work)
           /\ Resumed([[t EXCEPT !.w = work] EXCEPT !.pc = pc, !.held = held],
                      t, pc, held, t.base, work)
           /\ Resumed([t EXCEPT !.pc = pc, !.held = held],
                      t, pc, held, t.base, t.w)
  BY DEF Resumed, Parts

\* The session of a step that is not idle runs a transaction.
LEMMA RunsTransaction ==
    ASSUME TypeOK, NEW s \in Sessions, tx[s].pc # "idle"
    PROVE  Transaction(tx[s])
  BY DEF TypeOK, Idle

LEMMA SettleKInv ==
    ASSUME KInv, NEW s \in Sessions, Settle(s)
    PROVE  KInv'
  <1> DEFINE t == tx[s]
             read == [db EXCEPT !.plans = t.base.plans, !.zone = t.base.zone,
                                !.study_week = t.base.study_week]
             work == SettleAll(read)
             held == t.held \cup Wants(s)
             new == [[t EXCEPT !.base = read, !.w = work]
                        EXCEPT !.pc = "settled", !.held = held]
  <1>1. /\ t.pc = "begun" /\ t.req.op = "log"
        /\ Proceed(s, [t EXCEPT !.base = read, !.w = work], "settled")
    BY DEF Settle, Running
  <1>2. Transaction(t) /\ db \in AccountType /\ today \in Dates
    BY <1>1, RunsTransaction DEF KInv, TypeOK
  <1>3. /\ t.base \in AccountType /\ HasPlan(t.base) /\ Asked(t.req)
        /\ DOMAIN t = Parts
    BY <1>1, <1>2 DEF Transaction
  <1>4. /\ read \in AccountType /\ Money(read) = Money(db)
        /\ read.days = db.days /\ read.plans = t.base.plans
    BY <1>2, <1>3 DEF AccountType, Money
  <1> HIDE DEF read
  <1>5. /\ Agree(read, db) /\ Sound(read) /\ FreezesAccounted(read)
        /\ HasPlan(read)
    BY <1>3, <1>4, ReadSound, SamePlan
  <1>6. /\ Worked(read, work) /\ work.plans = read.plans
        /\ work.events = read.events
    BY <1>2, <1>4, <1>5, SettleAllWorked
  <1> HIDE DEF work
  <1>7. StatsRow \in held
    BY <1>1 DEF Wants, Running, LockStats
  <1> HIDE DEF held
  <1>8. Resumed(new, t, "settled", held, read, work)
    BY <1>3, Resumes
  <1>9. new = [[t EXCEPT !.base = read, !.w = work]
                  EXCEPT !.pc = "settled", !.held = held]
    OBVIOUS
  <1> HIDE DEF new
  <1>10. Transaction(new) /\ new.held = held /\ new.base = read
    BY <1>1, <1>3, <1>4, <1>5, <1>6, <1>8 DEF Transaction, Resumed, Worked
  <1> HIDE DEF t
  <1> QED
    BY <1>1, <1>5, <1>7, <1>9, <1>10, ProceedKInv DEF held, t

LEMMA FlushKInv ==
    ASSUME KInv, NEW s \in Sessions, FlushSettlement(s)
    PROVE  KInv'
  <1> DEFINE t == tx[s]
             held == t.held \cup Wants(s)
             new == [t EXCEPT !.pc = "flushed", !.held = held]
  <1>1. t.pc = "settled" /\ t.req.op = "log" /\ Proceed(s, t, "flushed")
    BY DEF FlushSettlement, Running
  <1>2. Transaction(t)
    BY <1>1, RunsTransaction DEF KInv
  <1>3. StatsRow \in held /\ Agree(t.base, db)
    BY <1>1 DEF KInv, LockedIsCurrent, Holds
  <1> HIDE DEF held
  <1>4. Resumed(new, t, "flushed", held, t.base, t.w)
    BY <1>2, Resumes DEF Transaction
  <1>5. new = [t EXCEPT !.pc = "flushed", !.held = held]
    OBVIOUS
  <1> HIDE DEF new
  <1>6. Transaction(new) /\ new.held = held /\ new.base = t.base
    BY <1>1, <1>2, <1>4 DEF Transaction, Resumed
  <1> HIDE DEF t
  <1> QED
    BY <1>1, <1>3, <1>5, <1>6, ProceedKInv DEF held, t

\* A replayed key commits the settlement alone.
LEMMA ReplayKInv ==
    ASSUME KInv, NEW s \in Sessions, LogReplay(s)
    PROVE  KInv'
  <1> DEFINE t == tx[s]
             held == t.held \cup Wants(s)
             new == [t EXCEPT !.pc = "commit", !.held = held]
  <1>1. t.pc = "flushed" /\ t.req.op = "log" /\ Proceed(s, t, "commit")
    BY DEF LogReplay, Running
  <1>2. Transaction(t)
    BY <1>1, RunsTransaction DEF KInv
  <1>3. StatsRow \in held /\ Agree(t.base, db)
    BY <1>1 DEF KInv, LockedIsCurrent, Holds
  <1> HIDE DEF held
  <1>4. Resumed(new, t, "commit", held, t.base, t.w)
    BY <1>2, Resumes DEF Transaction
  <1>5. new = [t EXCEPT !.pc = "commit", !.held = held]
    OBVIOUS
  <1> HIDE DEF new
  <1>6. Transaction(new) /\ new.held = held /\ new.base = t.base
    BY <1>1, <1>2, <1>4 DEF Transaction, Resumed, Worked, Locking
  <1> HIDE DEF t
  <1> QED
    BY <1>1, <1>3, <1>5, <1>6, ProceedKInv DEF held, t

\* The plan of a log is the active one, and reading it afresh disturbs nothing
\* that was settled.
LEMMA ActivePlanRead ==
    ASSUME KInv, NEW t, Transaction(t), t.pc = "flushed", HasPlan(db)
    PROVE  LET u == WithActivePlan(t)
           IN  /\ DOMAIN u = Parts /\ u.req = t.req
               /\ u.base \in AccountType /\ u.w.plans = u.base.plans
               /\ HasPlan(u.base)
               /\ u.base.events = t.base.events /\ u.w.events = t.base.events
               /\ u.base.days = t.base.days /\ u.w.days = t.w.days
               /\ u.base.total_units_completed = t.base.total_units_completed
               /\ u.w.total_units_completed = t.w.total_units_completed
               /\ u = t \/ u.base.plans = db.plans
               /\ Agree(t.base, db) => Agree(u.base, db)
               /\ Worked(u.base, u.w)
  <1> DEFINE u == WithActivePlan(t)
  <1>0. /\ t.base \in AccountType /\ t.w \in AccountType /\ HasPlan(t.base)
        /\ t.w.plans = t.base.plans /\ Worked(t.base, t.w)
        /\ t.w.events = t.base.events /\ DOMAIN t = Parts
    BY DEF Transaction
  <1>1. CASE PlanId(t.base) \in ActivePlans(db)
    <2>1. u = t
      BY <1>1 DEF WithActivePlan
    <2> QED
      BY <1>0, <2>1
  <1>2. CASE ~(PlanId(t.base) \in ActivePlans(db))
    <2> DEFINE base == [t.base EXCEPT !.plans = db.plans]
               work == [t.w EXCEPT !.plans = db.plans]
    <2>1. u = [t EXCEPT !.base.plans = db.plans, !.w.plans = db.plans]
      BY <1>2 DEF WithActivePlan
    <2>2. /\ DOMAIN u = Parts /\ u.req = t.req
          /\ u.base = base /\ u.w = work
      BY <1>0, <2>1 DEF Parts
    <2>3. db.plans \in Seq(StudyPlan)
      BY DEF KInv, TypeOK, AccountType
    <2>4. /\ base \in AccountType /\ base.plans = db.plans
          /\ Money(base) = Money(t.base) /\ base.days = t.base.days
          /\ base.events = t.base.events
          /\ base.total_units_completed = t.base.total_units_completed
      BY <1>0, <2>3 DEF AccountType, Money
    <2>5. /\ work \in AccountType /\ work.plans = db.plans
          /\ Money(work) = Money(t.w) /\ work.days = t.w.days
          /\ work.events = t.w.events
          /\ work.total_units_completed = t.w.total_units_completed
      BY <1>0, <2>3 DEF AccountType, Money
    <2> HIDE DEF base, work
    <2>6. HasPlan(base)
      BY <2>4, SamePlan
    <2>7. Agree(t.base, db) => Agree(base, db)
      BY <2>4 DEF Agree, Paid
    <2>8. Agree(t.w, work)
      BY <2>5 DEF Agree, Paid
    <2>9. Worked(base, work)
      <3>1. Sound(work) /\ FreezesAccounted(work)
        BY <1>0, <2>8, AgreeSound DEF Worked
      <3>2. Judges(base, work, Dates)
        BY <1>0, <2>4, <2>5 DEF Worked, Judges, Resolved
      <3>3. Gains(base, work)
        BY <1>0, <2>4, <2>5
           DEF Worked, Gains, Money, NewFrozen, NewDays, ResolvedDays,
               Resolved, Points
      <3>4. Grows(base, work)
        BY <1>0, <2>4, <2>5 DEF Worked, Grows, Money
      <3> QED
        BY <2>5, <3>1, <3>2, <3>3, <3>4 DEF Worked
    <2> QED
      BY <1>0, <2>2, <2>4, <2>5, <2>6, <2>7, <2>9
  <1> QED
    BY <1>1, <1>2
\* A log adds one event of the day, and its units to the day and the total.
Counted(a, b, event, key, d) ==
    /\ b.events = Append(a.events, event)
    /\ event.key = key /\ event.plan_id \in DOMAIN a.plans
    /\ event.credited_local_date = d
    /\ DOMAIN b.plans = DOMAIN a.plans
    /\ b.total_units_completed = a.total_units_completed + event.units
    /\ \A e \in Dates :
          /\ b.days[e].completed_units =
                a.days[e].completed_units + IF e = d THEN event.units ELSE 0
          /\ HasDay(a, e) => HasDay(b, e)

\* It adds them to the cursor that its session has read as well.
Logged(a, b, event, key, d) ==
    /\ Counted(a, b, event, key, d)
    /\ \A i \in DOMAIN a.plans :
          b.plans[i].current_ordinal =
             a.plans[i].current_ordinal
             + IF i = event.plan_id THEN event.units ELSE 0

LEMMA LogStudyMoves ==
    ASSUME NEW a \in AccountType, NEW d \in Dates, NEW units \in Nat,
           NEW key \in RequestKeys, Sound(a), HasPlan(a), CanLog(a, d)
    PROVE  \E event \in StudyEvent :
              Logged(a, LogStudy(a, d, units, key), event, key, d)
  <1> DEFINE b == LogStudy(a, d, units, key)
             i == PlanId(a)
             left == Plan(a).mishnayot_count - Plan(a).current_ordinal
             n == IF units < left THEN units ELSE left
             event == [key |-> key, plan_id |-> i, credited_local_date |-> d,
                       units |-> n, from_ordinal |-> Plan(a).current_ordinal]
  <1>1. Logs(a, b, d, n, key, units >= left)
    BY LogStudyLogs
  <1>2. /\ Plan(a).current_ordinal \in Nat /\ Plan(a).mishnayot_count \in Nat
        /\ i \in DOMAIN a.plans
    BY PlanExists DEF StudyPlan, ActivePlans
  <1>3. n \in Nat
    BY <1>2 DEF CanLog
  <1> HIDE DEF n, left, b
  <1>4. i \in Nat
    BY <1>2 DEF AccountType
  <1>5. event \in StudyEvent
    BY <1>2, <1>3, <1>4 DEF StudyEvent
  <1>6. /\ b.events = Append(a.events, event)
        /\ DOMAIN b.plans = DOMAIN a.plans
        /\ \A j \in DOMAIN a.plans \ {i} : b.plans[j] = a.plans[j]
        /\ b.plans[i].current_ordinal = a.plans[i].current_ordinal + n
    BY <1>1 DEF Logs, Plan
  <1>7. \A j \in DOMAIN a.plans : a.plans[j].current_ordinal \in Nat
    <2>1. \A j \in DOMAIN a.plans : a.plans[j] \in StudyPlan
      BY DEF AccountType
    <2> QED
      BY <2>1 DEF StudyPlan
  <1>8. /\ b.total_units_completed = a.total_units_completed + n
        /\ \A e \in Dates \ {d} : b.days[e] = a.days[e]
        /\ b.days[d].completed_units = a.days[d].completed_units + n
        /\ \/ b.days[d].status = a.days[d].status
           \/ b.days[d].status = "completed"
    BY <1>1 DEF Logs
  <1>9. \A e \in Dates : a.days[e].completed_units \in Nat
    <2>1. \A e \in Dates : a.days[e] \in StudyDay
      BY DEF AccountType
    <2> QED
      BY <2>1 DEF StudyDay
  <1>10. \A e \in Dates :
            /\ b.days[e].completed_units =
                  a.days[e].completed_units + IF e = d THEN n ELSE 0
            /\ HasDay(a, e) => HasDay(b, e)
    BY <1>3, <1>8, <1>9 DEF HasDay
  <1>11. Logged(a, b, event, key, d)
    BY <1>2, <1>6, <1>7, <1>8, <1>10 DEF Logged, Counted
  <1> QED
    BY <1>5, <1>11 DEF b

\* A log commits the settlement and the units.
LEMMA LogUnitsKInv ==
    ASSUME KInv, NEW s \in Sessions, LogUnits(s)
    PROVE  KInv'
  <1> DEFINE t == tx[s]
             u == WithActivePlan(t)
             work == LogStudy(u.w, today, t.req.units, t.req.key)
             held == t.held \cup Wants(s)
             new == [[u EXCEPT !.w = work] EXCEPT !.pc = "commit",
                                                  !.held = held]
  <1>1. t.pc = "flushed" /\ t.req.op = "log" /\ HasPlan(db)
    BY DEF LogUnits, Running
  <1>2. Transaction(t) /\ today \in Dates
    BY <1>1, RunsTransaction DEF KInv, TypeOK
  <1>3. t.req.units \in Nat /\ t.req.key \in RequestKeys
    BY <1>1, <1>2 DEF Transaction, Asked
  <1>4. /\ DOMAIN u = Parts /\ u.req = t.req /\ u.base \in AccountType
        /\ u.w.plans = u.base.plans /\ HasPlan(u.base)
        /\ u.w.events = u.base.events
        /\ Agree(t.base, db) => Agree(u.base, db)
        /\ Worked(u.base, u.w)
    BY <1>1, <1>2, ActivePlanRead
  <1>5. StatsRow \in held /\ Agree(t.base, db)
    BY <1>1 DEF KInv, LockedIsCurrent, Holds
  <1>6. CASE CanLog(u.w, today)
    <2>1. Proceed(s, [u EXCEPT !.w = work], "commit")
      BY <1>4, <1>6 DEF LogUnits
    <2>2. HasPlan(u.w) /\ u.w \in AccountType /\ Sound(u.w)
      BY <1>4, SamePlan DEF Worked
    <2>3. Worked(u.base, work)
      BY <1>2, <1>3, <1>4, <1>6, <2>2, LogStudyWorked
    <2>4. DOMAIN u.base.plans \subseteq DOMAIN work.plans
      <3>1. PICK event \in StudyEvent :
               Logged(u.w, work, event, t.req.key, today)
        BY <1>2, <1>3, <1>6, <2>2, LogStudyMoves
      <3> QED
        BY <1>4, <3>1 DEF Logged, Counted
    <2> HIDE DEF work, held, u
    <2>5. Resumed(new, u, "commit", held, u.base, work)
      BY <1>4, Resumes
    <2>6. new = [[u EXCEPT !.w = work] EXCEPT !.pc = "commit", !.held = held]
      OBVIOUS
    <2> HIDE DEF new
    <2>7. Transaction(new) /\ new.held = held /\ new.base = u.base
      BY <1>1, <1>2, <1>4, <2>3, <2>4, <2>5
         DEF Transaction, Resumed, Worked, Locking
    <2>8. new = [[u EXCEPT !.w = work]
                    EXCEPT !.pc = "commit", !.held = tx[s].held \cup Wants(s)]
      BY <2>6 DEF held
    <2> HIDE DEF t
    <2> QED
      BY <1>4, <1>5, <2>1, <2>7, <2>8, ProceedKInv DEF held, t
  <1>7. CASE ~CanLog(u.w, today)
    <2>1. Rollback(s)
      BY <1>7 DEF LogUnits
    <2> QED
      BY <2>1, RollbackKInv
  <1> QED
    BY <1>6, <1>7

LEMMA BuyFreezeKInv ==
    ASSUME KInv, NEW s \in Sessions, BuyFreeze(s)
    PROVE  KInv'
  <1> DEFINE t == tx[s]
             work == Purchase(db, NoKey)
             held == t.held \cup Wants(s)
             new == [[t EXCEPT !.base = db, !.w = work]
                        EXCEPT !.pc = "commit", !.held = held]
  <1>1. t.pc = "begun" /\ t.req.op = "purchase"
    BY DEF BuyFreeze, Running
  <1>2. /\ Transaction(t) /\ db \in AccountType /\ Sound(db)
        /\ FreezesAccounted(db)
    BY <1>1, RunsTransaction DEF KInv, TypeOK
  <1>3. NoKey \in RequestKeys /\ Agree(db, db)
    BY DEF RequestKeys, Agree
  <1>4. CASE CanPurchase(db)
    <2>1. Proceed(s, [t EXCEPT !.base = db, !.w = work], "commit")
      BY <1>4 DEF BuyFreeze
    <2>2. /\ work \in AccountType /\ Sound(work) /\ FreezesAccounted(work)
          /\ Grows(db, work)
          /\ Bought(db, work) \/ PaysNothing(db, work)
      BY <1>2, <1>3, <1>4, PurchaseSound, PurchaseEffects, PurchasePays,
         PurchasePosts, PostsOnceGrows
    <2>3. work.plans = db.plans /\ work.events = db.events
      BY <1>2 DEF Purchase, PostTransaction, AccountType
    <2>4. Worked(db, work) \/ Bought(db, work)
      <3> HIDE DEF work
      <3>1. ASSUME PaysNothing(db, work) PROVE Worked(db, work)
        <4>1. Judges(db, work, Dates) /\ Gains(db, work)
          BY <1>2, <2>2, <3>1, GainsSelf DEF PaysNothing, Judges
        <4> QED
          BY <2>2, <4>1 DEF Worked
      <3> QED
        BY <2>2, <3>1
    <2>5. StatsRow \in held
      BY <1>1 DEF Wants, Running, LockStats
    <2> HIDE DEF work, held
    <2>6. Resumed(new, t, "commit", held, db, work)
      BY <1>2, Resumes DEF Transaction
    <2>7. new = [[t EXCEPT !.base = db, !.w = work]
                    EXCEPT !.pc = "commit", !.held = held]
      OBVIOUS
    <2> HIDE DEF new
    <2>8. Transaction(new) /\ new.held = held /\ new.base = db
      <3>1. Keeps(db, work)
        BY <2>3 DEF Keeps
      <3> QED
        BY <1>1, <1>2, <2>2, <2>3, <2>4, <2>6, <3>1
           DEF Transaction, Resumed, Locking
    <2> HIDE DEF t
    <2> QED
      BY <1>3, <2>1, <2>5, <2>7, <2>8, ProceedKInv DEF held, t
  <1>5. CASE ~CanPurchase(db)
    BY <1>5, RollbackKInv DEF BuyFreeze
  <1> QED
    BY <1>4, <1>5

-----------------------------------------------------------------------------
\* The requests that lock nothing agree with what they read on every verdict
\* and on all the money.
LEMMA LightKInv ==
    ASSUME KInv, NEW s \in Sessions, NEW read \in AccountType,
           NEW work \in AccountType, tx[s].pc = "begun",
           tx[s].req.op \notin Locking,
           Proceed(s, [tx[s] EXCEPT !.base = read, !.w = work], "commit"),
           tx[s].req.op = "update" => HasPlan(read),
           DOMAIN read.plans \subseteq DOMAIN work.plans, Agree(read, work),
           Keeps(read, work)
    PROVE  KInv'
  <1> DEFINE t == tx[s]
             held == t.held \cup Wants(s)
             new == [[t EXCEPT !.base = read, !.w = work]
                        EXCEPT !.pc = "commit", !.held = held]
  <1>1. Transaction(t)
    BY RunsTransaction DEF KInv
  <1> HIDE DEF held
  <1>2. Resumed(new, t, "commit", held, read, work)
    BY <1>1, Resumes DEF Transaction
  <1>3. new = [[t EXCEPT !.base = read, !.w = work]
                  EXCEPT !.pc = "commit", !.held = held]
    OBVIOUS
  <1> HIDE DEF new
  <1>4. Transaction(new) /\ new.held = held /\ ~Holds(new)
    BY <1>1, <1>2 DEF Transaction, Resumed, Locking, Holds
  <1> QED
    BY <1>3, <1>4, ProceedKInv DEF held

LEMMA ChangeGoalKeeps ==
    ASSUME NEW a \in AccountType, NEW goal, NEW d
    PROVE  LET b == ChangeGoal(a, goal, d)
           IN  DOMAIN b.plans = DOMAIN a.plans /\ Keeps(a, b)
  <1> DEFINE b == ChangeGoal(a, goal, d)
             i == PlanId(a)
  <1>1. /\ b.plans = [a.plans EXCEPT ![i].daily_goal = goal]
        /\ b.events = a.events
    BY DEF ChangeGoal, AccountType
  <1>2. \A j \in DOMAIN a.plans : a.plans[j] \in StudyPlan
    BY DEF AccountType
  <1> HIDE DEF b, i
  <1>3. DOMAIN b.plans = DOMAIN a.plans
    BY <1>1
  <1>4. \A j \in DOMAIN a.plans :
           b.plans[j].current_ordinal = a.plans[j].current_ordinal
    BY <1>1, <1>2 DEF StudyPlan
  <1> QED
    BY <1>1, <1>3, <1>4 DEF Keeps, b

LEMMA ChangeGoalKInv ==
    ASSUME KInv, NEW s \in Sessions, ChangeGoalNow(s)
    PROVE  KInv'
  <1> DEFINE t == tx[s]
             read == [db EXCEPT !.plans = t.base.plans]
             work == ChangeGoal(read, t.req.goal, today)
  <1>1. /\ t.pc = "begun" /\ t.req.op = "update"
        /\ Proceed(s, [t EXCEPT !.base = read, !.w = work], "commit")
    BY DEF ChangeGoalNow, Running
  <1>2. Transaction(t) /\ db \in AccountType /\ today \in Dates
    BY <1>1, RunsTransaction DEF KInv, TypeOK
  <1>3. /\ t.base \in AccountType /\ HasPlan(t.base)
        /\ t.req.goal \in Nat \ {0}
    BY <1>1, <1>2 DEF Transaction, Asked
  <1>4. /\ read \in AccountType /\ Money(read) = Money(db)
        /\ read.days = db.days /\ read.plans = t.base.plans
    BY <1>2, <1>3 DEF AccountType, Money
  <1> HIDE DEF read
  <1>5. Sound(read) /\ HasPlan(read)
    BY <1>3, <1>4, ReadSound, SamePlan
  <1>6. work \in AccountType /\ Agree(read, work)
    BY <1>2, <1>3, <1>4, <1>5, ChangeGoalSound, ChangeGoalAgrees
  <1>7. DOMAIN work.plans = DOMAIN read.plans /\ Keeps(read, work)
    BY <1>4, ChangeGoalKeeps
  <1> HIDE DEF work
  <1> QED
    BY <1>1, <1>4, <1>5, <1>6, <1>7, LightKInv DEF Locking

\* A new plan disturbs neither a verdict nor the money, and keeps the others.
LEMMA SwitchTractateAgrees ==
    ASSUME NEW a \in AccountType, NEW goal \in Nat \ {0},
           NEW size \in Nat \ {0}, NEW utcDate \in Dates,
           NEW created \in Dates, Sound(a), OneActive(a)
    PROVE  LET b == SwitchTractate(a, goal, size, 0, utcDate, created)
           IN  /\ Agree(a, b) /\ DOMAIN a.plans \subseteq DOMAIN b.plans
               /\ Keeps(a, b)
  <1> DEFINE left == Abandon(a)
             made == CreatePlan(left, goal, size, utcDate, created)
             placed == SetPosition(made, 0)
             b == ChangeGoal(placed, goal, utcDate)
             new == Len(a.plans) + 1
  <1>0. /\ a.plans \in Seq(StudyPlan) /\ Len(a.plans) \in Nat
        /\ DOMAIN a.plans = 1..Len(a.plans)
        /\ \A j \in DOMAIN a.plans : a.plans[j] \in StudyPlan
    BY DEF AccountType
  <1>1. left \in AccountType /\ Sound(left)
    BY AbandonSound
  <1>2. /\ Money(left) = Money(a) /\ left.days = a.days
        /\ left.events = a.events
        /\ DOMAIN left.plans = DOMAIN a.plans /\ Len(left.plans) = Len(a.plans)
        /\ \A j \in DOMAIN a.plans :
              left.plans[j].current_ordinal = a.plans[j].current_ordinal
        /\ ~HasPlan(left)
    <2>1. CASE ~HasPlan(a)
      BY <2>1 DEF Abandon
    <2>2. CASE HasPlan(a)
      <3> DEFINE i == PlanId(a)
      <3>1. i \in ActivePlans(a) /\ i \in DOMAIN a.plans
        BY <2>2 DEF ActivePlans, HasPlan, PlanId
      <3>2. left = [a EXCEPT !.plans[i].status = "abandoned"]
        BY <2>2 DEF Abandon
      <3> HIDE DEF i, left
      <3>3. /\ left.plans = [a.plans EXCEPT ![i].status = "abandoned"]
            /\ Money(left) = Money(a) /\ left.days = a.days
            /\ left.events = a.events
        BY <3>2 DEF AccountType, Money
      <3>4. DOMAIN left.plans = DOMAIN a.plans /\ Len(left.plans) = Len(a.plans)
        <4>1. left.plans \in Seq(StudyPlan)
          BY <1>1 DEF AccountType, left
        <4>2. DOMAIN left.plans = DOMAIN a.plans
          BY <3>3
        <4> QED
          BY <1>0, <4>1, <4>2
      <3>5. \A j \in DOMAIN a.plans :
               /\ left.plans[j].current_ordinal = a.plans[j].current_ordinal
               /\ j # i => left.plans[j].status = a.plans[j].status
               /\ j = i => left.plans[j].status = "abandoned"
        <4> SUFFICES ASSUME NEW j \in DOMAIN a.plans
                     PROVE  /\ left.plans[j].current_ordinal
                                   = a.plans[j].current_ordinal
                            /\ j # i => left.plans[j].status
                                           = a.plans[j].status
                            /\ j = i => left.plans[j].status = "abandoned"
          OBVIOUS
        <4>1. a.plans[j] \in StudyPlan
          BY <1>0
        <4>2. CASE j = i
          BY <3>3, <4>1, <4>2 DEF StudyPlan
        <4>3. CASE j # i
          BY <3>3, <4>1, <4>3
        <4> QED
          BY <4>2, <4>3
      <3>6. ~HasPlan(left)
        BY <3>1, <3>4, <3>5 DEF HasPlan, ActivePlans, OneActive
      <3> QED
        BY <3>3, <3>4, <3>5, <3>6
    <2> QED
      BY <2>1, <2>2
  <1> HIDE DEF left
  <1>3. made \in AccountType /\ Sound(made) /\ HasPlan(made)
    BY <1>1, CreatePlanSound
  <1>4. /\ Money(made) = Money(left) /\ made.days = left.days
        /\ made.events = left.events
        /\ DOMAIN made.plans = DOMAIN left.plans \cup {new}
        /\ \A j \in DOMAIN left.plans : made.plans[j] = left.plans[j]
    <2>1. left.plans \in Seq(StudyPlan)
      BY <1>1 DEF AccountType
    <2>2. PICK plan : made = [left EXCEPT !.plans = Append(@, plan)]
      BY DEF CreatePlan
    <2>3. /\ DOMAIN Append(left.plans, plan) = DOMAIN left.plans \cup {new}
          /\ \A j \in DOMAIN left.plans :
                Append(left.plans, plan)[j] = left.plans[j]
      BY <1>2, <2>1
    <2>4. /\ made.plans = Append(left.plans, plan) /\ made.days = left.days
          /\ Money(made) = Money(left) /\ made.events = left.events
      BY <1>1, <2>2 DEF AccountType, Money
    <2> QED
      BY <2>3, <2>4
  <1> HIDE DEF made
  <1>5. PlanId(made) = new
    <2>1. PlanId(made) \in ActivePlans(made)
      BY <1>3 DEF HasPlan, PlanId
    <2>2. ActivePlans(made) \subseteq {new}
      BY <1>2, <1>4 DEF ActivePlans, HasPlan
    <2> QED
      BY <2>1, <2>2
  <1>6. placed \in AccountType
    BY <1>3, SetPositionSound
  <1>7. /\ Money(placed) = Money(made) /\ placed.days = made.days
        /\ placed.events = made.events
        /\ DOMAIN placed.plans = DOMAIN made.plans
        /\ \A j \in DOMAIN made.plans :
              placed.plans[j].current_ordinal =
                 IF j = new THEN 0 ELSE made.plans[j].current_ordinal
    <2>1. placed = [made EXCEPT !.plans[new].current_ordinal = 0]
      BY <1>5 DEF SetPosition
    <2>2. \A j \in DOMAIN made.plans : made.plans[j] \in StudyPlan
      <3>1. made.plans \in Seq(StudyPlan)
        BY <1>3 DEF AccountType
      <3> QED
        BY <3>1
    <2> HIDE DEF placed, new
    <2>3. /\ placed.plans = [made.plans EXCEPT ![new].current_ordinal = 0]
          /\ Money(placed) = Money(made) /\ placed.days = made.days
          /\ placed.events = made.events
      BY <1>3, <2>1 DEF AccountType, Money
    <2> QED
      BY <2>2, <2>3 DEF StudyPlan
  <1> HIDE DEF placed
  <1>8. Agree(placed, b)
    BY <1>6, ChangeGoalAgrees
  <1>9. DOMAIN b.plans = DOMAIN placed.plans /\ Keeps(placed, b)
    BY <1>6, ChangeGoalKeeps
  <1>10. SwitchTractate(a, goal, size, 0, utcDate, created) = b
    BY DEF SwitchTractate, placed, made, left
  <1> HIDE DEF b
  <1>11. Agree(a, b)
    BY <1>2, <1>4, <1>7, <1>8 DEF Agree, Paid
  <1>12. new \notin DOMAIN a.plans
    BY <1>0
  <1> HIDE DEF new
  <1>13. Keeps(a, b)
    BY <1>2, <1>4, <1>7, <1>9, <1>12 DEF Keeps
  <1> QED
    BY <1>2, <1>4, <1>7, <1>9, <1>10, <1>11, <1>13

LEMMA SwitchKInv ==
    ASSUME KInv, NEW s \in Sessions, SwitchNow(s)
    PROVE  KInv'
  <1> DEFINE t == tx[s]
             req == t.req
             read == [db EXCEPT !.plans = t.base.plans]
             work == SwitchTractate(read, req.goal, req.size, 0, utc, today)
  <1>1. t.pc = "begun" /\ req.op = "switch"
    BY DEF SwitchNow, Running
  <1>2. /\ Transaction(t) /\ db \in AccountType /\ today \in Dates
        /\ utc \in Dates
    BY <1>1, RunsTransaction DEF KInv, TypeOK
  <1>3. /\ t.base \in AccountType /\ req.goal \in Nat \ {0}
        /\ req.size \in Nat \ {0} /\ OneActive(t.base)
    BY <1>1, <1>2 DEF Transaction, Asked
  <1>4. /\ read \in AccountType /\ Money(read) = Money(db)
        /\ read.days = db.days /\ read.plans = t.base.plans
    BY <1>2, <1>3 DEF AccountType, Money
  <1>5. CASE ActivePlans(db) \subseteq ActivePlans(t.base)
    <2>1. Proceed(s, [t EXCEPT !.base = read, !.w = work], "commit")
      BY <1>5 DEF SwitchNow
    <2> HIDE DEF read
    <2>2. Sound(read) /\ OneActive(read)
      BY <1>3, <1>4, ReadSound DEF OneActive, ActivePlans
    <2>3. /\ work \in AccountType /\ Agree(read, work)
          /\ DOMAIN read.plans \subseteq DOMAIN work.plans
          /\ Keeps(read, work)
      BY <1>2, <1>3, <1>4, <2>2, SwitchTractateSound, SwitchTractateAgrees
    <2> HIDE DEF work
    <2> QED
      BY <1>1, <1>4, <2>1, <2>3, LightKInv DEF Locking
  <1>6. CASE ~(ActivePlans(db) \subseteq ActivePlans(t.base))
    BY <1>6, RollbackKInv DEF SwitchNow
  <1> QED
    BY <1>5, <1>6

LEMMA StudyWeekKInv ==
    ASSUME KInv, NEW s \in Sessions, SetStudyWeek(s)
    PROVE  KInv'
  <1> DEFINE t == tx[s]
             read == [db EXCEPT !.study_week = t.base.study_week]
             chosen == [read EXCEPT !.study_week = t.req.week]
             goal == Plan(chosen).daily_goal
             work == IF HasPlan(read) THEN ChangeGoal(chosen, goal, today)
                     ELSE chosen
  <1>1. /\ t.pc = "begun" /\ t.req.op = "week"
        /\ Proceed(s, [t EXCEPT !.base = read, !.w = work], "commit")
    BY DEF SetStudyWeek, Running
  <1>2. Transaction(t) /\ db \in AccountType /\ today \in Dates
    BY <1>1, RunsTransaction DEF KInv, TypeOK
  <1>3. t.base \in AccountType /\ t.req.week \in StudyWeeks
    BY <1>1, <1>2 DEF Transaction, Asked
  <1>4. /\ read \in AccountType /\ Money(read) = Money(db)
        /\ read.days = db.days
    BY <1>2, <1>3 DEF AccountType, Money
  <1> HIDE DEF read
  <1>5. /\ chosen \in AccountType /\ Money(chosen) = Money(read)
        /\ chosen.days = read.days /\ chosen.plans = read.plans
        /\ chosen.events = read.events
    BY <1>3, <1>4 DEF AccountType, Money
  <1> HIDE DEF chosen
  <1>6. Sound(chosen) /\ Agree(read, chosen)
    BY <1>4, <1>5, ReadSound DEF Agree, Paid
  <1>7. /\ work \in AccountType /\ Agree(read, work)
        /\ DOMAIN work.plans = DOMAIN read.plans /\ Keeps(read, work)
    <2>1. CASE HasPlan(read)
      <3>1. HasPlan(chosen)
        BY <1>5, <2>1, SamePlan
      <3>2. goal \in Nat \ {0}
        BY <1>5, <3>1, PlanExists DEF StudyPlan
      <3> HIDE DEF goal
      <3>3. /\ work \in AccountType /\ Agree(chosen, work)
        BY <1>2, <1>5, <1>6, <2>1, <3>1, <3>2, ChangeGoalSound,
           ChangeGoalAgrees
      <3>4. DOMAIN work.plans = DOMAIN chosen.plans /\ Keeps(chosen, work)
        BY <1>5, <2>1, ChangeGoalKeeps
      <3> HIDE DEF work
      <3> QED
        BY <1>5, <1>6, <3>3, <3>4 DEF Agree, Keeps
    <2>2. CASE ~HasPlan(read)
      BY <1>5, <1>6, <2>2 DEF Keeps
    <2> QED
      BY <2>1, <2>2
  <1> HIDE DEF work
  <1> QED
    BY <1>1, <1>4, <1>7, LightKInv DEF Locking
-----------------------------------------------------------------------------
\* What a commit writes: the holder's work, or an account that agrees with the
\* one before.
LEMMA Commits ==
    ASSUME KInv, NEW s \in Sessions, Commit(s)
    PROVE  LET t == tx[s]
           IN  /\ Transaction(t) /\ db' = Written(db, t)
               /\ db' \in AccountType /\ Sound(db') /\ FreezesAccounted(db')
               /\ OneActive(db')
               /\ Holds(t) => Agree(t.base, db) /\ Agree(t.w, db')
               /\ ~Holds(t) => Agree(db, db')
  <1> DEFINE t == tx[s]
  <1>1. t.pc = "commit" /\ db' = Written(db, t)
    BY DEF Commit
  <1>2. Transaction(t) /\ db \in AccountType /\ Sound(db)
        /\ FreezesAccounted(db) /\ (Holds(t) => Agree(t.base, db))
    BY <1>1, RunsTransaction DEF KInv, TypeOK, LockedIsCurrent
  <1>3. /\ t.base \in AccountType /\ t.w \in AccountType
        /\ DOMAIN t.base.plans \subseteq DOMAIN t.w.plans
        /\ Holds(t) => Sound(t.w) /\ FreezesAccounted(t.w)
                       /\ Grows(t.base, t.w)
        /\ ~Holds(t) => Agree(t.base, t.w)
    BY <1>1, <1>2 DEF Transaction, Holds
  <1> HIDE DEF t
  <1>4. db' \in AccountType
    BY <1>1, <1>2, <1>3, WrittenParts
  <1>5. OneActive(db')
    BY <1>4, OneMeansSame DEF Commit
  <1>6. CASE Holds(t)
    <2>1. Agree(t.w, db')
      BY <1>1, <1>2, <1>3, <1>6, WrittenOver
    <2> QED
      BY <1>1, <1>2, <1>3, <1>4, <1>6, <1>5, <2>1, AgreeSound DEF t
  <1>7. CASE ~Holds(t)
    <2>1. Agree(db, db')
      BY <1>1, <1>2, <1>3, <1>7, WrittenBeside
    <2> QED
      BY <1>1, <1>2, <1>4, <1>7, <1>5, <2>1, AgreeSound DEF t
  <1> QED
    BY <1>6, <1>7

LEMMA CommitKInv ==
    ASSUME KInv, NEW s \in Sessions, Commit(s)
    PROVE  KInv'
  <1>1. /\ tx' = [tx EXCEPT ![s] = Idle] /\ sent' = sent
        /\ today' = today /\ utc' = utc
    BY DEF Commit
  <1>2. ~Holds(Idle) /\ Idle.held = {}
    BY DEF Holds, Idle
  <1>3. /\ DOMAIN tx = Sessions /\ tx'[s] = Idle /\ DOMAIN tx' = Sessions
        /\ \A o \in Sessions \ {s} : tx'[o] = tx[o]
    BY <1>1 DEF KInv, TypeOK
  <1>4. /\ db' \in AccountType /\ Sound(db') /\ FreezesAccounted(db')
        /\ OneActive(db')
        /\ ~Holds(tx[s]) => Agree(db, db')
    BY Commits
  <1>5. LockedIsCurrent'
    <2> SUFFICES ASSUME NEW o \in Sessions, Holds(tx'[o])
                 PROVE  StatsRow \in tx'[o].held /\ Agree(tx'[o].base, db')
      BY DEF LockedIsCurrent
    <2>1. o # s /\ tx'[o] = tx[o]
      BY <1>2, <1>3
    <2>2. StatsRow \in tx[o].held /\ Agree(tx[o].base, db)
      BY <2>1 DEF KInv, LockedIsCurrent
    <2>3. ~Holds(tx[s])
      BY <2>1, <2>2 DEF KInv, LockedIsCurrent, RowsHeldOnce
    <2> QED
      BY <1>4, <2>1, <2>2, <2>3 DEF Agree
  <1> HIDE DEF Idle
  <1>6. RowsHeldOnce'
    BY <1>2, <1>3 DEF KInv, RowsHeldOnce
  <1>7. TypeOK'
    BY <1>1, <1>3, <1>4 DEF KInv, TypeOK
  <1> QED
    BY <1>4, <1>5, <1>6, <1>7 DEF KInv

-----------------------------------------------------------------------------
\* The keys that a client can send now are keys.
LEMMA KeysNow ==
    ASSUME db \in AccountType, today \in Dates
    PROVE  RequestKeysNow \subseteq RequestKeys
  <1>1. today \in Nat /\ \A d \in 0..today : d \in Nat
    BY DEF Dates
  <1>2. ASSUME NEW n \in DOMAIN db.events, NEW d
        PROVE  UnitsShown(n, d) \in Nat
    <2> DEFINE S == {i \in 1..n : db.events[i].credited_local_date = d}
    <2>1. S \subseteq DOMAIN db.events
      BY DEF AccountType
    <2> HIDE DEF S
    <2>2. /\ MapThenSumSet(LAMBDA i : db.events[i].units, S)
                = SumOf(Units(db), S)
          /\ IsFiniteSet(S) /\ SumOf(Units(db), S) \in Int
          /\ \A i \in S : Units(db)[i] \in Nat
      BY <2>1, UnitsAreSums
    <2>3. IsFiniteSet({}) /\ SumOf(Units(db), {}) = 0
      BY SumUnfolds, FS_EmptySet
    <2>4. SumOf(Units(db), {}) <= SumOf(Units(db), S)
      BY <2>2, SumGrows
    <2> QED
      BY <2>2, <2>3, <2>4 DEF S, UnitsShown
  <1>3. \A d : Screens(d) \subseteq Nat
    BY <1>2 DEF Screens
  <1>4. \A d \in 0..today : \A n \in Screens(d) : n + 100 * d \in RequestKeys
    BY <1>1, <1>3 DEF RequestKeys
  <1>5. NoKey \in RequestKeys
    BY DEF RequestKeys
  <1>6. \A d \in 0..today : PageKeys(d) \subseteq RequestKeys
    BY <1>4 DEF PageKeys
  <1> QED
    BY <1>5, <1>6 DEF RequestKeysNow

LEMMA BeginsKInv ==
    ASSUME KInv, NEW s \in Sessions,
           \/ BeginLog(s) \/ BeginPurchase(s)
           \/ BeginUpdate(s) \/ BeginSwitch(s) \/ BeginWeek(s)
    PROVE  KInv'
  <1>1. db \in AccountType /\ today \in Dates
    BY DEF KInv, TypeOK
  <1>2. CASE BeginLog(s)
    <2>1. PICK units \in 1..MaxUnits, key \in RequestKeysNow :
             Begin(s, [op |-> "log", units |-> units, key |-> key])
      BY <1>2 DEF BeginLog
    <2>2. units \in Nat /\ key \in RequestKeys
      BY <1>1, KeysNow, BoundsAssumption
    <2>3. Asked([op |-> "log", units |-> units, key |-> key])
      BY <2>2 DEF Asked
    <2> QED
      BY <1>2, <2>1, <2>3, BeginKInv DEF BeginLog
  <1>3. CASE BeginPurchase(s)
    <2>1. Asked([op |-> "purchase"])
      BY DEF Asked
    <2> QED
      BY <1>3, <2>1, BeginKInv DEF BeginPurchase
  <1>4. CASE BeginUpdate(s)
    <2>1. PICK goal \in Goals : Begin(s, [op |-> "update", goal |-> goal])
      BY <1>4 DEF BeginUpdate
    <2>2. Asked([op |-> "update", goal |-> goal])
      BY GoalsAssumption DEF Asked
    <2> QED
      BY <1>4, <2>1, <2>2, BeginKInv DEF BeginUpdate
  <1>5. CASE BeginSwitch(s)
    <2>1. PICK goal \in Goals, size \in TractateSizes :
             Begin(s, [op |-> "switch", goal |-> goal, size |-> size])
      BY <1>5 DEF BeginSwitch
    <2>2. Asked([op |-> "switch", goal |-> goal, size |-> size])
      BY GoalsAssumption, TractateSizesAssumption DEF Asked
    <2> QED
      BY <2>1, <2>2, BeginKInv
  <1>6. CASE BeginWeek(s)
    <2>1. PICK week \in Weeks : Begin(s, [op |-> "week", week |-> week])
      BY <1>6 DEF BeginWeek
    <2>2. Asked([op |-> "week", week |-> week])
      BY WeeksAssumption DEF Asked
    <2> QED
      BY <2>1, <2>2, BeginKInv
  <1> QED
    BY <1>2, <1>3, <1>4, <1>5, <1>6

LEMMA NextKInv == KInv /\ [Next]_vars => KInv'
  <1> SUFFICES ASSUME KInv, [Next]_vars PROVE KInv'
    OBVIOUS
  <1>1. ASSUME NEW s \in Sessions,
               \/ BeginLog(s) \/ BeginPurchase(s)
               \/ BeginUpdate(s) \/ BeginSwitch(s) \/ BeginWeek(s)
        PROVE  KInv'
    BY <1>1, BeginsKInv
  <1>2. ASSUME NEW s \in Sessions, Serve(s) PROVE KInv'
    BY <1>2, SettleKInv, FlushKInv, ReplayKInv, LogUnitsKInv, BuyFreezeKInv,
       ChangeGoalKInv, SwitchKInv, StudyWeekKInv, CommitKInv, RollbackKInv
       DEF Serve, PlanGone, UniqueViolation, DeadlockVictim
  <1>3. ASSUME NEW s \in Sessions, Abort(s) PROVE KInv'
    BY <1>3, RollbackKInv DEF Abort
  <1>4. CASE Tick
    BY <1>4 DEF Tick, KInv, TypeOK, RowsHeldOnce, LockedIsCurrent
  <1>5. CASE UNCHANGED vars
    BY <1>5 DEF vars, KInv, TypeOK, RowsHeldOnce, LockedIsCurrent
  <1> QED
    BY <1>1, <1>2, <1>3, <1>4, <1>5 DEF Next, Done

\* However requests overlap, fail and are chosen as the victim of a deadlock,
\* the ledger adds up to the balance, no verdict is paid twice, and the
\* freezes owned and used are the ones bought (ledger.py, settlement.py,
\* study.py, shop.py under lock_stats).
THEOREM AccountAlwaysSound == Spec => []AccountSound
  <1>1. KInv => AccountSound
    BY DEF KInv, Sound, AccountSound
  <1> QED
    BY <1>1, InitKInv, NextKInv, PTL DEF Spec

-----------------------------------------------------------------------------
\* The page of day 0 is open, and its line is not written yet.
LEMMA InitBook == Init => Book!Init
  <1> SUFFICES ASSUME Init PROVE Book!Init
    OBVIOUS
  <1>1. PICK week \in Weeks, zone \in Zones, goal \in Goals,
             size \in TractateSizes :
           db = GetOrCreateDay(CreatePlan(NewAccount(week, zone), goal,
                                          size, 0, 0), 0)
    BY DEF Init
  <1> DEFINE planned == CreatePlan(NewAccount(week, zone), goal, size, 0, 0)
  <1>2. /\ planned.total_points = 0 /\ planned.quantity = 0
        /\ planned.days = [d \in Dates |-> NoDay]
    BY DEF CreatePlan, NewAccount
  <1> HIDE DEF planned
  <1>3. /\ db.total_points = planned.total_points
        /\ db.quantity = planned.quantity
        /\ \A d \in Dates : db.days[d].status \in {planned.days[d].status,
                                                   "pending"}
    BY <1>1, <1>2 DEF GetOrCreateDay, planned
  <1>4. \A d \in Dates : db.days[d].status \notin TerminalStatuses
    BY <1>2, <1>3 DEF NoDay, TerminalStatuses, NeutralStatuses
  <1> QED
    BY <1>2, <1>3, <1>4 DEF Book!Init, Book!Open, Line

\* The book counts as the account does.
LEMMA SameCount ==
    ASSUME NEW S
    PROVE  Book!Cardinality(S) = Cardinality(S)
  BY DEF Book!Cardinality, Cardinality

\* What the lines of a set of dates are worth together is a sum.
LEMMA TotalIsSum ==
    ASSUME NEW lines, NEW weight, NEW S, IsFiniteSet(S),
           \A d \in S : weight[d] = lines[d].points
    PROVE  Book!Total(lines, S) = SumOf(weight, S)
  <1> DEFINE Worth(sum) == sum = [s \in SUBSET S |->
                                   IF s = {} THEN 0
                                   ELSE lines[First(s)].points
                                        + sum[s \ {First(s)}]]
             f == CHOOSE sum : Worth(sum)
  <1>1. Book!Total(lines, S) = f[S]
    BY DEF Book!Total, Book!MapThenSumSet, Book!MapThenFoldSet, First
  <1>2. \A s \in SUBSET S : s # {} =>
           weight[First(s)] = lines[First(s)].points
    BY DEF First
  <1>3. \A sum : Worth(sum) <=> Summing(weight, S, sum)
    BY <1>2 DEF Summing, First
  <1>4. Summing(weight, S, f)
    BY <1>3, SumExists
  <1> HIDE DEF f
  <1> QED
    BY <1>1, <1>4, SumIs

\* Accounts that agree show the same lines.
LEMMA SameLines ==
    ASSUME NEW a, NEW b, Agree(a, b)
    PROVE  /\ \A d \in Dates : Line(b.days[d]) = Line(a.days[d])
           /\ b.total_points = a.total_points /\ b.quantity = a.quantity
  BY DEF Agree, Money, Paid, Line

\* The commit of a settlement writes lawful lines over open ones.
LEMMA JudgeStep ==
    ASSUME NEW a \in AccountType, NEW b, Worked(a, b), Agree(a, db),
           Agree(b, db'), db' \in AccountType
    PROVE  Book!Judge
  <1>1. /\ b \in AccountType /\ VerdictsPaidOnce(b) /\ Judges(a, b, Dates)
        /\ Gains(a, b)
    BY DEF Worked, Sound
  <1>2. /\ \A d \in Dates : /\ Line(db.days[d]) = Line(a.days[d])
                            /\ Line(db'.days[d]) = Line(b.days[d])
        /\ db.total_points = a.total_points /\ db.quantity = a.quantity
        /\ db'.total_points = b.total_points /\ db'.quantity = b.quantity
    BY SameLines
  <1> DEFINE judged == {d \in Dates : Line(db'.days[d]) # Line(db.days[d])}
  <1>3. /\ judged = NewDays(a, b)
        /\ {d \in judged : Line(db'.days[d]).status = "frozen_item"}
              = NewFrozen(a, b)
    BY <1>1, <1>2, JudgedLines
  <1>4. ASSUME NEW d \in judged
        PROVE  /\ Line(db.days[d]) = Book!Open
               /\ Book!Lawful(Line(db'.days[d]))
    BY <1>1, <1>2, <1>3, <1>4, JudgedLines
       DEF Book!Open, Book!Lawful, TerminalStatuses, NeutralStatuses
  <1>5. Book!Total([d \in Dates |-> Line(db'.days[d])], judged)
           = SumOf(Points(b), judged)
    <2>1. IsFiniteSet(judged) /\ judged \subseteq Dates
      BY DatesFinite
    <2>2. \A d \in judged :
             Points(b)[d] = [e \in Dates |-> Line(db'.days[e])][d].points
      BY <1>2 DEF Points
    <2> HIDE DEF judged
    <2> QED
      BY <2>1, <2>2, TotalIsSum
  <1>6. db'.quantity >= 0 /\ db'.total_points >= 0
    BY DEF AccountType
  <1>7. /\ db'.total_points = db.total_points + SumOf(Points(b), judged)
        /\ db'.quantity = db.quantity - Cardinality(NewFrozen(a, b))
    BY <1>1, <1>2, <1>3 DEF Gains
  <1> QED
    BY <1>3, <1>4, <1>5, <1>6, <1>7, SameCount DEF Book!Judge

LEMMA BuyStep ==
    ASSUME NEW a, NEW b, Bought(a, b), Agree(a, db), Agree(b, db')
    PROVE  Book!Buy
  <1>1. /\ \A d \in Dates : /\ Line(db.days[d]) = Line(a.days[d])
                            /\ Line(db'.days[d]) = Line(b.days[d])
        /\ db.total_points = a.total_points /\ db.quantity = a.quantity
        /\ db'.total_points = b.total_points /\ db'.quantity = b.quantity
    BY SameLines
  <1>2. b.days = a.days
    BY DEF Bought
  <1>3. \A d \in Dates : Line(db'.days[d]) = Line(db.days[d])
    BY <1>1, <1>2
  <1> HIDE DEF Line
  <1> QED
    BY <1>1, <1>3 DEF Bought, Book!Buy

\* Every step is an entry of the book or none.
LEMMA BookStep == KInv /\ [Next]_vars => [Book!Next]_(Book!vars)
  <1> SUFFICES ASSUME KInv, [Next]_vars PROVE [Book!Next]_(Book!vars)
    OBVIOUS
  <1>1. CASE db' = db
    BY <1>1 DEF Book!vars
  <1>2. ASSUME NEW s \in Sessions, Commit(s)
        PROVE  [Book!Next]_(Book!vars)
    <2> DEFINE t == tx[s]
    <2>1. /\ Transaction(t) /\ db' \in AccountType /\ t.pc = "commit"
          /\ Holds(t) => Agree(t.base, db) /\ Agree(t.w, db')
          /\ ~Holds(t) => Agree(db, db')
      BY <1>2, Commits DEF Commit
    <2>2. CASE Holds(t)
      <3>1. /\ t.base \in AccountType
            /\ Worked(t.base, t.w) \/ Bought(t.base, t.w)
        BY <2>1, <2>2 DEF Transaction, Holds
      <3> HIDE DEF t
      <3> QED
        BY <2>1, <2>2, <3>1, JudgeStep, BuyStep DEF Book!Next
    <2>3. CASE ~Holds(t)
      <3>1. /\ \A d \in Dates : Line(db'.days[d]) = Line(db.days[d])
            /\ db'.total_points = db.total_points
            /\ db'.quantity = db.quantity
        BY <2>1, <2>3, SameLines
      <3> QED
        BY <3>1 DEF Book!vars
    <2> QED
      BY <2>2, <2>3
  <1> QED
    BY <1>1, <1>2, OnlyCommits

\* However requests overlap, what they commit is a book with one final verdict
\* a day, in which no point and no freeze moves without a verdict or a purchase.
THEOREM ConcurrentImplementsBook == Spec => ImplementsDayBook
  <1>1. Spec => []KInv
    BY InitKInv, NextKInv, PTL DEF Spec
  <1> QED
    BY <1>1, InitBook, BookStep, PTL DEF Spec, ImplementsDayBook, Book!Spec

-----------------------------------------------------------------------------
\* The units and the cursors, whatever keys the logs carry.  A session that has
\* the lock has read the units that are committed; the plans it may have read
\* long before, but no event is ever taken back.
PlanEvents(a, i) == {e \in DOMAIN a.events : a.events[e].plan_id = i}

\* The cursors that were read in read are behind the events of a.
Behind(read, a) ==
    \A i \in DOMAIN read.plans :
        read.plans[i].current_ordinal <= SumOf(Units(a), PlanEvents(a, i))

EventsOfPlans(a) ==
    \A i \in DOMAIN a.events : a.events[i].plan_id \in DOMAIN a.plans

Tracked(a) ==
    /\ Behind(a, a) /\ EventsOfPlans(a)
    /\ UnitsAddUp(a) /\ KeysOnce(a) /\ NoRowNoUnits(a)

\* What was read under the lock is what is committed.
ReadUnits(read, a) ==
    /\ read.events = a.events
    /\ read.total_units_completed = a.total_units_completed
    /\ \A d \in Dates :
          /\ read.days[d].completed_units = a.days[d].completed_units
          /\ HasDay(read, d) => HasDay(a, d)

Used(a, key) == \E i \in DOMAIN a.events : a.events[i].key = key

\* A log on date d whose key a has not seen.
LogsOnce(t, a, d) ==
    /\ t.req.key = NoKey \/ ~Used(a, t.req.key)
    /\ \E event \in StudyEvent :
          /\ Logged(t.base, t.w, event, t.req.key, d)
          /\ HasDay(t.w, d)

Follows(t, a, d) ==
    /\ DOMAIN t.base.plans \subseteq DOMAIN a.plans /\ Behind(t.base, a)
    /\ Holds(t) => ReadUnits(t.base, a)
    /\ t.pc \in {"settled", "flushed"} =>
          KeepsUnits(t.base, t.w) /\ HasDay(t.w, d)
    /\ t.pc = "commit" =>
          \/ Keeps(t.base, t.w) /\ KeepsUnits(t.base, t.w)
          \/ t.req.op = "log" /\ LogsOnce(t, a, d)

WInv ==
    /\ KInv /\ Tracked(db)
    /\ \A s \in Sessions : tx[s].pc # "idle" => Follows(tx[s], db, today)

\* What keeps the events and the cursors keeps the cursors behind the events.
LEMMA KeptBehind ==
    ASSUME NEW a, NEW b, NEW read, Behind(read, a), b.events = a.events
    PROVE  Behind(read, b)
  <1>1. Units(b) = Units(a) /\ \A i : PlanEvents(b, i) = PlanEvents(a, i)
    BY DEF Units, PlanEvents
  <1> QED
    BY <1>1 DEF Behind

\* So does one event more.
LEMMA CountedBehind ==
    ASSUME NEW a \in AccountType, NEW b, NEW event \in StudyEvent, NEW i,
           b.events = Append(a.events, event)
    PROVE  /\ SumOf(Units(a), PlanEvents(a, i)) \in Int
           /\ SumOf(Units(b), PlanEvents(b, i))
                 = SumOf(Units(a), PlanEvents(a, i))
                   + IF i = event.plan_id THEN event.units ELSE 0
  <1> DEFINE last == Len(a.events) + 1
  <1>1. event.units \in Nat
    BY DEF StudyEvent
  <1>2. EventAdded(a, b, event, last)
    BY <1>1, EventAppended
  <1> HIDE DEF last
  <1>3. PlanEvents(a, i) \in SUBSET DOMAIN a.events
    BY DEF PlanEvents
  <1>4. /\ SumOf(Units(b), PlanEvents(a, i))
              = SumOf(Units(a), PlanEvents(a, i))
        /\ SumOf(Units(b), PlanEvents(a, i) \cup {last})
              = event.units + SumOf(Units(a), PlanEvents(a, i))
    BY <1>2, <1>3 DEF EventAdded
  <1>5. SumOf(Units(a), PlanEvents(a, i)) \in Int
    BY <1>3, UnitsAreSums
  <1>6. PlanEvents(b, i) = IF i = event.plan_id
                           THEN PlanEvents(a, i) \cup {last}
                           ELSE PlanEvents(a, i)
    BY <1>2 DEF EventAdded, PlanEvents
  <1> HIDE DEF PlanEvents
  <1>7. CASE i = event.plan_id
    BY <1>1, <1>4, <1>5, <1>6, <1>7
  <1>8. CASE i # event.plan_id
    BY <1>4, <1>5, <1>6, <1>8
  <1> QED
    BY <1>7, <1>8

LEMMA LoggedBehind ==
    ASSUME NEW a \in AccountType, NEW b, NEW event \in StudyEvent,
           b.events = Append(a.events, event), NEW read \in AccountType,
           Behind(read, a)
    PROVE  Behind(read, b)
  <1> SUFFICES ASSUME NEW i \in DOMAIN read.plans
               PROVE  read.plans[i].current_ordinal
                         <= SumOf(Units(b), PlanEvents(b, i))
    BY DEF Behind
  <1>1. event.units \in Nat
    BY DEF StudyEvent
  <1>2. read.plans[i].current_ordinal \in Int
    <2>1. read.plans \in Seq(StudyPlan)
      BY DEF AccountType
    <2>2. read.plans[i] \in StudyPlan
      BY <2>1
    <2> QED
      BY <2>2 DEF StudyPlan
  <1>3. /\ SumOf(Units(a), PlanEvents(a, i)) \in Int
        /\ SumOf(Units(b), PlanEvents(b, i))
              = SumOf(Units(a), PlanEvents(a, i))
                + IF i = event.plan_id THEN event.units ELSE 0
    BY CountedBehind
  <1>4. read.plans[i].current_ordinal <= SumOf(Units(a), PlanEvents(a, i))
    BY DEF Behind
  <1> HIDE DEF PlanEvents, Units
  <1> QED
    BY <1>1, <1>2, <1>3, <1>4

\* An event whose key is free, counted on its day, keeps the account tracked as
\* long as the cursors stay behind.
LEMMA CountedTracked ==
    ASSUME NEW a \in AccountType, NEW b, NEW event \in StudyEvent,
           NEW d \in Dates, NEW key, key = NoKey \/ ~Used(a, key), Tracked(a),
           Counted(a, b, event, key, d), HasDay(b, d), Behind(b, b)
    PROVE  Tracked(b)
  <1>1. /\ b.events = Append(a.events, event) /\ event.key = key
        /\ event.credited_local_date = d /\ event.plan_id \in DOMAIN a.plans
        /\ DOMAIN b.plans = DOMAIN a.plans
        /\ b.total_units_completed = a.total_units_completed + event.units
        /\ \A e \in Dates :
              /\ b.days[e].completed_units =
                    a.days[e].completed_units
                    + IF e = d THEN event.units ELSE 0
              /\ HasDay(a, e) => HasDay(b, e)
    BY DEF Counted
  <1>2. event.units \in Nat
    BY DEF StudyEvent
  <1> DEFINE last == Len(a.events) + 1
  <1>3. EventAdded(a, b, event, last)
    BY <1>1, <1>2, EventAppended
  <1> HIDE DEF last
  <1>4. /\ DOMAIN b.events = DOMAIN a.events \cup {last}
        /\ last \notin DOMAIN a.events /\ b.events[last] = event
        /\ \A i \in DOMAIN a.events : b.events[i] = a.events[i]
    BY <1>3 DEF EventAdded
  <1>5. EventsOfPlans(b)
    BY <1>1, <1>4 DEF Tracked, EventsOfPlans
  <1>6. KeysOnce(b)
    <2>1. \A i \in DOMAIN a.events : key = NoKey \/ a.events[i].key # key
      BY DEF Used
    <2> QED
      BY <1>1, <1>4, <2>1 DEF Tracked, KeysOnce
  <1>7. NoRowNoUnits(b)
    <2> SUFFICES ASSUME NEW e \in Dates, ~HasDay(b, e)
                 PROVE  b.days[e].completed_units = 0
      BY DEF NoRowNoUnits
    <2>1. e # d /\ ~HasDay(a, e)
      BY <1>1
    <2>2. a.days[e].completed_units = 0
      BY <2>1 DEF Tracked, NoRowNoUnits
    <2> QED
      BY <1>1, <2>1, <2>2
  <1>8. UnitsAddUp(b)
    <2>1. b.total_units_completed = SumOf(Units(b), DOMAIN b.events)
      <3>1. DOMAIN a.events \in SUBSET DOMAIN a.events
        OBVIOUS
      <3>2. SumOf(Units(b), DOMAIN a.events \cup {last})
               = event.units + SumOf(Units(a), DOMAIN a.events)
        BY <1>3, <3>1 DEF EventAdded
      <3>3. SumOf(Units(a), DOMAIN a.events) \in Int
        BY <3>1, UnitsAreSums
      <3>4. a.total_units_completed = SumOf(Units(a), DOMAIN a.events)
        BY DEF Tracked, UnitsAddUp
      <3> QED
        BY <1>1, <1>2, <1>4, <3>2, <3>3, <3>4
    <2>2. ASSUME NEW e \in Dates
          PROVE  b.days[e].completed_units = SumOf(Units(b), EventsOn(b, e))
      <3>1. EventsOn(a, e) \in SUBSET DOMAIN a.events
        BY DEF EventsOn
      <3>2. /\ SumOf(Units(b), EventsOn(a, e))
                  = SumOf(Units(a), EventsOn(a, e))
            /\ SumOf(Units(b), EventsOn(a, e) \cup {last})
                  = event.units + SumOf(Units(a), EventsOn(a, e))
        BY <1>3, <3>1 DEF EventAdded
      <3>3. SumOf(Units(a), EventsOn(a, e)) \in Int
        BY <3>1, UnitsAreSums
      <3>4. a.days[e].completed_units = SumOf(Units(a), EventsOn(a, e))
        BY DEF Tracked, UnitsAddUp
      <3>5. EventsOn(b, e) = IF e = d THEN EventsOn(a, e) \cup {last}
                                      ELSE EventsOn(a, e)
        BY <1>1, <1>4 DEF EventsOn
      <3> HIDE DEF EventsOn
      <3>6. CASE e = d
        BY <1>1, <1>2, <3>2, <3>3, <3>4, <3>5, <3>6
      <3>7. CASE e # d
        BY <1>1, <3>2, <3>3, <3>4, <3>5, <3>7
      <3> QED
        BY <3>6, <3>7
    <2> QED
      BY <2>1, <2>2 DEF UnitsAddUp
  <1> QED
    BY <1>5, <1>6, <1>7, <1>8 DEF Tracked

\* What logs nothing keeps the account tracked.
LEMMA KeptTracked ==
    ASSUME NEW a \in AccountType, NEW b, Tracked(a), Keeps(a, b),
           KeepsUnits(a, b), DOMAIN a.plans \subseteq DOMAIN b.plans
    PROVE  Tracked(b)
  <1>1. b.events = a.events
    BY DEF Keeps
  <1>2. /\ Units(b) = Units(a) /\ \A i : PlanEvents(b, i) = PlanEvents(a, i)
        /\ \A d : EventsOn(b, d) = EventsOn(a, d)
    BY <1>1 DEF Units, PlanEvents, EventsOn
  <1>3. EventsOfPlans(b) /\ KeysOnce(b)
    BY <1>1 DEF Tracked, EventsOfPlans, KeysOnce
  <1>4. UnitsAddUp(b)
    BY <1>1, <1>2 DEF Tracked, UnitsAddUp, KeepsUnits
  <1>5. NoRowNoUnits(b)
    BY KeepsNoRow DEF Tracked
  <1>6. Behind(b, b)
    <2> SUFFICES ASSUME NEW i \in DOMAIN b.plans
                 PROVE  b.plans[i].current_ordinal
                           <= SumOf(Units(b), PlanEvents(b, i))
      BY DEF Behind
    <2>1. CASE i \in DOMAIN a.plans
      BY <1>2, <2>1 DEF Tracked, Behind, Keeps
    <2>2. CASE i \notin DOMAIN a.plans
      <3>1. PlanEvents(a, i) = {}
        BY <2>2 DEF Tracked, EventsOfPlans, PlanEvents
      <3>2. b.plans[i].current_ordinal = 0
        BY <2>2 DEF Keeps
      <3>3. SumOf(Units(a), {}) = 0
        BY SumUnfolds, FS_EmptySet
      <3> QED
        BY <1>2, <3>1, <3>2, <3>3
    <2> QED
      BY <2>1, <2>2
  <1> QED
    BY <1>3, <1>4, <1>5, <1>6 DEF Tracked
-----------------------------------------------------------------------------
\* The cursors a commit writes: those its session moved, and those of the plans
\* it added.
LEMMA WrittenCursors ==
    ASSUME NEW a \in AccountType, NEW t, t.base \in AccountType,
           t.w \in AccountType, DOMAIN t.base.plans \subseteq DOMAIN t.w.plans,
           DOMAIN t.base.plans \subseteq DOMAIN a.plans
    PROVE  LET b == Written(a, t)
               base == t.base.plans
               w == t.w.plans
           IN  /\ DOMAIN a.plans \subseteq DOMAIN b.plans
               /\ \A i \in DOMAIN a.plans :
                     b.plans[i].current_ordinal =
                        IF i \in DOMAIN base
                           /\ w[i].current_ordinal # base[i].current_ordinal
                        THEN w[i].current_ordinal
                        ELSE a.plans[i].current_ordinal
               /\ \A i \in DOMAIN b.plans \ DOMAIN a.plans :
                     \E j \in DOMAIN w \ DOMAIN base : b.plans[i] = w[j]
  <1> DEFINE b == Written(a, t)
             base == t.base.plans
             w == t.w.plans
             kept == UpdatedPlans(a, t)
             new == NewRows(base, w)
             n == Len(base)
             m == Len(w)
             k == Len(a.plans)
  <1>1. b.plans = kept \o new
    BY WrittenParts
  <1>2. /\ a.plans \in Seq(StudyPlan) /\ base \in Seq(StudyPlan)
        /\ w \in Seq(StudyPlan)
    BY DEF AccountType
  <1>3. /\ \A i \in DOMAIN a.plans : a.plans[i] \in StudyPlan
        /\ \A i \in DOMAIN base : base[i] \in StudyPlan /\ w[i] \in StudyPlan
        /\ k \in Nat /\ DOMAIN a.plans = 1..k
        /\ n \in Nat /\ DOMAIN base = 1..n
        /\ m \in Nat /\ DOMAIN w = 1..m
    BY <1>2, LenProperties
  <1>4. \A i \in DOMAIN a.plans :
           /\ kept[i] \in StudyPlan
           /\ kept[i].current_ordinal =
                 IF i \in DOMAIN base
                    /\ w[i].current_ordinal # base[i].current_ordinal
                 THEN w[i].current_ordinal
                 ELSE a.plans[i].current_ordinal
    <2>1. \A i \in DOMAIN a.plans :
             kept[i] = IF i \in DOMAIN base
                       THEN UpdateRow(a.plans[i], base[i], w[i])
                       ELSE a.plans[i]
      BY DEF UpdatedPlans
    <2> HIDE DEF kept, base, w
    <2> QED
      BY <1>3, <2>1, WrittenPlan
  <1>5. kept \in Seq(StudyPlan) /\ Len(kept) = k
    <2>1. kept \in [1..k -> StudyPlan]
      BY <1>3, <1>4 DEF UpdatedPlans
    <2> HIDE DEF kept
    <2> QED
      BY <1>3, <2>1
  <1>6. /\ new \in Seq(StudyPlan)
        /\ Len(new) = IF n + 1 <= m THEN m - n ELSE 0
        /\ \A i \in 1..(m - n) : new[i] = w[n + i]
    BY <1>2, RowsAdded
  <1> HIDE DEF b, kept, new, base, w, n, m, k
  <1>7. /\ b.plans \in Seq(StudyPlan) /\ Len(b.plans) = k + Len(new)
        /\ \A i \in 1..(k + Len(new)) :
              b.plans[i] = IF i <= k THEN kept[i] ELSE new[i - k]
    <2>1. /\ kept \o new \in Seq(StudyPlan)
          /\ Len(kept \o new) = Len(kept) + Len(new)
          /\ \A i \in 1..(Len(kept) + Len(new)) :
                (kept \o new)[i] =
                   IF i <= Len(kept) THEN kept[i] ELSE new[i - Len(kept)]
      BY <1>5, <1>6, ConcatProperties
    <2> QED
      BY <1>1, <1>5, <2>1
  <1>8. Len(new) \in Nat /\ DOMAIN b.plans = 1..(k + Len(new))
    BY <1>3, <1>6, <1>7
  <1>9. \A i \in DOMAIN a.plans : i \in DOMAIN b.plans /\ b.plans[i] = kept[i]
    BY <1>3, <1>7, <1>8
  <1>10. ASSUME NEW i \in DOMAIN b.plans \ DOMAIN a.plans
         PROVE  \E j \in DOMAIN w \ DOMAIN base : b.plans[i] = w[j]
    <2>1. i \in Int /\ k < i /\ i <= k + Len(new)
      BY <1>3, <1>8
    <2>2. n + 1 <= m /\ i - k \in 1..(m - n)
      BY <1>3, <1>6, <2>1
    <2>3. b.plans[i] = w[n + (i - k)]
      BY <1>3, <1>6, <1>7, <1>8, <2>1, <2>2
    <2>4. n + (i - k) \in DOMAIN w \ DOMAIN base
      BY <1>3, <2>2
    <2> QED
      BY <2>3, <2>4
  <1> QED
    BY <1>4, <1>9, <1>10 DEF b, base, w

\* Work that keeps what it has read keeps the account it is committed to.
LEMMA WrittenKeeps ==
    ASSUME NEW a \in AccountType, NEW t, t.base \in AccountType,
           t.w \in AccountType, DOMAIN t.base.plans \subseteq DOMAIN t.w.plans,
           DOMAIN t.base.plans \subseteq DOMAIN a.plans, Keeps(t.base, t.w)
    PROVE  /\ DOMAIN a.plans \subseteq DOMAIN Written(a, t).plans
           /\ Keeps(a, Written(a, t))
  <1> DEFINE b == Written(a, t)
  <1>1. b.events = a.events
    <2>1. /\ a.events \in Seq(StudyEvent) /\ t.base.events \in Seq(StudyEvent)
          /\ t.w.events = t.base.events
      BY DEF AccountType, Keeps
    <2>2. NewRows(t.base.events, t.w.events) = <<>>
      BY <2>1, AddedRows
    <2>3. b.events = a.events \o NewRows(t.base.events, t.w.events)
      BY WrittenRows
    <2> QED
      BY <2>1, <2>2, <2>3, ConcatEmptySeq
  <1>2. /\ DOMAIN a.plans \subseteq DOMAIN b.plans
        /\ \A i \in DOMAIN a.plans :
              b.plans[i].current_ordinal =
                 IF i \in DOMAIN t.base.plans
                    /\ t.w.plans[i].current_ordinal
                          # t.base.plans[i].current_ordinal
                 THEN t.w.plans[i].current_ordinal
                 ELSE a.plans[i].current_ordinal
        /\ \A i \in DOMAIN b.plans \ DOMAIN a.plans :
              \E j \in DOMAIN t.w.plans \ DOMAIN t.base.plans :
                 b.plans[i] = t.w.plans[j]
    BY WrittenCursors
  <1> HIDE DEF b
  <1>3. \A i \in DOMAIN b.plans \ DOMAIN a.plans :
           b.plans[i].current_ordinal = 0
    BY <1>2 DEF Keeps
  <1> QED
    BY <1>1, <1>2, <1>3 DEF Keeps, b


\* The units and the rows a commit writes: those its session counted.
LEMMA WrittenUnits ==
    ASSUME NEW a \in AccountType, NEW t, t.base \in AccountType,
           t.w \in AccountType, DOMAIN t.base.plans \subseteq DOMAIN t.w.plans
    PROVE  LET b == Written(a, t)
           IN  /\ b.total_units_completed =
                     IF t.w.total_units_completed = t.base.total_units_completed
                     THEN a.total_units_completed
                     ELSE t.w.total_units_completed
               /\ \A d \in Dates :
                     /\ b.days[d].completed_units =
                           IF t.w.days[d].completed_units
                                 = t.base.days[d].completed_units
                           THEN a.days[d].completed_units
                           ELSE t.w.days[d].completed_units
                     /\ b.days[d].status =
                           IF t.w.days[d].status = t.base.days[d].status
                           THEN a.days[d].status ELSE t.w.days[d].status
  <1> DEFINE b == Written(a, t)
             updated == UpdateRow(a, t.base, t.w)
  <1>1. b.total_units_completed = updated.total_units_completed
    BY WrittenParts
  <1>2. updated.total_units_completed =
           IF t.w.total_units_completed = t.base.total_units_completed
           THEN a.total_units_completed ELSE t.w.total_units_completed
    BY DEF UpdateRow, AccountType
  <1>3. ASSUME NEW d \in Dates
        PROVE  /\ b.days[d].completed_units =
                     IF t.w.days[d].completed_units
                           = t.base.days[d].completed_units
                     THEN a.days[d].completed_units
                     ELSE t.w.days[d].completed_units
               /\ b.days[d].status =
                     IF t.w.days[d].status = t.base.days[d].status
                     THEN a.days[d].status ELSE t.w.days[d].status
    <2>1. /\ a.days[d] \in StudyDay /\ t.base.days[d] \in StudyDay
          /\ t.w.days[d] \in StudyDay
      BY DEF AccountType
    <2>2. b.days[d] = UpdateRow(a.days[d], t.base.days[d], t.w.days[d])
      BY WrittenRows
    <2> HIDE DEF b
    <2> QED
      BY <2>1, <2>2 DEF UpdateRow, StudyDay
  <1> HIDE DEF b, updated
  <1> QED
    BY <1>1, <1>2, <1>3 DEF b

LEMMA WrittenKeepsUnits ==
    ASSUME NEW a \in AccountType, NEW t, t.base \in AccountType,
           t.w \in AccountType, DOMAIN t.base.plans \subseteq DOMAIN t.w.plans,
           KeepsUnits(t.base, t.w)
    PROVE  KeepsUnits(a, Written(a, t))
  <1> DEFINE b == Written(a, t)
  <1>1. /\ b.total_units_completed = a.total_units_completed
        /\ \A d \in Dates :
              /\ b.days[d].completed_units = a.days[d].completed_units
              /\ b.days[d].status =
                    IF t.w.days[d].status = t.base.days[d].status
                    THEN a.days[d].status ELSE t.w.days[d].status
    BY WrittenUnits DEF KeepsUnits
  <1> HIDE DEF b
  <1>2. \A d \in Dates : HasDay(a, d) => HasDay(b, d)
    BY <1>1 DEF KeepsUnits, HasDay
  <1> QED
    BY <1>1, <1>2 DEF KeepsUnits, b

\* A log that has read the committed units counts its own on the account, and
\* moves a cursor that was behind the events no further than they do.
LEMMA WrittenCounts ==
    ASSUME NEW a \in AccountType, NEW t, t.base \in AccountType,
           t.w \in AccountType, DOMAIN t.base.plans \subseteq DOMAIN a.plans,
           NEW event \in StudyEvent, NEW key, NEW d \in Dates,
           Logged(t.base, t.w, event, key, d), HasDay(t.w, d),
           ReadUnits(t.base, a), Behind(t.base, a), Behind(a, a)
    PROVE  LET b == Written(a, t)
           IN  Counted(a, b, event, key, d) /\ HasDay(b, d) /\ Behind(b, b)
  <1> DEFINE b == Written(a, t)
             read == t.base.events
  <1>0. /\ DOMAIN t.w.plans = DOMAIN t.base.plans
        /\ t.w.events = Append(read, event) /\ event.key = key
        /\ event.plan_id \in DOMAIN t.base.plans
        /\ event.credited_local_date = d
        /\ t.w.total_units_completed
              = t.base.total_units_completed + event.units
        /\ \A e \in Dates :
              /\ t.w.days[e].completed_units =
                    t.base.days[e].completed_units
                    + IF e = d THEN event.units ELSE 0
              /\ HasDay(t.base, e) => HasDay(t.w, e)
    BY DEF Logged, Counted
  <1>1. b.events = Append(a.events, event)
    <2>1. /\ a.events \in Seq(StudyEvent) /\ read \in Seq(StudyEvent)
          /\ t.w.events = Append(read, event)
      BY <1>0 DEF AccountType
    <2> DEFINE new == NewRows(read, t.w.events)
               n == Len(read)
               m == Len(t.w.events)
    <2>2. /\ t.w.events \in Seq(StudyEvent) /\ Len(t.w.events) = n + 1
          /\ t.w.events[n + 1] = event /\ n \in Nat
      BY <2>1
    <2>3. /\ new \in Seq(StudyEvent)
          /\ Len(new) = IF n + 1 <= m THEN m - n ELSE 0
          /\ \A i \in 1..(m - n) : new[i] = t.w.events[n + i]
      BY <2>1, <2>2, RowsAdded
    <2> HIDE DEF new, n
    <2>4. Len(new) = 1 /\ new[1] = event
      BY <2>2, <2>3
    <2>5. b.events = a.events \o new
      BY <1>0, WrittenRows DEF new
    <2>6. new = <<event>>
      BY <2>3, <2>4
    <2> QED
      BY <2>1, <2>5, <2>6, AppendIsConcat
  <1>2. /\ DOMAIN a.plans \subseteq DOMAIN b.plans
        /\ \A i \in DOMAIN a.plans :
              b.plans[i].current_ordinal =
                 IF i \in DOMAIN t.base.plans
                    /\ t.w.plans[i].current_ordinal
                          # t.base.plans[i].current_ordinal
                 THEN t.w.plans[i].current_ordinal
                 ELSE a.plans[i].current_ordinal
        /\ \A i \in DOMAIN b.plans \ DOMAIN a.plans :
              \E j \in DOMAIN t.w.plans \ DOMAIN t.base.plans :
                 b.plans[i] = t.w.plans[j]
    BY <1>0, WrittenCursors
  <1>3. /\ b.total_units_completed =
              IF t.w.total_units_completed = t.base.total_units_completed
              THEN a.total_units_completed ELSE t.w.total_units_completed
        /\ \A e \in Dates :
              /\ b.days[e].completed_units =
                    IF t.w.days[e].completed_units
                          = t.base.days[e].completed_units
                    THEN a.days[e].completed_units
                    ELSE t.w.days[e].completed_units
              /\ b.days[e].status =
                    IF t.w.days[e].status = t.base.days[e].status
                    THEN a.days[e].status ELSE t.w.days[e].status
    BY <1>0, WrittenUnits
  <1> HIDE DEF b, read
  <1>4. event.units \in Nat
    BY DEF StudyEvent
  <1>5. DOMAIN b.plans = DOMAIN a.plans
    BY <1>0, <1>2
  <1>6. b.total_units_completed = a.total_units_completed + event.units
    <2>1. /\ a.total_units_completed \in Int
          /\ t.base.total_units_completed = a.total_units_completed
      BY DEF AccountType, ReadUnits
    <2> QED
      BY <1>0, <1>3, <1>4, <2>1
  <1>7. ASSUME NEW e \in Dates
        PROVE  /\ b.days[e].completed_units =
                     a.days[e].completed_units
                     + IF e = d THEN event.units ELSE 0
               /\ HasDay(a, e) => HasDay(b, e)
               /\ e = d => HasDay(b, e)
    <2>1. /\ a.days[e].completed_units \in Int
          /\ t.base.days[e].completed_units = a.days[e].completed_units
      <3>1. a.days[e] \in StudyDay
        BY DEF AccountType
      <3> QED
        BY <3>1 DEF StudyDay, ReadUnits
    <2>2. b.days[e].completed_units =
             a.days[e].completed_units + IF e = d THEN event.units ELSE 0
      BY <1>0, <1>3, <1>4, <2>1
    <2>3. HasDay(t.base, e) => HasDay(a, e) /\ HasDay(t.w, e)
      BY <1>0 DEF ReadUnits
    <2>4. /\ HasDay(a, e) => HasDay(b, e)
          /\ e = d => HasDay(b, e)
      BY <1>3, <2>3 DEF HasDay
    <2> QED
      BY <2>2, <2>4
  <1>8. Counted(a, b, event, key, d) /\ HasDay(b, d)
    BY <1>0, <1>1, <1>5, <1>6, <1>7 DEF Counted
  <1>9. Behind(b, b)
    <2> SUFFICES ASSUME NEW i \in DOMAIN a.plans
                 PROVE  b.plans[i].current_ordinal
                           <= SumOf(Units(b), PlanEvents(b, i))
      BY <1>5 DEF Behind
    <2>1. /\ SumOf(Units(a), PlanEvents(a, i)) \in Int
          /\ SumOf(Units(b), PlanEvents(b, i))
                = SumOf(Units(a), PlanEvents(a, i))
                  + IF i = event.plan_id THEN event.units ELSE 0
      BY <1>1, CountedBehind
    <2>2. a.plans[i].current_ordinal <= SumOf(Units(a), PlanEvents(a, i))
      BY DEF Behind
    <2>3. a.plans[i].current_ordinal \in Nat
      <3>1. a.plans[i] \in StudyPlan
        BY DEF AccountType
      <3> QED
        BY <3>1 DEF StudyPlan
    <2> HIDE DEF PlanEvents, Units
    <2>4. CASE b.plans[i].current_ordinal = a.plans[i].current_ordinal
      BY <1>4, <2>1, <2>2, <2>3, <2>4
    <2>5. CASE b.plans[i].current_ordinal # a.plans[i].current_ordinal
      <3>1. /\ i \in DOMAIN t.base.plans
            /\ b.plans[i].current_ordinal = t.w.plans[i].current_ordinal
        BY <1>2, <2>5
      <3>2. /\ t.w.plans[i].current_ordinal =
                  t.base.plans[i].current_ordinal
                  + IF i = event.plan_id THEN event.units ELSE 0
            /\ t.base.plans[i].current_ordinal
                  <= SumOf(Units(a), PlanEvents(a, i))
        BY <3>1 DEF Logged, Behind
      <3>3. t.base.plans[i].current_ordinal \in Nat
        <4>1. t.base.plans \in Seq(StudyPlan)
          BY DEF AccountType
        <4>2. t.base.plans[i] \in StudyPlan
          BY <3>1, <4>1
        <4> QED
          BY <4>2 DEF StudyPlan
      <3> QED
        BY <1>4, <2>1, <3>1, <3>2, <3>3
    <2> QED
      BY <2>4, <2>5
  <1> QED
    BY <1>8, <1>9 DEF b
-----------------------------------------------------------------------------
\* The requests that log nothing count nothing.
LEMMA ChangeGoalUnits ==
    ASSUME NEW a \in AccountType, NEW goal \in Nat \ {0}, NEW d \in Dates
    PROVE  KeepsUnits(a, ChangeGoal(a, goal, d))
  <1> DEFINE b == ChangeGoal(a, goal, d)
             kind == ClassifyDay(d, a.study_week)
             row == [a.days[d] EXCEPT !.day_kind = kind,
                                      !.required_units =
                                          RequiredUnitsFor(kind, goal)]
             days == IF a.days[d].status = "pending"
                     THEN [a.days EXCEPT ![d] = row] ELSE a.days
             plans == [a.plans EXCEPT ![PlanId(a)] =
                          [a.plans[PlanId(a)] EXCEPT !.daily_goal = goal]]
  <1>1. a.days \in [Dates -> StudyDay] /\ a.days[d] \in StudyDay
    BY DEF AccountType
  <1>2. /\ row.status = a.days[d].status
        /\ row.completed_units = a.days[d].completed_units
    BY <1>1 DEF StudyDay
  <1> HIDE DEF row
  <1>3. \A e \in Dates : \/ days[e] = a.days[e]
                        \/ (e = d /\ days[e] = row)
    BY <1>1
  <1>4. b = [a EXCEPT !.plans = plans, !.days = days]
    BY DEF ChangeGoal, row
  <1> HIDE DEF days, plans, b
  <1>5. b.days = days /\ b.total_units_completed = a.total_units_completed
    BY <1>4 DEF AccountType
  <1>6. KeepsUnits(a, b)
    BY <1>2, <1>3, <1>5 DEF KeepsUnits, HasDay
  <1> QED
    BY <1>6 DEF b

LEMMA SwitchTractateUnits ==
    ASSUME NEW a \in AccountType, NEW goal \in Nat \ {0},
           NEW size \in Nat \ {0}, NEW ordinal \in Nat, ordinal < size,
           NEW utcDate \in Dates, NEW created \in Dates, Sound(a)
    PROVE  KeepsUnits(a, SwitchTractate(a, goal, size, ordinal, utcDate,
                                        created))
  <1> DEFINE left == Abandon(a)
             fresh == CreatePlan(left, goal, size, utcDate, created)
             placed == SetPosition(fresh, ordinal)
             b == ChangeGoal(placed, goal, utcDate)
  <1>0. SwitchTractate(a, goal, size, ordinal, utcDate, created) = b
    BY DEF SwitchTractate
  <1>1. /\ left \in AccountType /\ Sound(left) /\ left.days = a.days
        /\ left.total_units_completed = a.total_units_completed
    BY AbandonSound DEF Abandon, AccountType
  <1> HIDE DEF left, b
  <1>2. /\ fresh \in AccountType /\ Sound(fresh) /\ HasPlan(fresh)
        /\ fresh.days = left.days
        /\ fresh.total_units_completed = left.total_units_completed
    BY <1>1, CreatePlanSound DEF CreatePlan, AccountType
  <1> HIDE DEF fresh
  <1>3. /\ placed \in AccountType /\ placed.days = fresh.days
        /\ placed.total_units_completed = fresh.total_units_completed
    BY <1>2, SetPositionSound DEF SetPosition, AccountType
  <1> HIDE DEF placed
  <1>4. KeepsUnits(placed, b)
    BY <1>3, ChangeGoalUnits DEF b
  <1>5. KeepsUnits(a, b)
    BY <1>1, <1>2, <1>3, <1>4 DEF KeepsUnits, HasDay
  <1> QED
    BY <1>0, <1>5

LEMMA PurchaseUnits ==
    ASSUME NEW a \in AccountType, NEW key \in RequestKeys
    PROVE  LET b == Purchase(a, key)
           IN  KeepsUnits(a, b) /\ b.plans = a.plans /\ b.events = a.events
  <1> DEFINE b == Purchase(a, key)
  <1>1. /\ b.days = a.days /\ b.plans = a.plans /\ b.events = a.events
        /\ b.total_units_completed = a.total_units_completed
    BY DEF Purchase, PostTransaction, AccountType
  <1> HIDE DEF b
  <1> QED
    BY <1>1 DEF KeepsUnits, HasDay, b
-----------------------------------------------------------------------------
\* A new plan is read from its beginning, and nothing is logged.
LEMMA InitWInv == Init => WInv
  <1> SUFFICES ASSUME Init PROVE WInv
    OBVIOUS
  <1>1. KInv /\ db \in AccountType
    BY InitKInv DEF KInv, TypeOK
  <1>2. PICK week \in Weeks, zone \in Zones, goal \in Goals,
             size \in TractateSizes :
           db = GetOrCreateDay(CreatePlan(NewAccount(week, zone), goal,
                                          size, 0, 0), 0)
    BY DEF Init
  <1> DEFINE new == NewAccount(week, zone)
             planned == CreatePlan(new, goal, size, 0, 0)
  <1>3. /\ db.plans = Append(<<>>, [daily_goal |-> goal, start_date |-> 0,
                                    created |-> 0, current_ordinal |-> 0,
                                    mishnayot_count |-> size,
                                    status |-> "active"])
        /\ db.events = <<>>
    BY <1>2 DEF GetOrCreateDay, CreatePlan, NewAccount
  <1>4. /\ DOMAIN db.plans = {1} /\ db.plans[1].current_ordinal = 0
        /\ DOMAIN db.events = {}
    BY <1>3
  <1>5. Recorded(db)
    <2>1. /\ week \in StudyWeeks /\ zone \in ZoneKinds /\ 0 \in Dates
          /\ goal \in Nat \ {0} /\ size \in Nat \ {0}
      BY WeeksAssumption, ZonesAssumption, GoalsAssumption,
         TractateSizesAssumption, MaxDayAssumption DEF Dates
    <2>2. new \in AccountType /\ Sound(new) /\ Recorded(new)
      BY <2>1, NewAccountSound, NewAccountRecord
    <2>3. ~HasPlan(new)
      BY DEF NewAccount, HasPlan, ActivePlans
    <2> HIDE DEF new
    <2>4. /\ planned \in AccountType /\ HasPlan(planned) /\ Recorded(planned)
      BY <2>1, <2>2, <2>3, CreatePlanSound, CreatePlanRecord
    <2> HIDE DEF planned
    <2> QED
      BY <1>2, <2>1, <2>4, GetOrCreateDayRecord DEF new, planned
  <1>6. UnitsAddUp(db) /\ KeysOnce(db) /\ NoRowNoUnits(db)
    BY <1>5 DEF Recorded, QuotaStands, NoRowNoUnits
  <1>7. EventsOfPlans(db)
    BY <1>4 DEF EventsOfPlans
  <1>8. Behind(db, db)
    <2>1. PlanEvents(db, 1) = {}
      BY <1>4 DEF PlanEvents
    <2>2. SumOf(Units(db), {}) = 0
      BY SumUnfolds, FS_EmptySet
    <2> QED
      BY <1>4, <2>1, <2>2 DEF Behind
  <1>9. \A s \in Sessions : tx[s].pc = "idle"
    BY DEF Init, Idle
  <1> QED
    BY <1>1, <1>6, <1>7, <1>8, <1>9 DEF WInv, Tracked

\* A step of one session that writes nothing leaves the others as they are.
LEMMA SessionWInv ==
    ASSUME WInv, KInv', NEW s \in Sessions, db' = db, today' = today,
           \A o \in Sessions \ {s} : tx'[o] = tx[o],
           tx'[s].pc # "idle" => Follows(tx'[s], db, today)
    PROVE  WInv'
  <1>1. Tracked(db')
    BY DEF WInv
  <1>2. ASSUME NEW o \in Sessions, tx'[o].pc # "idle"
        PROVE  Follows(tx'[o], db', today')
    <2>1. CASE o = s
      BY <1>2, <2>1
    <2>2. CASE o # s
      BY <1>2, <2>2 DEF WInv
    <2> QED
      BY <2>1, <2>2
  <1> QED
    BY <1>1, <1>2 DEF WInv

LEMMA RollbackWInv ==
    ASSUME WInv, NEW s \in Sessions, Rollback(s)
    PROVE  WInv'
  <1>1. KInv /\ KInv'
    BY RollbackKInv DEF WInv
  <1>2. /\ tx' = [tx EXCEPT ![s] = Idle] /\ db' = db /\ today' = today
        /\ DOMAIN tx = Sessions
    BY <1>1 DEF Rollback, KInv, TypeOK
  <1>3. /\ tx'[s].pc = "idle"
        /\ \A o \in Sessions \ {s} : tx'[o] = tx[o]
    BY <1>2 DEF Idle
  <1> QED
    BY <1>1, <1>2, <1>3, SessionWInv

LEMMA ProceedWInv ==
    ASSUME WInv, KInv', NEW s \in Sessions, NEW t, NEW pc, Proceed(s, t, pc),
           NEW new,
           new = [t EXCEPT !.pc = pc, !.held = tx[s].held \cup Wants(s)],
           Follows(new, db, today)
    PROVE  WInv'
  <1>1. DOMAIN tx = Sessions
    BY DEF WInv, KInv, TypeOK
  <1>2. tx' = [tx EXCEPT ![s] = new] /\ db' = db /\ today' = today
    BY DEF Proceed
  <1>3. tx'[s] = new /\ \A o \in Sessions \ {s} : tx'[o] = tx[o]
    BY <1>1, <1>2
  <1> QED
    BY <1>2, <1>3, SessionWInv

\* A request has read the plans that are committed.
LEMMA BeginWInv ==
    ASSUME WInv, KInv', NEW s \in Sessions, NEW req, Begin(s, req)
    PROVE  WInv'
  <1> DEFINE t == [pc |-> "begun", req |-> req, held |-> {}, base |-> Known,
                   w |-> Known]
  <1>1. DOMAIN tx = Sessions /\ db \in AccountType /\ Behind(db, db)
    BY DEF WInv, KInv, TypeOK, Tracked
  <1>2. tx' = [tx EXCEPT ![s] = t] /\ db' = db /\ today' = today
    BY DEF Begin
  <1>3. Known.plans = db.plans
    BY <1>1, KnownType
  <1>4. t.base.plans = db.plans /\ t.pc = "begun"
    BY <1>3
  <1> HIDE DEF t
  <1>5. Behind(t.base, db)
    BY <1>1, <1>4 DEF Behind
  <1>6. Follows(t, db, today)
    BY <1>4, <1>5 DEF Follows, Holds
  <1>7. tx'[s] = t /\ \A o \in Sessions \ {s} : tx'[o] = tx[o]
    BY <1>1, <1>2
  <1> QED
    BY <1>2, <1>6, <1>7, SessionWInv

LEMMA BeginsWInv ==
    ASSUME WInv, NEW s \in Sessions,
           \/ BeginLog(s) \/ BeginPurchase(s)
           \/ BeginUpdate(s) \/ BeginSwitch(s) \/ BeginWeek(s)
    PROVE  WInv'
  <1>1. KInv'
    BY BeginsKInv DEF WInv
  <1>2. PICK req : Begin(s, req)
    <2>1. CASE BeginLog(s)
      BY <2>1 DEF BeginLog
    <2>2. CASE BeginPurchase(s)
      BY <2>2 DEF BeginPurchase
    <2>3. CASE BeginUpdate(s)
      BY <2>3 DEF BeginUpdate
    <2>4. CASE BeginSwitch(s)
      BY <2>4 DEF BeginSwitch
    <2>5. CASE BeginWeek(s)
      BY <2>5 DEF BeginWeek
    <2> QED
      BY <2>1, <2>2, <2>3, <2>4, <2>5
  <1> QED
    BY <1>1, <1>2, BeginWInv

\* Settling under the lock reads the committed units, and changes none.
LEMMA SettleWInv ==
    ASSUME WInv, NEW s \in Sessions, Settle(s)
    PROVE  WInv'
  <1> DEFINE t == tx[s]
             read == [db EXCEPT !.plans = t.base.plans, !.zone = t.base.zone,
                                !.study_week = t.base.study_week]
             work == SettleAll(read)
             held == t.held \cup Wants(s)
             new == [[t EXCEPT !.base = read, !.w = work]
                        EXCEPT !.pc = "settled", !.held = held]
  <1>1. /\ t.pc = "begun" /\ t.req.op = "log"
        /\ Proceed(s, [t EXCEPT !.base = read, !.w = work], "settled")
    BY DEF Settle, Running
  <1>2. /\ Transaction(t) /\ db \in AccountType /\ today \in Dates /\ KInv
        /\ KInv' /\ NoRowNoUnits(db)
    BY <1>1, RunsTransaction, SettleKInv DEF WInv, KInv, TypeOK, Tracked
  <1>3. Follows(t, db, today)
    BY <1>1 DEF WInv
  <1>4. t.base \in AccountType /\ HasPlan(t.base)
    BY <1>1, <1>2 DEF Transaction
  <1>5. /\ read \in AccountType /\ Money(read) = Money(db)
        /\ read.days = db.days /\ read.plans = t.base.plans
        /\ read.events = db.events
        /\ read.total_units_completed = db.total_units_completed
    BY <1>2, <1>4 DEF AccountType, Money
  <1> HIDE DEF read
  <1>6. /\ Sound(read) /\ FreezesAccounted(read) /\ HasPlan(read)
        /\ NoRowNoUnits(read)
    BY <1>2, <1>4, <1>5, ReadSound, SamePlan DEF NoRowNoUnits, HasDay
  <1>7. KeepsUnits(read, work) /\ HasDay(work, today)
    BY <1>2, <1>5, <1>6, SettleAllWorked
  <1>8. ReadUnits(read, db)
    BY <1>5 DEF ReadUnits, HasDay
  <1> HIDE DEF work, held
  <1>9. Resumed(new, t, "settled", held, read, work)
    BY <1>2, Resumes DEF Transaction
  <1>10. new = [[t EXCEPT !.base = read, !.w = work]
                  EXCEPT !.pc = "settled", !.held = held]
    OBVIOUS
  <1> HIDE DEF new
  <1>11. Follows(new, db, today)
    BY <1>3, <1>5, <1>7, <1>8, <1>9 DEF Follows, Behind, Resumed
  <1> HIDE DEF t
  <1> QED
    BY <1>1, <1>2, <1>10, <1>11, ProceedWInv DEF held, t

LEMMA FlushWInv ==
    ASSUME WInv, NEW s \in Sessions, FlushSettlement(s)
    PROVE  WInv'
  <1> DEFINE t == tx[s]
             held == t.held \cup Wants(s)
             new == [t EXCEPT !.pc = "flushed", !.held = held]
  <1>1. t.pc = "settled" /\ t.req.op = "log" /\ Proceed(s, t, "flushed")
    BY DEF FlushSettlement, Running
  <1>2. Transaction(t) /\ KInv'
    BY <1>1, RunsTransaction, FlushKInv DEF WInv, KInv
  <1>3. Follows(t, db, today)
    BY <1>1 DEF WInv
  <1> HIDE DEF held
  <1>4. Resumed(new, t, "flushed", held, t.base, t.w)
    BY <1>2, Resumes DEF Transaction
  <1>5. new = [t EXCEPT !.pc = "flushed", !.held = held]
    OBVIOUS
  <1> HIDE DEF new
  <1>6. Follows(new, db, today)
    BY <1>1, <1>3, <1>4 DEF Follows, Holds, Resumed
  <1> HIDE DEF t
  <1> QED
    BY <1>1, <1>2, <1>5, <1>6, ProceedWInv DEF held, t

\* A replay commits a settlement, which logs nothing.
LEMMA ReplayWInv ==
    ASSUME WInv, NEW s \in Sessions, LogReplay(s)
    PROVE  WInv'
  <1> DEFINE t == tx[s]
             held == t.held \cup Wants(s)
             new == [t EXCEPT !.pc = "commit", !.held = held]
  <1>1. t.pc = "flushed" /\ t.req.op = "log" /\ Proceed(s, t, "commit")
    BY DEF LogReplay, Running
  <1>2. Transaction(t) /\ KInv'
    BY <1>1, RunsTransaction, ReplayKInv DEF WInv, KInv
  <1>3. Follows(t, db, today)
    BY <1>1 DEF WInv
  <1>4. Keeps(t.base, t.w) /\ KeepsUnits(t.base, t.w)
    BY <1>1, <1>2, <1>3 DEF Transaction, Keeps, Follows
  <1> HIDE DEF held
  <1>5. Resumed(new, t, "commit", held, t.base, t.w)
    BY <1>2, Resumes DEF Transaction
  <1>6. new = [t EXCEPT !.pc = "commit", !.held = held]
    OBVIOUS
  <1> HIDE DEF new
  <1>7. Follows(new, db, today)
    BY <1>1, <1>3, <1>4, <1>5 DEF Follows, Holds, Resumed
  <1> HIDE DEF t
  <1> QED
    BY <1>1, <1>2, <1>6, <1>7, ProceedWInv DEF held, t

\* Units counted after a settlement, which counted none.
LEMMA CountsOnly ==
    ASSUME NEW a, NEW b, NEW c, KeepsUnits(a, b), b.plans = a.plans,
           b.events = a.events, NEW event, NEW key, NEW d,
           Logged(b, c, event, key, d)
    PROVE  Logged(a, c, event, key, d)
  <1>1. Counted(a, c, event, key, d)
    BY DEF KeepsUnits, Logged, Counted
  <1> QED
    BY <1>1 DEF Logged

\* A log that is not a replay has a free key, as the events it has read are the
\* committed ones.
LEMMA LogUnitsWInv ==
    ASSUME WInv, NEW s \in Sessions, LogUnits(s)
    PROVE  WInv'
  <1> DEFINE t == tx[s]
             u == WithActivePlan(t)
             work == LogStudy(u.w, today, t.req.units, t.req.key)
             held == t.held \cup Wants(s)
             new == [[u EXCEPT !.w = work] EXCEPT !.pc = "commit",
                                                  !.held = held]
  <1>1. /\ t.pc = "flushed" /\ t.req.op = "log" /\ HasPlan(db)
        /\ ~Replayed(t.w, t.req.key)
    BY DEF LogUnits, Running
  <1>2. /\ Transaction(t) /\ today \in Dates /\ KInv /\ KInv'
        /\ db \in AccountType /\ Behind(db, db)
    BY <1>1, RunsTransaction, LogUnitsKInv DEF WInv, KInv, TypeOK, Tracked
  <1>3. Follows(t, db, today)
    BY <1>1 DEF WInv
  <1>4. t.req.units \in Nat /\ t.req.key \in RequestKeys
    BY <1>1, <1>2 DEF Transaction, Asked
  <1>5. /\ DOMAIN u = Parts /\ u.req = t.req /\ u.base \in AccountType
        /\ u.w.plans = u.base.plans /\ HasPlan(u.base)
        /\ u.base.events = t.base.events /\ u.w.events = t.base.events
        /\ u.base.days = t.base.days /\ u.w.days = t.w.days
        /\ u.base.total_units_completed = t.base.total_units_completed
        /\ u.w.total_units_completed = t.w.total_units_completed
        /\ u = t \/ u.base.plans = db.plans
        /\ Worked(u.base, u.w)
    BY <1>1, <1>2, ActivePlanRead
  <1>6. /\ ReadUnits(t.base, db) /\ KeepsUnits(t.base, t.w)
        /\ HasDay(t.w, today)
    BY <1>1, <1>3 DEF Follows, Holds
  <1>7. t.w.events = db.events
    BY <1>1, <1>2, <1>6 DEF Transaction, ReadUnits
  <1>8. t.req.key = NoKey \/ ~Used(db, t.req.key)
    BY <1>1, <1>7 DEF Replayed, Used
  <1>9. /\ DOMAIN u.base.plans \subseteq DOMAIN db.plans
        /\ Behind(u.base, db)
    BY <1>2, <1>3, <1>5 DEF Follows, Behind
  <1> HIDE DEF u
  <1>10. /\ ReadUnits(u.base, db) /\ KeepsUnits(u.base, u.w)
         /\ HasDay(u.w, today)
    BY <1>5, <1>6 DEF ReadUnits, KeepsUnits, HasDay
  <1>11. CASE CanLog(u.w, today)
    <2>1. Proceed(s, [u EXCEPT !.w = work], "commit")
      BY <1>5, <1>11 DEF LogUnits, u
    <2>2. HasPlan(u.w) /\ u.w \in AccountType /\ Sound(u.w)
      BY <1>5, SamePlan DEF Worked
    <2>3. PICK event \in StudyEvent :
             Logged(u.w, work, event, t.req.key, today)
      BY <1>2, <1>4, <1>11, <2>2, LogStudyMoves
    <2> HIDE DEF work, held
    <2>4. Logged(u.base, work, event, t.req.key, today)
      BY <1>5, <1>10, <2>3, CountsOnly
    <2>5. HasDay(work, today)
      BY <1>2, <1>10, <2>3 DEF Logged, Counted
    <2>6. Resumed(new, u, "commit", held, u.base, work)
      BY <1>5, Resumes
    <2>7. new = [[u EXCEPT !.w = work]
                    EXCEPT !.pc = "commit", !.held = tx[s].held \cup Wants(s)]
      BY DEF held
    <2> HIDE DEF new
    <2>8. LogsOnce(new, db, today)
      BY <1>5, <1>8, <2>4, <2>5, <2>6 DEF LogsOnce, Resumed
    <2>9. Follows(new, db, today)
      BY <1>1, <1>5, <1>9, <1>10, <2>6, <2>8 DEF Follows, Resumed
    <2> HIDE DEF t
    <2> QED
      BY <1>2, <2>1, <2>7, <2>9, ProceedWInv
  <1>12. CASE ~CanLog(u.w, today)
    <2>1. Rollback(s)
      BY <1>12 DEF LogUnits, u
    <2> QED
      BY <2>1, RollbackWInv
  <1> QED
    BY <1>11, <1>12

\* The requests that log nothing.
LEMMA OthersWInv ==
    ASSUME WInv, KInv', NEW s \in Sessions, NEW read, NEW work,
           tx[s].pc = "begun", tx[s].req.op # "log",
           Proceed(s, [tx[s] EXCEPT !.base = read, !.w = work], "commit"),
           DOMAIN read.plans \subseteq DOMAIN db.plans, Behind(read, db),
           KeepsUnits(read, work),
           tx[s].req.op = "purchase" => ReadUnits(read, db)
    PROVE  WInv'
  <1> DEFINE t == tx[s]
             held == t.held \cup Wants(s)
             new == [[t EXCEPT !.base = read, !.w = work]
                        EXCEPT !.pc = "commit", !.held = held]
  <1>1. Transaction(t) /\ DOMAIN tx = Sessions
    BY RunsTransaction DEF WInv, KInv, TypeOK
  <1> HIDE DEF held
  <1>2. Resumed(new, t, "commit", held, read, work)
    BY <1>1, Resumes DEF Transaction
  <1>3. new = [[t EXCEPT !.base = read, !.w = work]
                  EXCEPT !.pc = "commit", !.held = held]
    OBVIOUS
  <1>4. tx'[s] = new
    BY <1>1 DEF Proceed, held
  <1> HIDE DEF new
  <1>5. Keeps(read, work)
    <2>1. tx'[s] = Idle \/ Transaction(tx'[s])
      BY DEF KInv, TypeOK
    <2>2. tx'[s] # Idle
      BY <1>2, <1>4 DEF Resumed, Idle
    <2> QED
      BY <1>2, <1>4, <2>1, <2>2 DEF Transaction, Resumed
  <1>6. Follows(new, db, today)
    BY <1>2, <1>5 DEF Follows, Holds, Locking, Resumed
  <1> QED
    BY <1>3, <1>6, ProceedWInv DEF held

LEMMA BuyFreezeWInv ==
    ASSUME WInv, NEW s \in Sessions, BuyFreeze(s)
    PROVE  WInv'
  <1>1. /\ KInv' /\ tx[s].pc = "begun" /\ tx[s].req.op = "purchase"
        /\ db \in AccountType /\ Behind(db, db)
    BY BuyFreezeKInv DEF WInv, BuyFreeze, Running, KInv, TypeOK, Tracked
  <1>2. CASE CanPurchase(db)
    <2> DEFINE work == Purchase(db, NoKey)
    <2>1. Proceed(s, [tx[s] EXCEPT !.base = db, !.w = work], "commit")
      BY <1>2 DEF BuyFreeze
    <2>2. KeepsUnits(db, work)
      BY <1>1, PurchaseUnits DEF RequestKeys
    <2>3. ReadUnits(db, db)
      BY DEF ReadUnits
    <2> HIDE DEF work
    <2> QED
      BY <1>1, <2>1, <2>2, <2>3, OthersWInv
  <1>3. CASE ~CanPurchase(db)
    BY <1>3, RollbackWInv DEF BuyFreeze
  <1> QED
    BY <1>2, <1>3

\* What a request that locks nothing has read of the plans.
LEMMA PlansKnown ==
    ASSUME WInv, NEW s \in Sessions, tx[s].pc = "begun"
    PROVE  /\ Transaction(tx[s]) /\ db \in AccountType /\ today \in Dates
           /\ utc \in Dates /\ Sound(db) /\ KInv
           /\ DOMAIN tx[s].base.plans \subseteq DOMAIN db.plans
           /\ Behind(tx[s].base, db) /\ Behind(db, db)
  BY RunsTransaction DEF WInv, KInv, TypeOK, Follows, Tracked

LEMMA ChangeGoalWInv ==
    ASSUME WInv, NEW s \in Sessions, ChangeGoalNow(s)
    PROVE  WInv'
  <1> DEFINE t == tx[s]
             read == [db EXCEPT !.plans = t.base.plans]
             work == ChangeGoal(read, t.req.goal, today)
  <1>1. /\ t.pc = "begun" /\ t.req.op = "update" /\ KInv'
        /\ Proceed(s, [t EXCEPT !.base = read, !.w = work], "commit")
    BY ChangeGoalKInv DEF ChangeGoalNow, Running, WInv
  <1>2. /\ Transaction(t) /\ db \in AccountType /\ today \in Dates
        /\ DOMAIN t.base.plans \subseteq DOMAIN db.plans /\ Behind(t.base, db)
    BY <1>1, PlansKnown
  <1>3. t.base \in AccountType /\ t.req.goal \in Nat \ {0}
    BY <1>1, <1>2 DEF Transaction, Asked
  <1>4. read \in AccountType /\ read.plans = t.base.plans
    BY <1>2, <1>3 DEF AccountType
  <1> HIDE DEF read
  <1>5. KeepsUnits(read, work)
    BY <1>2, <1>3, <1>4, ChangeGoalUnits
  <1>6. Behind(read, db)
    BY <1>2, <1>4 DEF Behind
  <1> HIDE DEF work
  <1> QED
    BY <1>1, <1>2, <1>4, <1>5, <1>6, OthersWInv

LEMMA SwitchWInv ==
    ASSUME WInv, NEW s \in Sessions, SwitchNow(s)
    PROVE  WInv'
  <1> DEFINE t == tx[s]
             req == t.req
             read == [db EXCEPT !.plans = t.base.plans]
             work == SwitchTractate(read, req.goal, req.size, 0, utc, today)
  <1>1. t.pc = "begun" /\ req.op = "switch" /\ KInv'
    BY SwitchKInv DEF SwitchNow, Running, WInv
  <1>2. /\ Transaction(t) /\ db \in AccountType /\ today \in Dates
        /\ utc \in Dates /\ KInv
        /\ DOMAIN t.base.plans \subseteq DOMAIN db.plans /\ Behind(t.base, db)
    BY <1>1, PlansKnown
  <1>3. /\ t.base \in AccountType /\ req.goal \in Nat \ {0}
        /\ req.size \in Nat \ {0}
    BY <1>1, <1>2 DEF Transaction, Asked
  <1>4. /\ read \in AccountType /\ read.plans = t.base.plans
        /\ read.days = db.days /\ Money(read) = Money(db)
    BY <1>2, <1>3 DEF AccountType, Money
  <1> HIDE DEF read
  <1>5. KeepsUnits(read, work)
    BY <1>2, <1>3, <1>4, ReadSound, SwitchTractateUnits
  <1>6. Behind(read, db)
    BY <1>2, <1>4 DEF Behind
  <1>7. CASE ActivePlans(db) \subseteq ActivePlans(t.base)
    <2>1. Proceed(s, [t EXCEPT !.base = read, !.w = work], "commit")
      BY <1>7 DEF SwitchNow, read
    <2> HIDE DEF work
    <2> QED
      BY <1>1, <1>2, <1>4, <1>5, <1>6, <2>1, OthersWInv
  <1>8. CASE ~(ActivePlans(db) \subseteq ActivePlans(t.base))
    BY <1>8, RollbackWInv DEF SwitchNow
  <1> QED
    BY <1>7, <1>8

LEMMA StudyWeekWInv ==
    ASSUME WInv, NEW s \in Sessions, SetStudyWeek(s)
    PROVE  WInv'
  <1> DEFINE t == tx[s]
             read == [db EXCEPT !.study_week = t.base.study_week]
             chosen == [read EXCEPT !.study_week = t.req.week]
             work == IF HasPlan(read)
                     THEN ChangeGoal(chosen, Plan(chosen).daily_goal, today)
                     ELSE chosen
  <1>1. /\ t.pc = "begun" /\ t.req.op = "week" /\ KInv'
        /\ Proceed(s, [t EXCEPT !.base = read, !.w = work], "commit")
    BY StudyWeekKInv DEF SetStudyWeek, Running, WInv
  <1>2. /\ Transaction(t) /\ db \in AccountType /\ today \in Dates
        /\ Behind(db, db)
    BY <1>1, PlansKnown
  <1>3. t.base \in AccountType /\ t.req.week \in StudyWeeks
    BY <1>1, <1>2 DEF Transaction, Asked
  <1>4. /\ read \in AccountType /\ read.plans = db.plans
    BY <1>2, <1>3 DEF AccountType
  <1> HIDE DEF read
  <1>5. /\ chosen \in AccountType /\ chosen.plans = read.plans
        /\ KeepsUnits(read, chosen)
    BY <1>3, <1>4 DEF AccountType, KeepsUnits, HasDay
  <1> HIDE DEF chosen
  <1>6. KeepsUnits(read, work)
    <2>1. CASE HasPlan(read)
      <3>1. HasPlan(chosen)
        BY <1>5, <2>1, SamePlan
      <3>2. Plan(chosen).daily_goal \in Nat \ {0}
        <4>1. Plan(chosen) \in StudyPlan
          BY <1>5, <3>1, PlanExists
        <4> QED
          BY <4>1 DEF StudyPlan
      <3>3. KeepsUnits(chosen, ChangeGoal(chosen, Plan(chosen).daily_goal,
                                          today))
        BY <1>2, <1>5, <3>2, ChangeGoalUnits
      <3> QED
        BY <1>5, <2>1, <3>3, KeepsUnitsBoth
    <2>2. CASE ~HasPlan(read)
      BY <1>5, <2>2
    <2> QED
      BY <2>1, <2>2
  <1>7. Behind(read, db)
    BY <1>2, <1>4 DEF Behind
  <1> HIDE DEF work
  <1> QED
    BY <1>1, <1>4, <1>6, <1>7, OthersWInv
-----------------------------------------------------------------------------
\* A session still follows the account when another one logs nothing.
LEMMA KeptFollows ==
    ASSUME NEW a, NEW b, NEW d, NEW t, Follows(t, a, d), Keeps(a, b),
           KeepsUnits(a, b), DOMAIN a.plans \subseteq DOMAIN b.plans
    PROVE  Follows(t, b, d)
  <1>1. b.events = a.events /\ Behind(t.base, b)
    BY KeptBehind DEF Keeps, Follows
  <1>2. \A key : Used(b, key) <=> Used(a, key)
    BY <1>1 DEF Used
  <1>3. ReadUnits(t.base, a) => ReadUnits(t.base, b)
    BY <1>1 DEF ReadUnits, KeepsUnits
  <1>4. LogsOnce(t, a, d) => LogsOnce(t, b, d)
    BY <1>2 DEF LogsOnce
  <1> QED
    BY <1>1, <1>3, <1>4 DEF Follows

\* When another one logs, this one has not read the units yet.
LEMMA LoggedFollows ==
    ASSUME NEW a \in AccountType, NEW b, NEW event \in StudyEvent, NEW d,
           NEW key, Counted(a, b, event, key, d), NEW t, Transaction(t),
           Follows(t, a, d), ~Holds(t)
    PROVE  Follows(t, b, d)
  <1>1. b.events = Append(a.events, event) /\ DOMAIN b.plans = DOMAIN a.plans
    BY DEF Counted
  <1>2. Behind(t.base, b)
    BY <1>1, LoggedBehind DEF Follows, Transaction
  <1> QED
    BY <1>1, <1>2 DEF Follows, Holds, Locking

LEMMA CommitWInv ==
    ASSUME WInv, NEW s \in Sessions, Commit(s)
    PROVE  WInv'
  <1> DEFINE t == tx[s]
  <1>1. /\ KInv /\ KInv' /\ db \in AccountType /\ DOMAIN tx = Sessions
        /\ today \in Dates
    BY CommitKInv DEF WInv, KInv, TypeOK
  <1>2. /\ t.pc = "commit" /\ db' = Written(db, t) /\ today' = today
        /\ tx' = [tx EXCEPT ![s] = Idle]
    BY DEF Commit
  <1>3. /\ tx'[s].pc = "idle"
        /\ \A o \in Sessions \ {s} : tx'[o] = tx[o]
    BY <1>1, <1>2 DEF Idle
  <1>4. Transaction(t) /\ Follows(t, db, today) /\ Tracked(db)
    BY <1>1, <1>2, RunsTransaction DEF WInv, KInv
  <1>5. /\ t.base \in AccountType /\ t.w \in AccountType
        /\ DOMAIN t.base.plans \subseteq DOMAIN t.w.plans
        /\ DOMAIN t.base.plans \subseteq DOMAIN db.plans
    BY <1>4 DEF Transaction, Follows
  <1>6. ASSUME Tracked(db'),
               \A o \in Sessions \ {s} :
                  tx[o].pc # "idle" => Follows(tx[o], db', today)
        PROVE  WInv'
    <2>1. ASSUME NEW o \in Sessions, tx'[o].pc # "idle"
          PROVE  Follows(tx'[o], db', today')
      <3>1. o \in Sessions \ {s} /\ tx'[o] = tx[o]
        BY <1>3, <2>1
      <3> QED
        BY <1>2, <1>6, <2>1, <3>1
    <2> QED
      BY <1>1, <1>6, <2>1 DEF WInv
  <1>7. CASE Keeps(t.base, t.w) /\ KeepsUnits(t.base, t.w)
    <2> HIDE DEF t
    <2>1. /\ Keeps(db, db') /\ DOMAIN db.plans \subseteq DOMAIN db'.plans
          /\ KeepsUnits(db, db')
      BY <1>1, <1>2, <1>5, <1>7, WrittenKeeps, WrittenKeepsUnits
    <2>2. Tracked(db')
      BY <1>1, <1>4, <2>1, KeptTracked
    <2>3. \A o \in Sessions \ {s} :
             tx[o].pc # "idle" => Follows(tx[o], db', today)
      BY <2>1, KeptFollows DEF WInv
    <2> QED
      BY <1>6, <2>2, <2>3
  <1>8. CASE t.req.op = "log" /\ LogsOnce(t, db, today)
    <2>1. PICK event \in StudyEvent :
             Logged(t.base, t.w, event, t.req.key, today)
             /\ HasDay(t.w, today)
      BY <1>8 DEF LogsOnce
    <2>2. Holds(t)
      BY <1>2, <1>8 DEF Holds, Locking
    <2>3. /\ ReadUnits(t.base, db) /\ Behind(t.base, db) /\ Behind(db, db)
          /\ t.req.key = NoKey \/ ~Used(db, t.req.key)
      BY <1>4, <1>8, <2>2 DEF Follows, Tracked, LogsOnce
    <2>4. \A o \in Sessions \ {s} : ~Holds(tx[o])
      BY <1>1, <2>2 DEF KInv, LockedIsCurrent, RowsHeldOnce
    <2> DEFINE key == t.req.key
    <2> HIDE DEF t
    <2>5. /\ Counted(db, db', event, key, today) /\ HasDay(db', today)
          /\ Behind(db', db')
      BY <1>1, <1>2, <1>5, <2>1, <2>3, WrittenCounts
    <2>6. Tracked(db')
      BY <1>1, <1>4, <2>3, <2>5, CountedTracked
    <2> HIDE DEF key
    <2>7. ASSUME NEW o \in Sessions \ {s}, tx[o].pc # "idle"
          PROVE  Follows(tx[o], db', today)
      <3>1. Follows(tx[o], db, today) /\ ~Holds(tx[o])
        BY <2>4, <2>7 DEF WInv
      <3>2. Transaction(tx[o])
        BY <1>1, <2>7, RunsTransaction DEF KInv
      <3> QED
        BY <1>1, <2>5, <3>1, <3>2, LoggedFollows
    <2> QED
      BY <1>6, <2>6, <2>7
  <1>9. \/ Keeps(t.base, t.w) /\ KeepsUnits(t.base, t.w)
        \/ t.req.op = "log" /\ LogsOnce(t, db, today)
    BY <1>2, <1>4 DEF Follows
  <1> QED
    BY <1>7, <1>8, <1>9

LEMMA NextWInv == WInv /\ [Next]_vars => WInv'
  <1> SUFFICES ASSUME WInv, [Next]_vars PROVE WInv'
    OBVIOUS
  <1>1. KInv'
    BY NextKInv DEF WInv
  <1>2. ASSUME NEW s \in Sessions,
               \/ BeginLog(s) \/ BeginPurchase(s)
               \/ BeginUpdate(s) \/ BeginSwitch(s) \/ BeginWeek(s)
        PROVE  WInv'
    BY <1>2, BeginsWInv
  <1>3. ASSUME NEW s \in Sessions, Serve(s) PROVE WInv'
    BY <1>3, SettleWInv, FlushWInv, ReplayWInv, LogUnitsWInv, BuyFreezeWInv,
       ChangeGoalWInv, SwitchWInv, StudyWeekWInv, CommitWInv, RollbackWInv
       DEF Serve, PlanGone, UniqueViolation, DeadlockVictim
  <1>4. ASSUME NEW s \in Sessions, Abort(s) PROVE WInv'
    BY <1>4, RollbackWInv DEF Abort
  \* The clock moves while nothing runs.
  <1>5. CASE Tick
    BY <1>1, <1>5 DEF Tick, WInv
  <1>6. CASE UNCHANGED vars
    BY <1>1, <1>6 DEF vars, WInv
  <1> QED
    BY <1>2, <1>3, <1>4, <1>5, <1>6 DEF Next, Done

\* What was found of the sums is what the properties say of them.
LEMMA SumsOfUnits ==
    ASSUME db \in AccountType
    PROVE  /\ \A i : UnitsOfPlan(i) = SumOf(Units(db), PlanEvents(db, i))
           /\ UnitsOf(DOMAIN db.events) = SumOf(Units(db), DOMAIN db.events)
           /\ \A d : UnitsOf({e \in DOMAIN db.events :
                                 db.events[e].credited_local_date = d})
                        = SumOf(Units(db), EventsOn(db, d))
  <1>1. ASSUME NEW S \in SUBSET DOMAIN db.events
        PROVE  UnitsOf(S) = SumOf(Units(db), S)
    BY UnitsAreSums DEF UnitsOf
  <1>2. ASSUME NEW i
        PROVE  UnitsOfPlan(i) = SumOf(Units(db), PlanEvents(db, i))
    <2>1. PlanEvents(db, i) \in SUBSET DOMAIN db.events
      BY DEF PlanEvents
    <2>2. UnitsOfPlan(i) = UnitsOf(PlanEvents(db, i))
      BY DEF UnitsOfPlan, PlanEvents
    <2> QED
      BY <1>1, <2>1, <2>2
  <1>3. ASSUME NEW d
        PROVE  UnitsOf({e \in DOMAIN db.events :
                           db.events[e].credited_local_date = d})
                  = SumOf(Units(db), EventsOn(db, d))
    <2>1. EventsOn(db, d) \in SUBSET DOMAIN db.events
      BY DEF EventsOn
    <2>2. UnitsOf(EventsOn(db, d)) = SumOf(Units(db), EventsOn(db, d))
      BY <1>1, <2>1
    <2> QED
      BY <2>2 DEF EventsOn
  <1> QED
    BY <1>1, <1>2, <1>3

\* However requests overlap, and whatever keys they carry, the cursor of a plan
\* never runs ahead of the events logged in it: the lock makes each session add
\* its event to those that are committed, and the cursor it adds to, read
\* before the lock, is one that those events had already reached (log_study in
\* study.py, lock_stats in ledger.py).
THEOREM NothingEverSkipped == Spec => []NothingSkipped
  <1>1. WInv => NothingSkipped
    <2> SUFFICES ASSUME WInv, NEW i \in DOMAIN db.plans
                 PROVE  db.plans[i].current_ordinal <= UnitsOfPlan(i)
      BY DEF NothingSkipped
    <2>1. db \in AccountType
      BY DEF WInv, KInv, TypeOK
    <2>2. db.plans[i].current_ordinal <= SumOf(Units(db), PlanEvents(db, i))
      BY DEF WInv, Tracked, Behind
    <2> QED
      BY <2>1, <2>2, SumsOfUnits
  <1>2. WInv /\ [Next]_vars => WInv'
    BY NextWInv
  <1> QED
    BY <1>1, <1>2, InitWInv, PTL DEF Spec

\* However requests overlap, the units of the learner and of each day are the
\* sums of the events, and no key was applied twice: what a session read of
\* them it read under the lock, and a request without the lock writes the
\* columns it changed alone (log_study in study.py, change_goal in
\* progress.py).
THEOREM UnitsCountOnce == Spec => []EventsCountOnce
  <1>1. WInv => EventsCountOnce
    <2> SUFFICES ASSUME WInv PROVE EventsCountOnce
      OBVIOUS
    <2>1. db \in AccountType /\ UnitsAddUp(db) /\ KeysOnce(db)
      BY DEF WInv, KInv, TypeOK, Tracked
    <2>2. /\ UnitsOf(DOMAIN db.events) = SumOf(Units(db), DOMAIN db.events)
          /\ \A d : UnitsOf({e \in DOMAIN db.events :
                                db.events[e].credited_local_date = d})
                       = SumOf(Units(db), EventsOn(db, d))
      BY <2>1, SumsOfUnits
    <2> QED
      BY <2>1, <2>2 DEF UnitsAddUp, KeysOnce, EventsCountOnce
  <1>2. WInv /\ [Next]_vars => WInv'
    BY NextWInv
  <1> QED
    BY <1>1, <1>2, InitWInv, PTL DEF Spec

=============================================================================
