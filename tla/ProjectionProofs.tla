-------------------------- MODULE ProjectionProofs --------------------------
(***************************************************************************)
(* The completion estimate is exact for every tractate, goal, start date   *)
(* and length of the walk.                                                 *)
(***************************************************************************)
EXTENDS Projection, FiniteSetTheorems, TLAPS

\* The study days the walk has passed.
Passed == StudyDaysBetween(start_date, start_date + offset - 1)

PInv ==
    /\ TypeOK
    /\ done = daily_goal * study_days
    /\ pc = "walk" =>
          /\ done < remaining_units
          /\ offset <= MaxProjectionDays
          /\ study_days = Cardinality(Passed)
    /\ pc = "overflow" =>
          /\ done < remaining_units
          /\ offset = MaxProjectionDays
          /\ study_days = Cardinality(Passed)
    /\ ProjectionExact
    /\ CountsStudyDays

\* Walking over one more day adds that day, if it is a study day.
LEMMA OneMoreDay ==
    ASSUME NEW first \in Nat, NEW last \in Nat, first <= last
    PROVE  /\ IsFiniteSet(StudyDaysBetween(first, last - 1))
           /\ Cardinality(StudyDaysBetween(first, last)) =
                 Cardinality(StudyDaysBetween(first, last - 1))
                 + (IF IsStudyDay(last) THEN 1 ELSE 0)
  <1> DEFINE before == StudyDaysBetween(first, last - 1)
  <1>1. IsFiniteSet(before)
    <2>1. IsFiniteSet(first..(last - 1))
      BY FS_Interval
    <2>2. before \subseteq first..(last - 1)
      BY DEF StudyDaysBetween
    <2> QED
      BY <2>1, <2>2, FS_Subset
  <1>2. last \notin before
    BY DEF StudyDaysBetween
  <1>3. CASE IsStudyDay(last)
    <2>1. StudyDaysBetween(first, last) = before \cup {last}
      BY <1>3 DEF StudyDaysBetween
    <2>2. Cardinality(before \cup {last}) = Cardinality(before) + 1
      BY <1>1, <1>2, FS_AddElement
    <2> QED
      BY <1>1, <1>3, <2>1, <2>2
  <1>4. CASE ~IsStudyDay(last)
    <2>1. StudyDaysBetween(first, last) = before
      BY <1>4 DEF StudyDaysBetween
    <2>2. Cardinality(before) \in Nat
      BY <1>1, FS_CardinalityType
    <2> QED
      BY <1>1, <1>4, <2>1, <2>2
  <1> QED
    BY <1>3, <1>4

\* A study day has room for the goal, a day of rest for nothing.
LEMMA CapacityOfDay ==
    ASSUME NEW d \in Nat, daily_goal \in Nat \ {0}
    PROVE  Capacity(d) = IF IsStudyDay(d) THEN daily_goal ELSE 0
  BY DEF Capacity, IsStudyDay, RequiredUnitsFor, ClassifyDay

\* The invariant holds before the first day.
LEMMA InitPInv == Init => PInv
  <1> SUFFICES ASSUME Init PROVE PInv
    OBVIOUS
  <1>1. TypeOK
    BY MaxRemainingAssumption, ProjectedGoalsAssumption, MaxDayAssumption
       DEF Init, TypeOK, Dates
  <1>2. Passed = {}
    BY <1>1 DEF Init, Passed, StudyDaysBetween, TypeOK
  <1>3. Cardinality(Passed) = 0
    BY <1>2, FS_EmptySet
  <1> QED
    BY <1>1, <1>3, MaxProjectionDaysAssumption
       DEF Init, PInv, TypeOK, ProjectionExact, CountsStudyDays

\* Every day walked keeps it.
LEMMA NextPInv == PInv /\ [Next]_vars => PInv'
  <1> SUFFICES ASSUME PInv, [Next]_vars PROVE PInv'
    OBVIOUS
  <1>1. CASE Walk
    <2> DEFINE cursor == start_date + offset
               one == IF IsStudyDay(cursor) THEN 1 ELSE 0
    <2>1. /\ remaining_units \in Nat /\ daily_goal \in Nat \ {0}
          /\ start_date \in Nat /\ offset \in Nat /\ done \in Nat
          /\ study_days \in Nat /\ end_date \in Nat
          /\ study_week \in StudyWeeks
          /\ cursor \in Nat /\ start_date <= cursor
      BY DEF PInv, TypeOK
    <2>2. Capacity(cursor) = daily_goal * one
      BY <2>1, CapacityOfDay
    <2>3. done' = done + daily_goal * one /\ study_days' = study_days + one
      BY <1>1, <2>1, <2>2 DEF Walk
    <2>4. done' = daily_goal * study_days' /\ done' \in Nat
          /\ study_days' \in Nat
      BY <2>1, <2>3 DEF PInv
    <2>5. study_days' = Cardinality(StudyDaysBetween(start_date, cursor))
      <3>0. pc = "walk" /\ cursor - 1 = start_date + offset - 1
        BY <1>1, <2>1 DEF Walk
      <3>1. study_days = Cardinality(StudyDaysBetween(start_date, cursor - 1))
        BY <3>0 DEF PInv, Passed
      <3> QED
        BY <2>1, <2>3, <3>1, OneMoreDay
    <2>6. UNCHANGED arguments /\ done < remaining_units
          /\ offset < MaxProjectionDays
      BY <1>1 DEF Walk, PInv
    <2>7. CASE Enough(done')
      <3>1. pc' = "done" /\ end_date' = cursor /\ offset' = offset
        BY <1>1, <2>7 DEF Walk
      <3>2. IsStudyDay(cursor)
        BY <2>1, <2>3, <2>6, <2>7 DEF Enough
      <3>3. IsStudyDay(end_date)'
        BY <2>6, <3>1, <3>2 DEF IsStudyDay, arguments
      <3>4. ProjectionExact'
        <4>1. study_days' - 1 = study_days
          BY <2>1, <2>3, <3>2
        <4>2. done = daily_goal * study_days
          BY DEF PInv
        <4> QED
          BY <2>4, <2>6, <2>7, <3>3, <4>1, <4>2
             DEF ProjectionExact, Enough, arguments
      <3>5. CountsStudyDays'
        <4>1. StudyDaysBetween(start_date, end_date)' =
                 StudyDaysBetween(start_date, cursor)
          BY <2>6, <3>1 DEF StudyDaysBetween, IsStudyDay, arguments
        <4> QED
          BY <2>5, <4>1 DEF CountsStudyDays
      <3> QED
        BY <2>1, <2>4, <2>6, <3>1, <3>4, <3>5 DEF PInv, TypeOK, arguments
    <2>8. CASE ~Enough(done')
      <3>1. pc' = "walk" /\ end_date' = end_date /\ offset' = offset + 1
        BY <1>1, <2>8 DEF Walk
      <3>2. done' < remaining_units
        <4>1. ~(done' >= remaining_units)
          BY <2>8 DEF Enough
        <4>2. done' \in Nat
          BY <2>4
        <4> QED
          BY <2>1, <4>1, <4>2
      <3>3. Passed' = StudyDaysBetween(start_date, cursor)
        <4>1. start_date' + offset' - 1 = cursor
          BY <2>1, <2>6, <3>1 DEF arguments
        <4> QED
          BY <2>6, <4>1 DEF Passed, StudyDaysBetween, IsStudyDay, arguments
      <3>4. offset' <= MaxProjectionDays
        BY <2>1, <2>6, <3>1, MaxProjectionDaysAssumption
      <3> QED
        BY <2>1, <2>4, <2>5, <2>6, <3>1, <3>2, <3>3, <3>4
           DEF PInv, TypeOK, ProjectionExact, CountsStudyDays, arguments
    <2> QED
      BY <2>7, <2>8
  <1>2. CASE Overflow
    <2>1. Passed' = Passed /\ offset = MaxProjectionDays
      BY <1>2, MaxProjectionDaysAssumption
         DEF Overflow, PInv, TypeOK, Passed, StudyDaysBetween, IsStudyDay,
             arguments
    <2> QED
      BY <1>2, <2>1
         DEF Overflow, PInv, TypeOK, ProjectionExact, CountsStudyDays,
             arguments
  <1>3. CASE UNCHANGED vars
    BY <1>3 DEF vars, arguments, PInv, TypeOK, ProjectionExact,
                CountsStudyDays, Passed, StudyDaysBetween, IsStudyDay
  <1> QED
    BY <1>1, <1>2, <1>3 DEF Next, Returned

\* The estimated end is a study day, has room for all that is left, and the
\* study day before it had not (progress.py, project_completion).
THEOREM EstimateIsExact == Spec => []ProjectionExact
  <1>1. PInv => ProjectionExact
    BY DEF PInv
  <1> QED
    BY <1>1, InitPInv, NextPInv, PTL DEF Spec

\* The study days the learner is told are the study days there are.
THEOREM StudyDaysAreCounted == Spec => []CountsStudyDays
  <1>1. PInv => CountsStudyDays
    BY DEF PInv
  <1> QED
    BY <1>1, InitPInv, NextPInv, PTL DEF Spec

\* No estimate is refused that the walk had room for.
THEOREM OverflowIsHopeless == Spec => []OverflowOnlyWhenHopeless
  <1>1. PInv => OverflowOnlyWhenHopeless
    <2> SUFFICES ASSUME PInv, pc = "overflow"
                 PROVE  LET last == start_date + MaxProjectionDays - 1
                        IN  daily_goal
                              * Cardinality(StudyDaysBetween(start_date, last))
                              < remaining_units
      BY DEF OverflowOnlyWhenHopeless
    <2>1. study_days =
             Cardinality(StudyDaysBetween(start_date,
                                          start_date + MaxProjectionDays - 1))
      BY DEF PInv, Passed
    <2> QED
      BY <2>1 DEF PInv
  <1> QED
    BY <1>1, InitPInv, NextPInv, PTL DEF Spec

-----------------------------------------------------------------------------
\* The weekday of a day within a week after d.
LEMMA WeekdayLater ==
    ASSUME NEW d \in Nat, NEW i \in 0..6
    PROVE  /\ Weekday(d) \in 0..6
           /\ Weekday(d + i) = IF Weekday(d) + i < 7 THEN Weekday(d) + i
                                                     ELSE Weekday(d) + i - 7
  BY FirstWeekdayAssumption DEF Weekday

\* In seven days in a row each weekday occurs once.
LEMMA OncePerWeek ==
    ASSUME NEW d \in Nat, NEW weekday \in 0..6
    PROVE  \E day \in d..(d + 6) :
              \A e \in d..(d + 6) : Weekday(e) = weekday <=> e = day
  <1> DEFINE i == IF weekday >= Weekday(d) THEN weekday - Weekday(d)
                                           ELSE weekday - Weekday(d) + 7
  <1>1. Weekday(d) \in 0..6
    BY WeekdayLater
  <1>2. i \in 0..6
    BY <1>1
  <1>3. ASSUME NEW e \in d..(d + 6)
        PROVE  Weekday(e) = weekday <=> e = d + i
    <2> DEFINE j == e - d
               from == Weekday(d)
    <2>1. j \in 0..6 /\ e = d + j /\ j \in Int /\ i \in Int
      BY <1>2, <1>3
    <2>2. Weekday(e) = IF from + j < 7 THEN from + j ELSE from + j - 7
      BY <2>1, WeekdayLater
    <2>3. i = IF weekday >= from THEN weekday - from ELSE weekday - from + 7
      OBVIOUS
    <2> HIDE DEF i, j, from
    <2>4. from \in 0..6
      BY <1>1 DEF from
    <2>5. Weekday(e) = weekday <=> j = i
      BY <2>1, <2>2, <2>3, <2>4
    <2> QED
      BY <2>1, <2>5
  <1>4. d + i \in d..(d + 6)
    BY <1>2
  <1> HIDE DEF i
  <1> QED
    BY <1>3, <1>4

\* A week has seven study days, or all but the Friday and the Saturday
\* (progress.py: DAYS_PER_WEEK and calendar.py's RestWeekdays say the same).
LEMMA StudyDaysOfWeek ==
    ASSUME NEW d \in Nat, study_week \in StudyWeeks
    PROVE  Cardinality(StudyDaysBetween(d, d + 6))
              = IF study_week = "seven_days" THEN 7 ELSE 5
  <1> DEFINE week == d..(d + 6)
  <1>1. IsFiniteSet(week) /\ Cardinality(week) = 7
    BY FS_Interval
  <1>2. CASE study_week = "seven_days"
    <2>1. StudyDaysBetween(d, d + 6) = week
      BY <1>2 DEF StudyDaysBetween, IsStudyDay, ClassifyDay
    <2> QED
      BY <1>1, <1>2, <2>1
  <1>3. CASE study_week = "five_days"
    <2>0. Friday \in 0..6 /\ Saturday \in 0..6
      BY DEF Friday, Saturday
    <2>1. PICK friday \in week :
             \A e \in week : Weekday(e) = Friday <=> e = friday
      BY <2>0, OncePerWeek
    <2>2. PICK saturday \in week :
             \A e \in week : Weekday(e) = Saturday <=> e = saturday
      BY <2>0, OncePerWeek
    <2>3. friday # saturday
      BY <2>1, <2>2 DEF Friday, Saturday
    <2>4. StudyDaysBetween(d, d + 6) = (week \ {friday}) \ {saturday}
      BY <1>3, <2>1, <2>2
         DEF StudyDaysBetween, IsStudyDay, ClassifyDay, RestWeekdays
    <2> HIDE DEF week
    <2>5. /\ IsFiniteSet(week \ {friday})
          /\ Cardinality(week \ {friday}) = 6
      BY <1>1, FS_RemoveElement
    <2>6. Cardinality((week \ {friday}) \ {saturday}) = 5
      <3> DEFINE rest == week \ {friday}
      <3>1. saturday \in rest
        BY <2>2, <2>3
      <3>2. IsFiniteSet(rest) /\ Cardinality(rest) = 6
        BY <2>5
      <3> HIDE DEF rest
      <3>3. Cardinality(rest \ {saturday}) = Cardinality(rest) - 1
        BY <3>1, <3>2, FS_RemoveElement
      <3>4. Cardinality(rest \ {saturday}) = 5
        BY <3>2, <3>3
      <3> QED
        BY <3>4 DEF rest
    <2> QED
      BY <1>3, <2>4, <2>6
  <1> QED
    BY <1>2, <1>3 DEF StudyWeeks

\* units_per_week is what any seven days in a row hold, on whatever weekday
\* they begin (progress.py: DAYS_PER_WEEK against the weekdays of calendar.py).
THEOREM WeekHoldsItsLoad == Spec => []WeeklyLoad
  <1>1. PInv => WeeklyLoad
    BY StudyDaysOfWeek DEF PInv, TypeOK, WeeklyLoad
  <1> QED
    BY <1>1, InitPInv, NextPInv, PTL DEF Spec

=============================================================================
