---------------------------- MODULE SweepProofs ----------------------------
(***************************************************************************)
(* Proofs about the hourly sweep, for every number of learners, replicas,  *)
(* batches and faults.                                                     *)
(***************************************************************************)
EXTENDS Sweep, TLAPS

\* A run between its start and its end.
UnderWay ==
    [pc : {"batch"}, batch : SUBSET Learners, failed : SUBSET Learners,
     full : BOOLEAN, today : [Learners -> Dates], utc : Dates]

SweepTypes ==
    /\ settled \in [Learners -> Int]
    /\ active \in SUBSET Learners
    /\ today \in [Learners -> Dates]
    /\ utc \in Dates
    /\ run \in [Replicas -> {Asleep} \cup UnderWay]

\* A watermark is between the day before the plan and yesterday, and a run that
\* is under way has the clock of now or an earlier one.
ClockInv ==
    /\ \A u \in Learners : NoDate <= settled[u] /\ settled[u] < today[u]
    /\ \A s \in Replicas :
          run[s].pc = "batch" =>
              \A u \in Learners : run[s].today[u] <= today[u]

\* A learner is as settled as a run whose batch has room wants it.
Settled(s, u) ==
    settled[u] >= run[s].today[u] - 1 \/ settled[u] >= run[s].utc - 1

\* What a run has left to do is in its batch.
CatchUpInv ==
    \A s \in Replicas :
        run[s].pc = "batch" /\ ~run[s].full =>
            \A u \in active \ (run[s].batch \cup run[s].failed) : Settled(s, u)

SweepInv == SweepTypes /\ ClockInv

LEMMA DatesAreNats ==
    (\A d \in Dates : d \in Int /\ d >= 0) /\ 0 \in Dates /\ NoDate = -1
  BY MaxDayAssumption DEF Dates, NoDate

\* Settling never takes a watermark back and stops at yesterday; when the cap
\* is not in the way it gets there.
LEMMA WatermarkBounds ==
    ASSUME NEW u \in Learners, NEW local \in Dates, settled[u] \in Int
    PROVE  /\ WatermarkAfter(u, local) \in Int
           /\ WatermarkAfter(u, local) >= settled[u]
           /\ settled[u] < local => WatermarkAfter(u, local) < local
           /\ settled[u] >= local - 1 - MaxDaysPerSettlement
                 => WatermarkAfter(u, local) >= local - 1
  BY CapAssumption, DatesAreNats DEF WatermarkAfter

LEMMA SweepInitial == Init => SweepInv
  <1> SUFFICES ASSUME Init PROVE SweepInv
    OBVIOUS
  <1>1. today \in [Learners -> Dates]
    BY DEF Init
  <1>2. SweepTypes
    BY <1>1, DatesAreNats DEF Init, SweepTypes
  <1>3. \A u \in Learners : today[u] \in Nat /\ settled[u] = NoDate
    BY <1>1, DatesAreNats DEF Init
  <1>4. \A s \in Replicas : run[s].pc = "asleep"
    BY DEF Init, Asleep
  <1>5. ClockInv
    BY <1>3, <1>4, DatesAreNats DEF ClockInv
  <1> QED
    BY <1>2, <1>5 DEF SweepInv

\* A step that moves no clock, and no watermark out of its bounds, keeps the
\* invariant when it leaves each run asleep or with the clock it had.
LEMMA WatermarkStep ==
    ASSUME SweepInv, UNCHANGED clock, active' \in SUBSET Learners,
           settled' \in [Learners -> Int],
           \A u \in Learners : settled[u] <= settled'[u] /\ settled'[u] < today[u],
           run' \in [Replicas -> {Asleep} \cup UnderWay],
           \A s \in Replicas :
               run'[s].pc = "batch" =>
                   \/ run'[s].today = today
                   \/ run[s].pc = "batch" /\ run'[s].today = run[s].today
    PROVE  SweepInv' /\ \A u \in Learners : settled'[u] >= settled[u]
  <1>0. today' = today /\ utc' = utc
    BY DEF clock
  <1>1. SweepTypes'
    BY <1>0 DEF SweepInv, SweepTypes
  <1>2. today' = today /\ today \in [Learners -> Int] /\ settled \in [Learners -> Int]
    <2>1. \A u \in Learners : today[u] \in Int
      BY DatesAreNats DEF SweepInv, SweepTypes
    <2> QED
      BY <1>0, <2>1 DEF SweepInv, SweepTypes
  <1>3. ASSUME NEW u \in Learners
        PROVE  NoDate <= settled'[u] /\ settled'[u] < today'[u]
    BY <1>2, DatesAreNats DEF SweepInv, ClockInv
  <1>4. ASSUME NEW s \in Replicas, run'[s].pc = "batch", NEW u \in Learners
        PROVE  run'[s].today[u] <= today'[u]
    BY <1>2, <1>4 DEF SweepInv, ClockInv
  <1>5. ClockInv'
    BY <1>3, <1>4 DEF ClockInv
  <1> QED
    BY <1>1, <1>2, <1>5 DEF SweepInv

\* No run goes back in time, and no watermark does.
LEMMA SweepStep ==
    SweepInv /\ [Next]_vars
        => SweepInv' /\ \A u \in Learners : settled'[u] >= settled[u]
  <1> SUFFICES ASSUME SweepInv, [Next]_vars
               PROVE  SweepInv' /\ \A u \in Learners : settled'[u] >= settled[u]
    OBVIOUS
  <1>t. /\ settled \in [Learners -> Int] /\ active \in SUBSET Learners
        /\ today \in [Learners -> Dates] /\ utc \in Dates
        /\ run \in [Replicas -> {Asleep} \cup UnderWay]
        /\ \A u \in Learners : settled[u] < today[u] /\ today[u] \in Int
        /\ Asleep.pc = "asleep"
    <2>1. SweepTypes /\ ClockInv
      BY DEF SweepInv
    <2>2. \A u \in Learners : today[u] \in Int
      BY <2>1, DatesAreNats DEF SweepTypes
    <2> QED
      BY <2>1, <2>2 DEF SweepTypes, ClockInv, Asleep
  <1>f. ASSUME UNCHANGED settled
        PROVE  \A u \in Learners : settled[u] <= settled'[u] /\ settled'[u] < today[u]
    BY <1>t, <1>f
  <1>b. ASSUME NEW s \in Replicas, run[s].pc = "batch" PROVE run[s] \in UnderWay
    BY <1>t, <1>b
  <1>1. ASSUME NEW s \in Replicas, StartRun(s)
        PROVE  SweepInv' /\ \A u \in Learners : settled'[u] >= settled[u]
    <2>1. PICK b \in Batches :
             run' = [run EXCEPT ![s] = [pc |-> "batch", batch |-> b, failed |-> {},
                                        full |-> Cardinality(b) = BatchSize,
                                        today |-> today, utc |-> utc]]
      BY <1>1 DEF StartRun
    <2>2. b \in SUBSET Learners
      BY <1>t DEF Batches, Candidates
    <2>3. run' \in [Replicas -> {Asleep} \cup UnderWay]
      BY <1>t, <2>1, <2>2 DEF UnderWay
    <2> QED
      BY <1>1, <1>t, <1>f, <2>1, <2>3, WatermarkStep DEF StartRun
  <1>2. ASSUME NEW s \in Replicas, Serve(s)
        PROVE  SweepInv' /\ \A u \in Learners : settled'[u] >= settled[u]
    <2>1. PICK u \in run[s].batch \ Poisoned :
             /\ settled' = [settled EXCEPT ![u] =
                    IF u \in active THEN WatermarkAfter(u, run[s].today[u]) ELSE @]
             /\ run' = [run EXCEPT ![s].batch = @ \ {u}]
      BY <1>2 DEF Serve
    <2>2. run[s] \in UnderWay /\ u \in Learners /\ run[s].today[u] \in Dates
      BY <1>2, <1>b DEF Serve, UnderWay
    <2>3. run[s].today[u] <= today[u] /\ run[s].today[u] \in Int
      BY <1>2, <2>2, DatesAreNats DEF Serve, SweepInv, ClockInv
    <2> DEFINE after == WatermarkAfter(u, run[s].today[u])
    <2>4. after \in Int /\ after >= settled[u] /\ after < today[u]
      <3>1. /\ after \in Int /\ after >= settled[u]
            /\ settled[u] < run[s].today[u] => after < run[s].today[u]
        BY <1>t, <2>2, WatermarkBounds
      <3>2. settled[u] >= run[s].today[u] => after = settled[u]
        BY <1>t, <2>2, <2>3 DEF WatermarkAfter
      <3> QED
        BY <1>t, <2>2, <2>3, <3>1, <3>2
    <2>5. /\ settled' \in [Learners -> Int]
          /\ \A x \in Learners : settled[x] <= settled'[x] /\ settled'[x] < today[x]
      BY <1>t, <2>1, <2>2, <2>4
    <2>6. /\ run' \in [Replicas -> {Asleep} \cup UnderWay]
          /\ \A r \in Replicas : run'[r].pc = run[r].pc /\ run'[r].today = run[r].today
      BY <1>t, <2>1, <2>2 DEF UnderWay
    <2> QED
      BY <1>2, <1>t, <2>5, <2>6, WatermarkStep DEF Serve
  <1>3. ASSUME NEW s \in Replicas, ServeFails(s)
        PROVE  SweepInv' /\ \A u \in Learners : settled'[u] >= settled[u]
    <2>1. PICK u \in run[s].batch :
             run' = [run EXCEPT ![s].batch = @ \ {u}, ![s].failed = @ \cup {u}]
      BY <1>3 DEF ServeFails
    <2>2. run[s] \in UnderWay
      BY <1>3, <1>b DEF ServeFails
    <2>3. /\ run' \in [Replicas -> {Asleep} \cup UnderWay]
          /\ \A r \in Replicas : run'[r].pc = run[r].pc /\ run'[r].today = run[r].today
      BY <1>t, <2>1, <2>2 DEF UnderWay
    <2> QED
      BY <1>3, <1>t, <1>f, <2>3, WatermarkStep DEF ServeFails
  <1>4. ASSUME NEW s \in Replicas, SkipEnded(s)
        PROVE  SweepInv' /\ \A u \in Learners : settled'[u] >= settled[u]
    <2>1. PICK u \in (run[s].batch \cap Poisoned) \ active :
             run' = [run EXCEPT ![s].batch = @ \ {u}]
      BY <1>4 DEF SkipEnded
    <2>2. run[s] \in UnderWay
      BY <1>4, <1>b DEF SkipEnded
    <2>3. /\ run' \in [Replicas -> {Asleep} \cup UnderWay]
          /\ \A r \in Replicas : run'[r].pc = run[r].pc /\ run'[r].today = run[r].today
      BY <1>t, <2>1, <2>2 DEF UnderWay
    <2> QED
      BY <1>4, <1>t, <1>f, <2>3, WatermarkStep DEF SkipEnded
  <1>5. ASSUME NEW s \in Replicas, EndRun(s) \/ RunLost(s)
        PROVE  SweepInv' /\ \A u \in Learners : settled'[u] >= settled[u]
    <2>1. run' = [run EXCEPT ![s] = Asleep] /\ UNCHANGED <<settled, active, clock>>
      BY <1>5 DEF EndRun, RunLost
    <2>2. run' \in [Replicas -> {Asleep} \cup UnderWay]
      BY <1>t, <2>1
    <2> QED
      BY <1>t, <1>f, <2>1, <2>2, WatermarkStep
  <1>6. ASSUME NEW u \in Learners, Read(u)
        PROVE  SweepInv' /\ \A x \in Learners : settled'[x] >= settled[x]
    <2>1. today[u] \in Dates /\ settled[u] \in Int
      BY <1>t
    <2>2. /\ settled' \in [Learners -> Int]
          /\ \A x \in Learners : settled[x] <= settled'[x] /\ settled'[x] < today[x]
      BY <1>6, <1>t, <2>1, WatermarkBounds DEF Read
    <2> QED
      BY <1>6, <1>t, <2>2, WatermarkStep DEF Read
  <1>7. ASSUME NEW u \in Learners, EndPlan(u)
        PROVE  SweepInv' /\ \A x \in Learners : settled'[x] >= settled[x]
    BY <1>7, <1>t, <1>f, WatermarkStep DEF EndPlan
  <1>8. CASE Tick
    <2>1. today' \in [Learners -> Dates] /\ utc' \in Dates
      BY <1>8 DEF Tick, LocalDates
    <2>2. \A u \in Learners : today[u] <= today'[u]
      BY <1>8, <1>t DEF Tick
    <2>3. SweepTypes'
      BY <1>8, <2>1 DEF SweepInv, Tick, SweepTypes
    <2>4. \A u \in Learners : today'[u] \in Int
      BY <2>1, DatesAreNats
    <2>5. \A s \in Replicas, u \in Learners :
             run[s].pc = "batch" => run[s].today[u] \in Int
      BY <1>b, DatesAreNats DEF UnderWay
    <2>6. ASSUME NEW u \in Learners
          PROVE  NoDate <= settled'[u] /\ settled'[u] < today'[u]
      BY <1>8, <1>t, <2>2, <2>4 DEF Tick, SweepInv, ClockInv
    <2>7. ASSUME NEW s \in Replicas, run'[s].pc = "batch", NEW u \in Learners
          PROVE  run'[s].today[u] <= today'[u]
      BY <1>8, <1>t, <2>2, <2>4, <2>5, <2>7 DEF Tick, SweepInv, ClockInv
    <2> QED
      BY <1>8, <1>t, <2>3, <2>6, <2>7 DEF Tick, SweepInv, ClockInv
  <1>9. CASE UNCHANGED vars
    BY <1>9, <1>t DEF vars, clock, SweepInv, SweepTypes, ClockInv
  <1> QED
    BY <1>1, <1>2, <1>3, <1>4, <1>5, <1>6, <1>7, <1>8, <1>9 DEF Next, Sweeping

LEMMA SweepInvariant == Spec => []SweepInv
  <1>1. SweepInv /\ [Next]_vars => SweepInv'
    BY SweepStep
  <1> QED
    BY SweepInitial, <1>1, PTL DEF Spec

\* No run and no read judges a day that is still open for its learner, however
\* late the run is (nightly.py, settlement.py: the loop stops before today).
THEOREM OpenDayNeverJudged == Spec => []OpenDayLeftAlone
  <1>1. SweepInv => OpenDayLeftAlone
    BY DEF SweepInv, ClockInv, OpenDayLeftAlone
  <1> QED
    BY <1>1, SweepInvariant, PTL

\* No interleaving of runs, reads and midnights takes a watermark back.
THEOREM WatermarksGrow == Spec => WatermarkNeverBack
  <1>1. SweepInv /\ [Next]_vars
            => [\A u \in Learners : settled'[u] >= settled[u]]_vars
    BY SweepStep
  <1> QED
    BY <1>1, SweepInvariant, PTL DEF Spec, WatermarkNeverBack

-----------------------------------------------------------------------------
\* As long as a settlement can reach as far back as the calendar does, a run
\* leaves behind what it should have caught up with in its batch only.
LEMMA CatchUpStep ==
    ASSUME MaxDay <= MaxDaysPerSettlement, SweepInv, CatchUpInv, [Next]_vars
    PROVE  CatchUpInv'
  <1>t. /\ settled \in [Learners -> Int] /\ active \in SUBSET Learners
        /\ run \in [Replicas -> {Asleep} \cup UnderWay]
        /\ utc \in Int /\ \A u \in Learners : settled[u] >= -1
        /\ Asleep.pc = "asleep"
    <2>1. SweepTypes /\ ClockInv
      BY DEF SweepInv
    <2> QED
      BY <2>1, DatesAreNats DEF SweepTypes, ClockInv, Asleep
  <1>b. ASSUME NEW s \in Replicas, run[s].pc = "batch" PROVE run[s] \in UnderWay
    BY <1>t, <1>b
  <1>m. settled' \in [Learners -> Int] /\ \A u \in Learners : settled'[u] >= settled[u]
    BY SweepStep DEF SweepInv, SweepTypes
  \* A run that a step does not touch stays as caught up as it was.
  <1>k. ASSUME NEW s \in Replicas, run'[s] = run[s], active' \subseteq active,
               run'[s].pc = "batch", ~run'[s].full,
               NEW u \in active' \ (run'[s].batch \cup run'[s].failed)
        PROVE  Settled(s, u)'
    <2>1. Settled(s, u)
      BY <1>k DEF CatchUpInv
    <2>2. run[s].today[u] \in Int /\ run[s].utc \in Int
      BY <1>t, <1>b, <1>k, DatesAreNats DEF UnderWay
    <2> QED
      BY <1>t, <1>k, <1>m, <2>1, <2>2 DEF Settled
  <1> SUFFICES ASSUME NEW r \in Replicas, run'[r].pc = "batch", ~run'[r].full,
                      NEW u \in active' \ (run'[r].batch \cup run'[r].failed)
               PROVE  Settled(r, u)'
    BY DEF CatchUpInv
  <1>1. ASSUME NEW s \in Replicas, StartRun(s) PROVE Settled(r, u)'
    <2>1. PICK b \in Batches :
             run' = [run EXCEPT ![s] = [pc |-> "batch", batch |-> b, failed |-> {},
                                        full |-> Cardinality(b) = BatchSize,
                                        today |-> today, utc |-> utc]]
      BY <1>1 DEF StartRun
    <2>2. CASE r = s
      <3>1. run'[r].batch = b /\ run'[r].utc = utc /\ b = Candidates
        BY <1>t, <2>1, <2>2 DEF Batches
      <3>2. u \in active /\ u \notin Candidates /\ settled' = settled
        BY <1>1, <3>1 DEF StartRun
      <3>3. settled[u] >= utc - 1
        BY <1>t, <3>2 DEF Candidates, LongUnsettled
      <3> QED
        BY <3>1, <3>2, <3>3 DEF Settled
    <2>3. CASE r # s
      BY <1>1, <1>t, <1>k, <2>1, <2>3 DEF StartRun
    <2> QED
      BY <2>2, <2>3
  <1>2. ASSUME NEW s \in Replicas, Serve(s) PROVE Settled(r, u)'
    <2>1. PICK x \in run[s].batch \ Poisoned :
             /\ settled' = [settled EXCEPT ![x] =
                    IF x \in active THEN WatermarkAfter(x, run[s].today[x]) ELSE @]
             /\ run' = [run EXCEPT ![s].batch = @ \ {x}]
      BY <1>2 DEF Serve
    <2>2. run[s] \in UnderWay /\ x \in Learners /\ active' = active
      BY <1>2, <1>b DEF Serve, UnderWay
    <2>3. CASE r = s /\ u = x
      <3>1. run'[r].today[u] = run[s].today[x] /\ run[s].today[x] \in Dates
        BY <1>t, <2>1, <2>2, <2>3 DEF UnderWay
      <3>2. settled'[u] = WatermarkAfter(x, run[s].today[x])
        BY <1>t, <2>1, <2>2, <2>3
      <3>3. run[s].today[x] \in Int /\ run[s].today[x] <= MaxDaysPerSettlement
        BY <3>1, MaxDayAssumption, CapAssumption DEF Dates
      <3>4. settled[x] >= run[s].today[x] - 1 - MaxDaysPerSettlement
        BY <1>t, <2>2, <3>3, CapAssumption
      <3>5. WatermarkAfter(x, run[s].today[x]) >= run[s].today[x] - 1
        BY <1>t, <2>2, <3>1, <3>4, WatermarkBounds
      <3> QED
        BY <3>1, <3>2, <3>5 DEF Settled
    <2>4. CASE r = s /\ u # x
      <3>1. /\ run[s].pc = "batch" /\ ~run[s].full
            /\ u \in active \ (run[s].batch \cup run[s].failed)
            /\ run'[s].today = run[s].today /\ run'[s].utc = run[s].utc
        BY <1>2, <1>t, <2>1, <2>2, <2>4 DEF Serve, UnderWay
      <3>2. Settled(s, u)
        BY <3>1 DEF CatchUpInv
      <3>3. settled'[u] = settled[u]
        BY <1>t, <2>1, <2>2, <2>4
      <3> QED
        BY <2>4, <3>1, <3>2, <3>3 DEF Settled
    <2>5. CASE r # s
      BY <1>t, <1>k, <2>1, <2>2, <2>5
    <2> QED
      BY <2>3, <2>4, <2>5
  <1>3. ASSUME NEW s \in Replicas, ServeFails(s) PROVE Settled(r, u)'
    <2>1. PICK x \in run[s].batch :
             run' = [run EXCEPT ![s].batch = @ \ {x}, ![s].failed = @ \cup {x}]
      BY <1>3 DEF ServeFails
    <2>2. run[s] \in UnderWay
      BY <1>3, <1>b DEF ServeFails
    <2>3. CASE r = s
      <3>1. /\ run[s].pc = "batch" /\ ~run[s].full
            /\ u \in active \ (run[s].batch \cup run[s].failed)
            /\ run'[s].today = run[s].today /\ run'[s].utc = run[s].utc
        BY <1>3, <1>t, <2>1, <2>2, <2>3 DEF ServeFails, UnderWay
      <3>2. Settled(s, u)
        BY <3>1 DEF CatchUpInv
      <3> QED
        BY <1>3, <2>3, <3>1, <3>2 DEF Settled, ServeFails
    <2>4. CASE r # s
      BY <1>3, <1>t, <1>k, <2>1, <2>4 DEF ServeFails
    <2> QED
      BY <2>3, <2>4
  <1>4. ASSUME NEW s \in Replicas, SkipEnded(s) PROVE Settled(r, u)'
    <2>1. PICK x \in (run[s].batch \cap Poisoned) \ active :
             run' = [run EXCEPT ![s].batch = @ \ {x}]
      BY <1>4 DEF SkipEnded
    <2>2. run[s] \in UnderWay
      BY <1>4, <1>b DEF SkipEnded
    <2>3. CASE r = s
      <3>1. /\ run[s].pc = "batch" /\ ~run[s].full
            /\ u \in active \ (run[s].batch \cup run[s].failed)
            /\ run'[s].today = run[s].today /\ run'[s].utc = run[s].utc
        BY <1>4, <1>t, <2>1, <2>2, <2>3 DEF SkipEnded, UnderWay
      <3>2. Settled(s, u)
        BY <3>1 DEF CatchUpInv
      <3> QED
        BY <1>4, <2>3, <3>1, <3>2 DEF Settled, SkipEnded
    <2>4. CASE r # s
      BY <1>4, <1>t, <1>k, <2>1, <2>4 DEF SkipEnded
    <2> QED
      BY <2>3, <2>4
  <1>5. ASSUME NEW s \in Replicas, EndRun(s) \/ RunLost(s) PROVE Settled(r, u)'
    <2>1. run' = [run EXCEPT ![s] = Asleep] /\ active' = active
      BY <1>5 DEF EndRun, RunLost
    <2>2. r # s
      BY <1>t, <2>1
    <2> QED
      BY <1>t, <1>k, <2>1, <2>2
  <1>6. ASSUME NEW x \in Learners, Read(x) \/ EndPlan(x) PROVE Settled(r, u)'
    BY <1>6, <1>k DEF Read, EndPlan
  <1>7. CASE Tick \/ UNCHANGED vars
    BY <1>7, <1>k DEF Tick, vars
  <1> QED
    BY <1>1, <1>2, <1>3, <1>4, <1>5, <1>6, <1>7 DEF Next, Sweeping

\* When no account was left alone for longer than a settlement reaches back,
\* every run that got through and had room in its batch leaves no learner
\* behind but those whose settlement failed: one failing account, a lost run, a
\* plan that ends and a run of another replica stall nobody else.
THEOREM NobodyLeftBehind ==
    ASSUME MaxDay <= MaxDaysPerSettlement
    PROVE  Spec => RunCatchesUp
  <1>1. Init => CatchUpInv
    BY DEF Init, CatchUpInv, Asleep
  <1>2. SweepInv /\ CatchUpInv /\ [Next]_vars => CatchUpInv'
    BY CatchUpStep
  <1>3. ASSUME SweepInv, CatchUpInv, [Next]_vars, NEW s \in Replicas,
               EndRun(s), ~run[s].full, NEW u \in active \ run[s].failed
        PROVE  \/ settled[u] >= run[s].today[u] - 1
               \/ settled[u] >= run[s].utc - 1
    BY <1>3 DEF CatchUpInv, EndRun, Settled
  <1>4. SweepInv /\ CatchUpInv /\ [Next]_vars
            => [\A s \in Replicas :
                    EndRun(s) /\ ~run[s].full =>
                        \A u \in active \ run[s].failed :
                            \/ settled[u] >= run[s].today[u] - 1
                            \/ settled[u] >= run[s].utc - 1]_vars
    BY <1>3
  <1> QED
    BY <1>1, <1>2, <1>4, SweepInvariant, PTL DEF Spec, RunCatchesUp

=============================================================================
