------------------------------- MODULE Sweep -------------------------------
(***************************************************************************)
(* The settlement sweep over all learners: run and _candidates of          *)
(* app/workers/nightly.py, and the hourly loop of app/workers/scheduler.py, *)
(* which a web process starts only if RUN_SCHEDULER is set.  It is off by  *)
(* default and in render.yaml; a process without it sweeps when somebody   *)
(* runs the worker (python -m app.workers.nightly), or never.              *)
(*                                                                         *)
(* Of a learner's account the module keeps the watermark                   *)
(* last_settled_date; Requests has what one settlement does.  Two runs     *)
(* that reach the same learner are serialised by the row lock of           *)
(* settle_user, so one learner's settlement is one step.                   *)
(***************************************************************************)
EXTENDS Calendar, FiniteSets

CONSTANTS Learners,
          Zone,                 \* the kind of time zone of each learner
          Replicas,             \* processes that may sweep
          Scheduled,            \* those whose RUN_SCHEDULER is true
          BatchSize,            \* BATCH_SIZE
          Poisoned,             \* learners whose settlement always raises
          MaxDaysPerSettlement,
          MaxFaults             \* bound: kills and passing failures

ASSUME ZoneAssumption == Zone \in [Learners -> ZoneKinds]
ASSUME ScheduledAssumption == Scheduled \subseteq Replicas
ASSUME BatchSizeAssumption == BatchSize \in Nat \ {0}
ASSUME PoisonedAssumption == Poisoned \subseteq Learners
ASSUME CapAssumption == MaxDaysPerSettlement \in Nat \ {0}
ASSUME MaxFaultsAssumption == MaxFaults \in Nat

VARIABLES
    settled, \* last_settled_date of each learner
    active,  \* learners with an active plan
    today,   \* the study date of each learner
    utc,     \* the date in UTC
    run,     \* the sweep of each replica, asleep or under way
    faults

clock == <<today, utc>>
vars == <<settled, active, clock, run, faults>>

Asleep == [pc |-> "asleep"]

\* Plans start on day 0, the day after NoDate, and nobody has been settled.
Init ==
    /\ settled = [u \in Learners |-> NoDate]
    /\ active = Learners
    /\ utc = 0
    /\ today \in {t \in [Learners -> Dates] :
                     \A u \in Learners : t[u] \in LocalDates(0, Zone[u])}
    /\ run = [s \in Replicas |-> Asleep]
    /\ faults = 0

\* Fault: a day more of slack.
DayMoreOfSlack(u) == settled[u] = NoDate \/ settled[u] < utc - 2

\* The filter of _candidates, by yesterday in UTC.
LongUnsettled(u) == settled[u] = NoDate \/ settled[u] < utc - 1

Candidates == {u \in active : LongUnsettled(u)}

\* A limit without an order: the database may return any of them.
Batches ==
    {b \in SUBSET Candidates :
        \/ Cardinality(b) = BatchSize
        \/ b = Candidates /\ Cardinality(b) < BatchSize}

\* A run, of the loop or of the command, reads the clock once, when it starts.
StartRun(s) ==
    /\ run[s].pc = "asleep"
    /\ \E b \in Batches :
          run' = [run EXCEPT ![s] = [pc |-> "batch", batch |-> b, failed |-> {},
                                     full |-> Cardinality(b) = BatchSize,
                                     today |-> today, utc |-> utc]]
    /\ UNCHANGED <<settled, active, clock, faults>>

\* Fault: the watermark is set to the run's yesterday whatever it was.
SettledTillYesterday(u, local) == local - 1

\* Fault: the day that is still open is judged too.
SettledTillToday(u, local) ==
    IF settled[u] + MaxDaysPerSettlement < local
    THEN settled[u] + MaxDaysPerSettlement ELSE local

\* The loop of settle_user, as far as the watermark can tell: one day after
\* the other up to the run's yesterday, at most the cap.
WatermarkAfter(u, local) ==
    LET reached == settled[u] + MaxDaysPerSettlement
        yesterday == local - 1
    IN  IF settled[u] >= yesterday THEN settled[u]
        ELSE IF reached < yesterday THEN reached ELSE yesterday

\* Settled and committed; a learner whose plan ended meanwhile is left alone.
Serve(s) ==
    /\ run[s].pc = "batch"
    /\ \E u \in run[s].batch \ Poisoned :
          /\ settled' = [settled EXCEPT ![u] =
                 IF u \in active THEN WatermarkAfter(u, run[s].today[u]) ELSE @]
          /\ run' = [run EXCEPT ![s].batch = @ \ {u}]
    /\ UNCHANGED <<active, clock, faults>>

\* Fault: the exception is not caught inside of the loop.
FailureEndsRun(s) ==
    /\ run[s].pc = "batch"
    /\ \E u \in run[s].batch :
          /\ u \in Poisoned \/ faults < MaxFaults
          /\ faults' = IF u \in Poisoned THEN faults ELSE faults + 1
          /\ run' = [run EXCEPT ![s] = Asleep]
    /\ UNCHANGED <<settled, active, clock>>

\* The settlement raises and is rolled back; the batch goes on.
ServeFails(s) ==
    /\ run[s].pc = "batch"
    /\ \E u \in run[s].batch :
          /\ u \in active
          /\ u \in Poisoned \/ faults < MaxFaults
          /\ faults' = IF u \in Poisoned THEN faults ELSE faults + 1
          /\ run' = [run EXCEPT ![s].batch = @ \ {u}, ![s].failed = @ \cup {u}]
    /\ UNCHANGED <<settled, active, clock>>

\* A poisoned learner without a plan any more: settle_user returns early.
SkipEnded(s) ==
    /\ run[s].pc = "batch"
    /\ \E u \in (run[s].batch \cap Poisoned) \ active :
          run' = [run EXCEPT ![s].batch = @ \ {u}]
    /\ UNCHANGED <<settled, active, clock, faults>>

\* The whole batch is through: back to sleep for an hour.
EndRun(s) ==
    /\ run[s].pc = "batch"
    /\ run[s].batch = {}
    /\ run' = [run EXCEPT ![s] = Asleep]
    /\ UNCHANGED <<settled, active, clock, faults>>

\* The process is killed, or the run raises outside of the batch; the loop, or
\* the next process, sweeps again after an interval.
RunLost(s) ==
    /\ run[s].pc = "batch"
    /\ faults < MaxFaults
    /\ faults' = faults + 1
    /\ run' = [run EXCEPT ![s] = Asleep]
    /\ UNCHANGED <<settled, active, clock>>

\* The learner opens the application.
Read(u) ==
    /\ u \in active \ Poisoned
    /\ settled' = [settled EXCEPT ![u] = WatermarkAfter(u, today[u])]
    /\ UNCHANGED <<active, clock, run, faults>>

\* The learner completes the tractate.
EndPlan(u) ==
    /\ u \in active
    /\ active' = active \ {u}
    /\ UNCHANGED <<settled, clock, run, faults>>

Tick ==
    /\ utc' \in {utc, utc + 1} \cap Dates
    /\ \E moved \in SUBSET Learners :
          today' = [u \in Learners |->
                       IF u \in moved THEN today[u] + 1 ELSE today[u]]
    /\ \A u \in Learners : today'[u] \in LocalDates(utc', Zone[u])
    /\ clock' # clock
    /\ UNCHANGED <<settled, active, run, faults>>

Sweeping(s) ==
    StartRun(s) \/ Serve(s) \/ ServeFails(s) \/ SkipEnded(s) \/ EndRun(s)

Next ==
    \/ \E s \in Replicas : Sweeping(s) \/ RunLost(s)
    \/ \E u \in Learners : Read(u) \/ EndPlan(u)
    \/ Tick

\* Time passes, and where the scheduler is started its loop sweeps every hour.
\* Nothing is promised of the learners, nor of whoever runs the command.
Fairness == WF_vars(Tick) /\ \A s \in Scheduled : WF_vars(Sweeping(s))

Spec == Init /\ [][Next]_vars /\ Fairness

-----------------------------------------------------------------------------
\* A run that is late, because it started before midnight or waited for the
\* lock behind another replica, never takes a watermark back: the days behind
\* it would be judged twice (scheduler.py: wasteful, not wrong).
WatermarkNeverBack ==
    [][\A u \in Learners : settled'[u] >= settled[u]]_vars

\* No run judges a day that is still open for its learner.
OpenDayLeftAlone == \A u \in Learners : settled[u] < today[u]

\* A run that got through, and did not fill its batch, leaves no learner it
\* could settle behind its own clock, unless the watermark is as recent as
\* yesterday in UTC: one failing account does not stall the others
\* (nightly.py: must not stall the batch).
RunCatchesUp ==
    [][\A s \in Replicas :
        EndRun(s) /\ ~run[s].full =>
            \A u \in active \ run[s].failed :
                \/ settled[u] >= run[s].today[u] - 1
                \/ settled[u] >= run[s].utc - 1]_vars

\* If some process has RUN_SCHEDULER set: every day of a learner who stays away,
\* but keeps the plan, is judged in the end (scheduler.py: a lapsed learner's
\* streak would sit frozen forever).
OldDaysJudged ==
    Scheduled # {} =>
        \A u \in Learners \ Poisoned, d \in Dates :
            (u \in active /\ utc - 1 > d)
               ~> (settled[u] >= d \/ u \notin active)

=============================================================================
