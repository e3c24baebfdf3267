# Mishna: a verification of the study economy

This directory holds TLA+ modules of the backend in `src/app/`, the TLC
configurations that check them, and proofs that TLAPS checks. The application
turns daily study of a tractate into an economy: every date is judged once, the
verdict moves points and a streak, points buy streak freezes, freezes and rest
days soften verdicts. What must be right is that economy: it is a long-lived
account, changed by requests that are retried, cut short and sent in any order,
and its mistakes are permanent.

Contents: [the system](#the-system), [the modules](#the-modules),
[what is checked](#what-is-checked), [where code and documents
disagree](#where-code-and-documents-disagree), [what is
proved](#what-is-proved), [what is left out](#what-is-left-out),
[the plan](#the-plan).

## The system

A FastAPI process serves one web page. Every request runs in one SQLAlchemy
session, that is one database transaction, that commits when the handler
returns and rolls back when it raises (`app/db/session.py`). Learners who do not
come back are settled by an hourly asyncio loop in the same process, but only where
`RUN_SCHEDULER` is set; it is off by default and in `render.yaml`, and then somebody
has to run the worker's command, or they are settled when they read again. Tests use
SQLite; production is PostgreSQL. The page sends each call with an access token it keeps
in local storage, and refreshes it with a rotating token in a cookie.

| component | state | operations | talks to |
|---|---|---|---|
| scoring (`services/scoring.py`) | none (settings) | `multiplier_for`, `points_for_completion`, `penalty_for_miss` | called by settlement |
| calendar (`services/calendar.py`) | none | `UserClock.local_date`, `classify_day`, `required_units_for` | everything that has a date |
| account (`models.py`) | `user_stats`, `study_plans`, `study_days`, `study_events`, `point_transactions`, `user_inventory`, `freeze_usages` | constraints: one active plan, one row per date, unique idempotency keys | all services |
| ledger (`services/ledger.py`) | `point_transactions`, the balance in `user_stats` | `lock_stats`, `post_transaction`, the key builders | settlement, shop |
| settlement (`services/settlement.py`) | the watermark `last_settled_date`, day verdicts, streak | `settle_user`, `get_or_create_day`, `_decide`, `_apply`, `credit_day`, `_miss_day`, `_freeze_day`, `_neutral_day` | ledger, scoring, calendar; called by study and by the sweep |
| study (`services/study.py`) | events, units of the day, reading cursor | `log_study`, `today_state` | settlement first, then `credit_day` |
| plans (`services/progress.py`) | plans, the open row of a date | `create_plan`, `change_goal`, `set_position`, `switch_tractate`, `project_completion` | settlement (`get_or_create_day` rules), calendar |
| shop (`services/shop.py`) | inventory | `purchase` | ledger |
| handlers (`api/routes.py`, `db/session.py`) | the transaction, row locks, what the session has read | one function per route | all services |
| sweep (`workers/nightly.py`, `workers/scheduler.py`) | none | the command, or every hour where `RUN_SCHEDULER` is set: choose learners whose watermark is behind, settle each in a transaction of its own | settlement |
| seeding (`db/seed.py`) | tractates, mishnayot, shop items | commit per tractate, resume | start-up |
| sessions (`api/routes.py`, `api/auth_google.py`, `core/security.py`) | `users`, `refresh_tokens`, the cookies | register, login, Google callback, refresh with rotation, logout | the web page |
| web page (`web/index.html`) | access token, screen, the flow cookie | `boot()`, `api()` with one refresh and one retry, sign-in, logout, the key of a log | sessions, handlers |
| texts (`scripts/fetch_texts.py`, `services/texts.py`) | one file per tractate, a cache | a download run over layered editions; `_load`, `get_mishnah` | Sefaria; the portion on screen |
| dev endpoints, configuration, migrations, achievements | — | not modelled | |

### What is hard

- **Live and settled verdicts.** Today is credited when the quota is reached, and
  the same date is settled after it closes. Two code paths, one verdict.
- **Time.** A day is a date in the learner's zone with a 03:00 rollover. Some code
  uses the UTC date instead (`progress.py:92`, `:237`, `nightly.py:65`), and the
  learner can change zones, which moves today backwards.
- **Order.** Multiplier and streak depend on the days before, so days must be
  judged in calendar order; a settlement has a cap on how many it judges.
- **The plan changes under the days.** Goals, positions, tractates and study weeks
  change between the closing of a day and its settlement.
- **Retries and failures.** A client sends a request again with the same
  `Idempotency-Key` when the answer is lost; a handler can fail after several days
  were settled.
- **Identity.** `_decide` recognises a rest day by `is`, which depends on whether
  the row was built or read in this transaction.
- **Two requests at once.** On PostgreSQL only `user_stats` is locked, the plan is
  read before the lock, half of the handlers lock nothing, and a session answers a
  second read of a row from its first. A page left open over midnight goes on sending
  the date and the units it showed the day before.
- **Two tabs at once.** They share the cookie and local storage, each refresh
  revokes the token it used, and answers come in any order or not at all.
- **A source that refuses.** Sefaria answers some requests of a run and not others;
  what came is layered into one text that must still name its editions. A book that
  was refused whole is put together from chapters that Sefaria answers one by one.

`PROJECT.json` lists each hazard at its line with the properties that cover it.

### What makes each component correct

- scoring: a completed day is worth at least one point; a penalty never exceeds
  what the balance can lose.
- ledger: the balance is the sum of the ledger, at every point of its history;
  one transaction per key.
- settlement: each closed day judged, exactly once, in order, paid for exactly
  what its row shows; today can be won and never lost; a freeze is used on one day.
- study: units add up to the events; a key counts once; nothing past the end of
  the tractate; the cursor never passes over a mishnah that no event records.
- plans: no change of goal, position or tractate changes a verdict already given,
  or makes one unfair. (That one plan is active is a unique index.)
- shop: every freeze bought is owned or spent on one day; a retry grants nothing.
- handlers: whatever overlaps, waits, deadlocks or fails, the account is one that
  the abstract book allows, and every request ends.
- sweep: reading or sweeping a current account changes nothing; a late run takes no
  watermark back; where the scheduler runs, every closed day is eventually judged.
- estimate: the projected end is the study day on which the last unit fits.
- portion: the next mishnah is on screen, and ticking does not move the portion.
- seeding: no half tractate; whoever serves has all of them; every restart resumes.
- sessions: one account per login; every call ends; a token used twice revokes its
  chain (it does not: `reuse`).
- texts: a passage names its edition (with one exception, below); editions fill gaps in
  order; a run's report is true.

## The modules

```
Scoring   Calendar
      \    /
      Account              one learner's tables, the ledger
      /     \
 Settlement  Shop
   /    \      |
Study  Plans   |
   \    |     /
   AccountSafety           what a sound account is          DayBook
      |         \                                    the abstract specification
      |        Concurrent  overlapping requests --implements--^   ^
   Requests       |        one request at a time                  |
      |           |                                               |
 RequestsSafety --|--------------implements-----------------------+
          |       |
       Portion     MCConcurrent
          |
      MCRequests

AccountProofs               the lemmas about one account (on AccountSafety)
    |         \
RequestsProofs  ConcurrentProofs    (on Portion, on Concurrent)

Projection  the estimate         MCProjection  ProjectionProofs   (on Calendar)
Sweep       many learners        MCSweep       SweepProofs        (on Calendar)
Seed        booting instances    MCSeed        SeedProofs
Sessions    accounts, two tabs   MCSessions    SessionsProofs
Corpus      the texts            MCCorpus      CorpusProofs
```

| module | models | how |
|---|---|---|
| `Scoring` | `services/scoring.py` | multipliers in halves (3 is 1.5); `PointsForCompletion` rounds half up as `Decimal.quantize` does |
| `Calendar` | `services/calendar.py` | a date is a natural number; an instant is the pair of the study date and the UTC date, which differ by at most a day with a sign fixed by the kind of zone (−1 east, 0, 1 west) |
| `Account` | `models.py`, `services/ledger.py` | one record; a date with no row in `study_days` has status `"none"`; ledger keys are pairs of a type and a date or request key |
| `Settlement` | `services/settlement.py` | one operator per function; `SettleDay` is one iteration of the loop of `settle_user` |
| `Study` | `services/study.py` | `LogStudy` is what `log_study` does after settling |
| `Plans` | `services/progress.py` | operators on the account |
| `Shop` | `services/shop.py` | `CanPurchase`, `Purchase` |
| `DayBook` | what the README promises of the economy | abstract: a book with a line per date, points and freezes; `Judge` and `Buy` |
| `Requests` | `api/routes.py`, `db/session.py`, `workers/nightly.py` and the bodies of `settle_user`, `log_study`, `today_state` | the state machine of serial requests |
| `Concurrent` | the same handlers on PostgreSQL, `lock_stats`, `uq_one_active_plan` | sessions that read, flush, wait, deadlock and commit |
| `Portion` | `api/routes.py` (`_portion_ordinals`, `study_portion`) | operators on the account, evaluated in every state of `Requests` |
| `Projection` | `services/progress.py` (`project_completion`) | a state machine, one date of the walk per step |
| `Sweep` | `workers/nightly.py`, `workers/scheduler.py` | of each learner only the watermark, the plan and the study date; a learner's settlement is one step |
| `Seed` | `db/seed.py` | tables as sets of slugs; each instance has its transaction (`pending`) and the snapshot it booted with (`existing`) |
| `Sessions` | `api/auth_google.py`, `core/security.py`, the routes under `/auth`, the `api()` and `boot()` of the page | each tab waits for at most one request, which is sent, read, committed or rolled back, and answered in steps of their own |
| `Corpus` | `scripts/fetch_texts.py`, `services/texts.py` | a body of text is the edition it is from; a run is a loop over tractates, books and editions |

`Requests` has the committed account `db`, the working copy `w` of the running
transaction, its program counter `pc`, request `req`, the loop variables `cursor`
and `processed` of `settle_user`, and the clock `today`, `utc`. A request that
settles (`BeginLog`, `BeginRead`, `BeginSweep`) judges one day per `SettleNext`,
opens today's row in `EndSettle`, and, when it is a log, goes on to `LogReplay`,
`LogRefused` or `LogUnits`. Requests that do not settle (`BuyFreeze`, `NewPlan`,
`UpdatePlan`, `SwitchPlan`, `SetStudyWeek`, `SetTimezone`) compute the working copy
in one step. `Commit` makes it the committed account; `Abort` is any exception,
lost connection or killed process at any point before.

Choices a reader should know of:

- Requests of one learner are served one after another in `Requests`. Interleaving
  inside a transaction is with failures and, between transactions, with time.
  Requests that overlap are in `Concurrent`.
- A handler that changes state reads the clock once, in the `now = now or clock.now()`
  of its service (`study.py:88`, `progress.py:220`, `shop.py:36`, `nightly.py:36`) or in
  the `study.local_today` of its route (`routes.py:271`, `:635`), and hands the instant
  or the date on. So the clock moves only between requests: a tick during one is a tick
  after it.
- `fresh` in `Decide` says whether the row was built by this iteration. Only then
  is `day_kind` the enum member that `is` compares with; a row from the database
  holds a plain string (`models.py:374` maps the column as `String(16)`).
- A handler that raises changes nothing, so the refusals of handlers that do not
  settle are guards. Refusals behind a settlement are steps (`NoActivePlan`,
  `LogRefused`), because what they roll back matters.
- A purchase without the header has a fresh uuid for a key; it is modelled by the
  length of the ledger, which is never used twice.
- `plan.created` is the study date at `created_at`, kept because the documents
  speak of signup.
- Titles, texts, time stamps, `estimated_end_date` and the multiplier column of a
  day are informational and left out.

`Concurrent` follows SQLAlchemy on PostgreSQL at READ COMMITTED. A session keeps a row
as it first read it (`base`); its changes (`w`) are sent as the columns that differ
from that read, with absolute values (`UpdateRow`), so two sessions that change
different columns of a row both win and two that change the same one do not. A row
that was flushed is `held` until the end; `Wants` says which rows the next step needs,
`Waits` that another transaction has them, `Deadlocked` that some sessions wait for
each other, one of which PostgreSQL ends (`DeadlockVictim`). `log_study` begins with
the plan it has read and takes the lock on `user_stats` only then (`Settle`), as
`settlement.py:108` and `:118` do; change of goal, switch and study week never take it.
The settlement is one step here, its loop the function `SettleDays`; `Requests` has the
loop in steps. The page makes the key of a log from the date and the units on its
screen, which is not refreshed at midnight: `PageKeys(d)` are the keys of a page that
last answered on date `d`, for any `d` up to today and any number of the events there
were. With `WebClient = FALSE` there are clients beside the page that send no key.

`DayBook` is the promise: a line is open until it is judged, a verdict is final, only
completed days earn and only missed ones cost, a frozen day takes one freeze, and
points and freezes move in no other way. `ImplementsDayBook` instantiates it with
`Line(db.days[d])`, the balance and the inventory of the committed account, in
`Requests` and in `Concurrent`; a commit is a `Judge`, a `Buy` or a stutter.

`Sweep` abstracts one settlement to what the watermark shows of it; `Requests` has its
body. A run keeps the clock it read when it started (`run[s].utc`, `run[s].today`)
while time goes on. `_candidates` has a `LIMIT` and no `ORDER BY`, so `Batches` is
any choice of that size. `ServeFails` is the `except` of the loop, for a learner whose
settlement always raises or for a failure that passes; `RunLost` is a killed process
or an exception outside of the batch. A run of a second replica and a read by the
learner do the same to a first replica's batch: they move a watermark under it. The
checked instance uses one replica and reads; the proofs take any number. `Scheduled`
are the processes that have `RUN_SCHEDULER` set and so sweep again and again; any other
replica is a command that somebody may run or not.

`Seed` follows PostgreSQL: an insert of a slug that another transaction holds waits,
and raises if that one committed. `Kill` is the platform's health check, which gives
a boot the time for `Patience` tractates, and less than that `MaxFaults` times.

`Projection` is written as a state machine, not as a recursive operator, so that its
invariant can be proved.

`Sessions` keeps one row per account and per refresh token, the cookie and the local
storage the tabs share, and for each tab its screen, the access token it last saw and
the request it waits for. What a request read lies in it until it commits: another
request may commit in between, and the unique indexes on `google_sub` and on the
address of a password account then refuse it (`UniqueViolation`). An access token is
known by its account; that the server refuses it, because it has expired, can happen
at any call (`CallRefused`).

`Corpus` names a body of text by the edition it came from. `Came` is what one call of
`fetch_edition` may return: a book whole, some of its chapters after the gateway
refused the book, or nothing. For the primary the script does not name an edition
(`version=source`), so each chapter may come in another one; the layer is called by the
edition of the first chapter that came (`Assembled`). A `layer` is absorbed into
`found` where that has a gap, and `used` collects the names of the layers, which the
source line will show. `Pieces` remembers, for the property only, the editions in a
primary that it does not name. A crash while the file is
written leaves it empty or cut short; `Load` remembers an empty file as no text, and
fails on a cut one each time.

The `MC` modules give the tier table, zones, and the small data of a run;
`MC<module>_<run>.cfg` are the runs. The operators marked *Fault* in the modules are
seeded bugs, used only to show that each property notices one; no action uses them.

## What is checked

Deadlock is checked in every run. In `Requests` a learner can always open the
application; in `Concurrent` and `Sessions` the step `Done` stands for the bound that
was reached with nobody waiting, so a state in which somebody waits for ever is
reported.

| run | environment | properties |
|---|---|---|
| `steady` | a Thursday to a Monday, one plan, both study weeks, logs, purchases, reads, sweeps, changes of goal and position, aborts | `TypeOK`, `PaidOnce`, `StreakFollowsCalendar`, `ClosedDaysFinalised`, `VerdictsFair`, `NextIsShown`, `JudgedInOrder`, `CurrentAccountStays`, `PortionStays`, `UnseenRestDayHeld` |
| `retry` | keys sent again for logs and purchases, settlements capped at one day, tractate switched, time zone moved between kinds | `EventsAddUp`, `FreezesAddUp`, `Reconciled`, `NextIsShown`, `ImplementsDayBook`, `JudgedOnce`, `TodayOnlyWon` |
| `overlap` | two requests at once, of pages of today or yesterday and of clients without keys, with waits, deadlocks and rollbacks | `NothingSkipped`, `EventsCountOnce`, `AccountSound`, `ImplementsDayBook`, `EveryRequestEnds` |
| `walk` | every start in ten days, both study weeks, goals to 5, to 12 units left, a walk of two weeks | `ProjectionExact`, `CountsStudyDays`, `OverflowOnlyWhenHopeless`, `WeeklyLoad` |
| `sweep` | a process with `RUN_SCHEDULER`, an eastern, a western and a failing learner, batches of two, reads, plans that end, one lost run | `OpenDayLeftAlone`, `WatermarkNeverBack`, `RunCatchesUp`, `OldDaysJudged` |
| `boots` | two instances, three tractates, kills after each tractate and two earlier ones | `NoHalfTractate`, `ServesAll`, `EveryBootResumes` |
| `tabs` | two tabs that register, sign in, use, refresh and log out, one fault | `OneAccountPerLogin`, `EveryCallEnds` |
| `corpus` | two runs of the script for any tractates, chapters in any edition, one crash, reads in between | `Attributed`, `GapsFilledInOrder`, `ReportIsTrue`, `RunEnds` |

What the properties say, of the account under serial requests:

- `Reconciled`: the ledger chains without a gap from zero to the balance the
  learner sees, never below zero, no empty entry.
- `PaidOnce`: a completed day has exactly one award, for the points its row shows; a
  missed day exactly one fine or, with nothing to lose, none; any other day neither.
- `FreezesAddUp`: owned plus consumed freezes are the purchases in the ledger, and
  the consumed ones are exactly the frozen days.
- `StreakFollowsCalendar`: the streak snapshot of each day follows from the resolved
  day before it, and the counters are the last and the highest of them.
- `ClosedDaysFinalised`: nothing behind the watermark is open or skipped.
- `VerdictsFair`: only a weekday whose quota was not met is fined or costs a freeze;
  only a day whose quota was met, or the end of a tractate, is credited.
- `EventsAddUp`: day and learner totals are the sums of the events, each key once.
- `UnseenRestDayHeld`: a rest day without a row costs nothing.
- `JudgedOnce`: a commit never changes a verdict or the requirement it was judged
  against. `JudgedInOrder`: a commit judges only days after those judged before.
  `TodayOnlyWon`: today and the future are only ever resolved as completed.
  `CurrentAccountStays`: reading or sweeping a current account changes nothing.
- `ImplementsDayBook`: every commit is one the abstract book allows.
- `NextIsShown`: while the quota of the day is not met, or nothing was logged today,
  the next mishnah is on the screen, also after a change of goal, position or
  tractate. `PortionStays`: a log moves neither end of the portion.

Of overlapping requests:

- `AccountSound` is `Reconciled`, `PaidOnce` and `FreezesAddUp` again, and
  `ImplementsDayBook` the same book: the lock is enough for the economy.
- `EventsCountOnce`: the units of a day and of the learner are the sums of the events
  and a key is applied once, although a log writes absolute values it read earlier.
- `NothingSkipped`: the cursor of a plan is never ahead of what its events record, so
  no mishnah is passed over. That it is not behind either is false, with the keys of
  the page too (`lost_cursor`).
- `EveryRequestEnds`: nobody waits for ever.

Of the other parts:

- `ProjectionExact`: the estimate is a study day, and the first by which the goal
  holds everything left, against a direct count. `CountsStudyDays`,
  `OverflowOnlyWhenHopeless`, `WeeklyLoad`: the other numbers of the answer.
- `WatermarkNeverBack`, `OpenDayLeftAlone`: a run with an old clock, and a learner who
  moved on meanwhile. `RunCatchesUp`: a run that did not fill its batch leaves behind
  only learners who failed, or whose watermark is as recent as UTC yesterday.
  `OldDaysJudged`: where a process has `RUN_SCHEDULER` set, a day older than UTC
  yesterday is judged in the end, though its learner never comes back.
- `NoHalfTractate`, `ServesAll`: at no kill, and with no other instance, does a boot
  skip a tractate that is not whole. `EveryBootResumes`: an instance that is down
  comes to serve, however often boots are killed.
- `OneAccountPerLogin`: no two accounts answer to one login, and each has its stats.
  `EveryCallEnds`: no chain of refusals and retries goes round in a circle.
- `Attributed`: each passage shown names its edition, unless its chapter is a piece of a
  primary that came in several. `GapsFilledInOrder`: each place is from the first layer
  that held it. `ReportIsTrue`: what a run does not report as
  failed is there whole. `RunEnds`: a run comes to its report.

Which property goes with which environment is a result in itself. `JudgedInOrder` and
`StreakFollowsCalendar` hold, over any number of plans, for a learner whose study date
is the UTC date, who names no start dates, and whose settlements are not cut short by
the cap. They fail when settlements are capped, or when the learner moves west across
a date, because days are then judged after a later day was credited.
`ClosedDaysFinalised` needs one plan besides (`orphan`). `OldDaysJudged` needs
`RUN_SCHEDULER`, without which nothing sweeps.

### Bounds

Dates run to `MaxDay` (1 to 4), enough for a day to be missed, a freeze spent, a
tier crossed and, from the Thursday on which the runs begin, a weekend passed: `steady`
ends on the Monday. The tiers of `Requests` have their thresholds at one, two and three
days, so that short runs cross them; those of `overlap` at one and two. Goals
are 1 and 2, tractates have 2 or 3 units and a log has at most 2, so a quota is met
in one log or two, met exactly or passed, and a tractate ends inside a day.
`MaxEvents` and `MaxPlans` cap the log requests and the plans of a behaviour (2 or 3,
and 1 or 2). `MissPenalty` is larger than one day's award, so the clamp bites. There is
no symmetry: dates and keys are numbers.

The account is asked two questions, not one for each property: `steady` follows one plan
over days, `retry` an account that is cut up by plans, zones, caps and keys sent again.
`NextIsShown` is asked of both, since it depends on goal and position, which only the
first changes, and on tractates, which only the second does.

In `walk` the fourteen days of `MaxProjectionDays` hold ten study days of a five-day
learner, so twelve units at one a day overflow and everything else ends; the code has
ten years. In `sweep` the clock stops at `MaxDay` 3, so liveness is about days 0 and 1
and not about keeping up with an endless clock; a batch of two with one failing
learner is the smallest in which one failure may take another learner's place. In
`boots` three tractates let one instance be ahead of, beside and behind the other.

In `overlap` two sessions serve three requests over two days: a third request finds
what two overlapping ones left, the second day settles it, and a page of the first day
meets one of the second. A conflict needs two
transactions, since each of the rows is held by one of them, and a deadlock two rows.
In `tabs` one address and one Google account that has it, two tabs and three actions
are enough for two sign-ins and the call, refresh or logout that meets them; the
reachable refreshes and retries are not bounded. In `corpus` two books (the text and
a commentary), two chapters, one alternate, and libraries of one and of three editions
give a primary put together from two editions, a gap filled by the alternate, one filled
by none, and an edition never asked for; two runs and a crash give a file left by each.

### Fairness

`Requests` states none: a learner may stop at any point, and its properties are safety.

- `Concurrent`: a request that can go on again and again does, or fails: row locks are
  granted in order of arrival, and PostgreSQL breaks a deadlock. This is strong fairness
  of the session's step, with its enabling condition written out as `CanGoOn` (`[]<>`),
  which is cheaper to check. Nobody is assumed to send another request.
- `Sweep`: time passes (`WF` of `Tick`), and each process of `Scheduled` goes on with
  its loop, `asyncio.sleep` and `run` in turn (`WF` of `Sweeping`). A process is in
  `Scheduled` when it has `RUN_SCHEDULER=true`, which neither `core/config.py` nor
  `render.yaml` sets; of the worker's command nothing is assumed, and if `Scheduled` is
  empty `OldDaysJudged` says nothing: a learner who stays away is then settled when
  they come back (`src/README.md:85`). No learner is assumed to
  come back, and no failure to be avoided; lost runs are bounded by `MaxFaults`,
  because a process that is killed in every run never sweeps. `OldDaysJudged` needs
  fewer failing learners than the limit: with as many, the same ones may fill every
  batch, since they stay candidates for ever and nothing orders the query.
- `Seed`: an instance that is down is booted and a process that is up runs (`WF` of
  `Seeding`). Kills are not bounded once a boot has added `Patience` tractates.
- `Sessions`: the server works on what reached it and a `fetch` is answered or rejected
  (`WF` of `Server` and `Page` of each tab).
- `Corpus`: a run that was started goes on (`WF` of `Script`): `get()` has a timeout and
  gives up after four attempts, so no request hangs. A crash is not made up for by
  fairness; nobody is assumed to start another run.

## Where code and documents disagree

Each is a run that TLC refutes, with one property that quotes the document. The
`findings` in `PROJECT.json` give the lines.

| run | what the run shows |
|---|---|
| `rest_day` | A rest day is held only when the settlement itself creates its row. A learner who opened the application on that Friday has a row with a string kind, which `is DayKind.REST_DAY` does not recognise, and the day is missed or costs a freeze |
| `orphan` | A switch of tractate before the first settlement starts the cursor at the new plan: older open days stay open behind the watermark for ever |
| `lost_cursor` | Of two overlapping logs the second waits for the lock with the plan it read before it, and writes the cursor of that plan: both events are kept, and the cursor has moved by one. The keys of the web page do not prevent it: a page left open since yesterday sends a key of yesterday, and a fresh one a key of today |
| `reuse` | Two tabs refresh with the same cookie. The second presents a token that is used up, which revokes the whole chain and raises, and `get_session` rolls the revocation back: the chain lives on |

More, met while modelling, have no run of their own:

- East of UTC a plan made after local midnight starts on the UTC date, yesterday
  (`progress.py:92`); the first settlement judges a day before the learner signed up.
- A learner who completed the day and jumps back to the first mishnah has an empty
  portion (`routes.py:490`): today's units are taken from a cursor that no longer has
  them. `tests/test_portion.py:119` says of a rest day that an empty tab reads as
  broken.
- A switch before settlement turns a day missed under the old plan into an exempt
  one (`settlement.py:213`), and a plan finished and followed by a new one before the
  first settlement leaves an open day: both have the cause of `orphan`.
- With more days due than `max_days_per_settlement`, `log_study` credits today before
  older days are judged (`settlement.py:138`), against `settlement.py:16`. The default
  cap of 400 days makes it remote. It is why `JudgedInOrder` is stated in `steady`.
- `nightly.py:4` says that an hourly pass catches every rollover within the hour. East
  of UTC a day that has just closed is not behind UTC yesterday, and its learner is
  no candidate before midnight in UTC: `RunCatchesUp` has to make that exception.
- `change_goal` takes no lock (`progress.py:139`): a request that read the row of today
  while it was open can overwrite the quota and the kind of a day another request has
  completed meanwhile. The verdict and its points stay, which is what
  `ImplementsDayBook` shows in `overlap`; `JudgedOnce` includes the quota and is stated
  for serial requests.
- The answer that refuses a refresh does not carry the `delete_cookie` of
  `routes.py:209`, and the rotation of a token whose answer is lost leaves the browser
  with a used one: it is signed out at the next refresh.
- `fetch_edition` puts a book that was refused whole together from chapters, and takes of
  each the first version of its own answer (`fetch_texts.py:143`), but names only that of
  the first chapter that came. If Sefaria answers chapters in different editions, the
  file names one of them, against `src/README.md:230`, "records every version it used in
  the file's `sources`". `Attributed` makes that exception.
- A call that a stale tab makes again after a refresh goes out under the account that
  signed in meanwhile in the other tab.
- A file that a crash cut short raises `EOFError`, which `_load` does not catch
  (`texts.py:161`); a missing or empty one is cached as no text until the process ends.

## What is proved

Each theorem holds for every value of the constants that satisfies the assumptions
named in the modules, and states a property that a run checks on a small instance.

| theorem | module | says |
|---|---|---|
| `TypeCorrect` | `RequestsProofs` | `Spec => []TypeOK`: balance, streak, inventory and units never go below zero, dates stay in range |
| `LedgerIsTruth` | `RequestsProofs` | `Spec => []Reconciled` |
| `EachDayPaidOnce` | `RequestsProofs` | `Spec => []PaidOnce` |
| `FreezesNeverLost` | `RequestsProofs` | `Spec => []FreezesAddUp` |
| `VerdictsFinal` | `RequestsProofs` | `Spec => JudgedOnce` |
| `TodayNeverLost` | `RequestsProofs` | `Spec => TodayOnlyWon` |
| `UnseenRestHeld` | `RequestsProofs` | `Spec => UnseenRestDayHeld` |
| `CurrentUnchanged` | `RequestsProofs` | `Spec => CurrentAccountStays` |
| `RequestsImplementBook` | `RequestsProofs` | `Spec => ImplementsDayBook`: the requests implement the abstract book |
| `VerdictsAreFair` | `RequestsProofs` | `Spec => []VerdictsFair` |
| `EventsExplainUnits` | `RequestsProofs` | `Spec => []EventsAddUp` |
| `NextAlwaysShown` | `RequestsProofs` | `Spec => []NextIsShown` |
| `PortionKept` | `RequestsProofs` | `Spec => PortionStays` |
| `StreakIsCalendar` | `RequestsProofs` | `Spec => []StreakFollowsCalendar`, under the three conditions below |
| `OrderIsKept` | `RequestsProofs` | `Spec => JudgedInOrder`, under the same |
| `ClosedDaysAreFinal` | `RequestsProofs` | `Spec => []ClosedDaysFinalised`, under the same and `MaxPlans = 1` |
| `AccountAlwaysSound` | `ConcurrentProofs` | `Spec => []AccountSound`: of requests that overlap |
| `ConcurrentImplementsBook` | `ConcurrentProofs` | `Spec => ImplementsDayBook`: overlapping requests implement the same book |
| `NothingEverSkipped` | `ConcurrentProofs` | `Spec => []NothingSkipped`: no cursor runs ahead of the events |
| `UnitsCountOnce` | `ConcurrentProofs` | `Spec => []EventsCountOnce`: units are the events, keys count once |
| `EstimateIsExact`, `StudyDaysAreCounted`, `OverflowIsHopeless`, `WeekHoldsItsLoad` | `ProjectionProofs` | `[]ProjectionExact`, `[]CountsStudyDays`, `[]OverflowOnlyWhenHopeless`, `[]WeeklyLoad` |
| `TractatesComplete`, `ServingFindsAll` | `SeedProofs` | `[]NoHalfTractate`, `[]ServesAll` |
| `OpenDayNeverJudged`, `WatermarksGrow`, `NobodyLeftBehind` | `SweepProofs` | `OpenDayLeftAlone`, `WatermarkNeverBack`, `RunCatchesUp` |
| `LoginsUnique` | `SessionsProofs` | `[]OneAccountPerLogin` |
| `PassagesAttributed`, `GapsAreFilledInOrder`, `ReportsAreTrue` | `CorpusProofs` | `[]Attributed`, `[]GapsFilledInOrder`, `[]ReportIsTrue` |

Every safety property of a passing run has its theorem. `AccountProofs` holds what the
theorems about one account share: what each operation of the services does to a sound
account, to its verdicts, to its money, to its records.

### Assumptions

`BasePoints` and `FreezeCost` are positive, the penalty and the floor are natural
numbers, tiers are any sequence of thresholds with positive multipliers (in any order,
with gaps), goals and tractate sizes are positive, keys are numbers. Settlement may be
capped at any positive number of days, and zones, weeks, start dates and requests are
arbitrary. Beyond that:

- The three theorems about order assume `Zones = {0}`, `Starts = {}` and `MaxDay <=
  MaxDaysPerSettlement`: the learner's study date is the UTC date, plans start on the
  day they are made, and a settlement may judge every day that is due. Without the
  first and the last, TLC finds the properties violated.
- `NobodyLeftBehind` assumes `MaxDay <= MaxDaysPerSettlement` too.

### The account

`PaidOnce` speaks of the committed account and is not inductive: a commit copies the
working copy. `IInv` therefore asks the same of both, `Sound(db) /\ Sound(w)`, with
`Sound(a) == LedgerReconciles(a) /\ VerdictsPaidOnce(a)`, together with `TypeOK` and
the fact that a log that is past its settlement has a plan. The ledger lemmas say what
one posting does: `PostingReconciles` extends the chain of balances, `PostingKeys` says
that the keys are the old ones and the new one. `CreditDaySound` is where live credit
and settlement meet: an unresolved day has no award in the ledger (from
`VerdictsPaidOnce`), and its points are positive (`PointsPositive`), so the posting
succeeds and the row shows what was posted; the fallback of `credit_day` for a
duplicate key is dead code. `MissDaySound` does the same for a fine and for a clamped
fine of zero, which posts nothing. Everything that does not touch the ledger goes
through `SameLedgerSound`: an account with the same ledger is sound if each day keeps
its verdict or is one the ledger says nothing about. `NextIInv` has one step per action.

### The verdicts

What a commit does is what the request did to its working copy, so the action
properties need an invariant that remembers it. `VInv` says `Allowed(db, w, req.at)`:
from the committed account to the working copy no verdict has changed, nothing from the
date of the request on was judged except by completing that date, and rest days without
a row were held. It adds that the settlement has touched no day it has not come to
(`AheadUntouched`, without which `_decide` could meet a day the request itself opened),
that a request on a current account has done nothing, and that both accounts account
for their freezes. `OnlyCommits` then carries it from `w` to `db'`.

### The order

`OInv` ties the loop of `settle_user` to the calendar: the cursor is always the day the
next settlement would start from, so a loop that is aborted and begun again goes on
where the last commit ended; nothing is judged ahead of it except that day itself; at
most one plan is active; what the request has judged is later than everything committed
(`Later`). The streak is told pointwise (`StreakTold`), because `Max` over the days is a
`CHOOSE` whose value the lemma `GreatestDate` has to supply. For one plan, `Closed` adds
that the days from its start to the watermark are judged and that there is neither row
nor watermark before that start, which is just what a second plan breaks.

### The refinement

`Book!Judge` moves the balance by the sum of the lines a commit judges, and a sum over a
set is a recursive definition. It is reached all the same: `AccountProofs` shows, by a
set of least cardinality for which it would fail, that the recursion has one solution on
a finite set (`SumUnique`, `SumExists`) and that its value does not depend on the order
in which the members are taken (`SumUnfolds`, `SumAdds`). The lemmas that end in `Pays`
say of each operation that it pays for the one day it judges, or pays nothing and judges
nothing. `BInv` says that the working copy differs from the committed account by the
total of its new lines, or by one purchase; a commit is then `Judge`, `Buy` or a
stutter, and every other step a stutter.

### The records

`VerdictsFair` compares a day with its quota, and no operation checks that the two have
kept pace. `Recorded` says what keeps them so: a weekday's row asks for something and a
date without a row holds nothing, the units of each date and of the learner are the sums
of the events, a key counts once, each event lies inside the tractate of its plan, and
the one active plan has something left. The end of a tractate is then the one way to
credit a day below its quota. `RInv` asks it of both copies, and adds of a running log
that its copy shows the portion the committed account shows (`SamePortion`): the goal,
and the cursor less the units of today, which a log moves together. `NextIsShown` and
`PortionStays` follow.

### Overlapping requests

`KInv` says who may rely on what. No row has two holders; a session that holds the row
of `user_stats` works from an account that agrees with the committed one in balance,
ledger, freezes and verdicts, and its copy is that account with days judged (`Worked`)
or a freeze bought (`Bought`); the copy of one that does not hold it agrees with what it
read, however old. The rest is what a commit writes: the columns that changed, over
whatever is committed by then. `WrittenOver` shows that the holder writes what it worked
out, `WrittenBeside` that the others leave money and verdicts as they are, and so every
commit is an entry of the book or none. The loop of a settlement is the function
`SettleDays`, whose days are worked off one by one (`SettleDaysWorked`: there is no first
day after which that fails).

For the events, `WInv` adds `Tracked(db)`: each unit, of a day or of the learner, is the
sum of the events, keys count once, and each cursor is at most the sum of the units that
the events of its plan have (`Behind`). A session writes absolute values, so what it
writes is as good as what it read. The units it read under the lock, and they are the
committed ones until it commits (`ReadUnits`); a key that was free then is free still
(`LogsOnce`). The plan it may have read long before: but events are only ever added, so
a cursor that was behind them stays behind them, and the log's own units are added to
the cursor and to the events alike (`LoggedBehind`, `LoggedFollows`). The session may
thus take a cursor back, which is `lost_cursor`, but never past an event that is not
there. What a commit writes of plans and units over rows that others changed meanwhile
is in `WrittenCursors` and `WrittenCounts`. No key is needed for any of it.

### The other parts

- *Estimate.* `ProjectionExact` says nothing of a walk under way. The invariant adds that
  `done` is the goal times the study days counted so far, that these are exactly the
  study days among the dates walked, and that what was done before the present date is
  less than what is left. One step extends the dates by one.
- *Seeding.* Each boot's place in the payload covers what it has behind it: every
  tractate it has passed is committed, and at most the one it is at is pending. An
  instance killed between two commits starts again at the first, and skips only what is
  there.
- *Sweep.* The clock of a run is never ahead of a learner's, so its watermark stays behind
  the learner's today, and `max` of two watermarks never goes back. `NobodyLeftBehind`
  carries through the batch that whoever is not settled is still in it or has failed.
- *Sessions.* `LoginsUnique` rests on the
  indexes and on what a callback knows between its read and its commit (`Knows`).
- *Week.* Seven dates in a row have each weekday once (`OncePerWeek`), so `units_per_week`
  counts the study days of any week, whenever it begins.
- *Texts.* Every body found so far is from an edition that is used, or from one of the
  pieces of the primary, and so it is in the books built and on file (`BooksNamed`,
  `FilesCredited`); a place is empty while no edition
  that came holds it, and otherwise from the first that does (`Layered`); a tractate that
  the run has passed is whole on disk or reported (`Accounted`).

### Only model-checked

The five liveness properties: `EveryRequestEnds`, `OldDaysJudged`, `EveryBootResumes`,
`EveryCallEnds`, `RunEnds`. Liveness under fairness and `ENABLED` are out of the prover's
reach. So is what a recursive definition or a fold computes for every
input, apart from the sum and the loop above: the rules of `Scoring` enter the proofs by
their signs (`PointsPositive`), and their values are checked by the runs.

## What is left out

- In `Concurrent`: requests in flight across midnight, `create_plan`, `set_position` and a
  change of time zone. `Requests` has them one at a time.
- What the shop answers to a purchase sent again (`shop.py:57` checks the limit before
  it recognises the replay): no state depends on it. `next_tier_preview` and the other
  read-only handlers, which word screens.
- `scripts/fetch_tractates.py`, which writes one table once, and in `fetch_texts.py` the
  cleaning of markup and the parsing of references: functions on strings.
- Password hashing, token signatures, PKCE and Google itself. `POST /auth/google` has the
  logic of the callback, which is modelled, and the page does not use it.
- The rendering of the page.
- `api/dev.py`: disabled outside development; it sets the balance without a ledger
  entry and moves the clock, by design.
- Configuration, preflight and start-up: settings are read once and are constants here.
- Migrations run outside of the program; the achievement tables have no code.

## The plan

The plan of this development was, in order: the account and the serial requests with
their safety; the portion, the estimate, the sweep and the seeding; overlapping requests
and the abstract book; sessions and texts; and the proofs of what the runs of the
account and of overlapping requests check, down to the texts. All of it is done. What
would follow:

1. `JudgedOnce`, with the quota, for overlapping requests: `change_goal` can overwrite it
   (`progress.py:139`), which is described above and has no run.
2. `VerdictsFair` for overlapping requests.
3. A client of the shop that retries, with the answers it is given.
