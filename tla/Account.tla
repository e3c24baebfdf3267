------------------------------ MODULE Account ------------------------------
(***************************************************************************)
(* What the database keeps of one learner (app/models.py), as one record,  *)
(* and the point ledger every award and penalty goes through               *)
(* (app/services/ledger.py).  The record is what a transaction reads,      *)
(* changes in its working copy, and commits or rolls back as a whole.      *)
(***************************************************************************)
EXTENDS Scoring, Calendar, FiniteSets

CONSTANTS Goals,         \* daily goals a learner can choose
          TractateSizes, \* mishnayot_count of the tractates on offer
          Keys           \* Idempotency-Key values a client sends

ASSUME GoalsAssumption == Goals \subseteq Nat \ {0}
ASSUME TractateSizesAssumption == TractateSizes \subseteq Nat \ {0}
ASSUME KeysAssumption == Keys \subseteq Nat

\* NoKey: the header is missing.  A key is an opaque string; any number here.
NoKey == -1
RequestKeys == Nat \cup {NoKey}
SentKeys == Keys \cup {NoKey}

NeutralStatuses == {"frozen_item", "rest_day", "exempt"}
TerminalStatuses == {"completed", "missed"} \cup NeutralStatuses

\* "none" stands for a date that has no row in study_days.
Statuses == TerminalStatuses \cup {"pending", "none"}
PlanStatuses == {"active", "completed", "abandoned"}

StudyDay ==
    [day_kind : DayKinds, required_units : Nat, completed_units : Nat,
     status : Statuses, points_awarded : Int, streak_after : Int,
     plan_id : Nat]

NoDay ==
    [day_kind |-> "weekday", required_units |-> 0, completed_units |-> 0,
     status |-> "none", points_awarded |-> 0, streak_after |-> 0,
     plan_id |-> 0]

\* created is the study date the learner was on when the plan was made.
StudyPlan ==
    [daily_goal : Nat \ {0}, start_date : Dates, created : Dates,
     current_ordinal : Nat, mishnayot_count : Nat \ {0},
     status : PlanStatuses]

StudyEvent ==
    [key : RequestKeys, plan_id : Nat, credited_local_date : Dates,
     units : Nat, from_ordinal : Nat]

\* The key builders of the ledger: one key per date and award, one per
\* purchase request, and a fresh uuid for a purchase sent without a key.
TxnTypes == {"daily", "penalty", "purchase", "purchase_uuid"}
DailyKey(d) == <<"daily", d>>
PenaltyKey(d) == <<"penalty", d>>
PurchaseKey(a, key) ==
    IF key = NoKey THEN <<"purchase_uuid", Len(a.ledger)>>
                   ELSE <<"purchase", key>>

PointTransaction ==
    [key : TxnTypes \X Nat, amount : Int, balance_after : Int]

AccountType ==
    [total_points : Nat, lifetime_points_earned : Nat,
     current_streak : Nat, longest_streak : Nat,
     last_settled_date : Dates \cup {NoDate},
     total_units_completed : Nat, freezes_consumed : Nat,
     quantity : Nat, study_week : StudyWeeks, zone : ZoneKinds,
     days : [Dates -> StudyDay], ledger : Seq(PointTransaction),
     events : Seq(StudyEvent), plans : Seq(StudyPlan),
     usages : SUBSET Dates]

\* A learner who has signed in and has no plan yet.
NewAccount(week, zone) ==
    [total_points |-> 0, lifetime_points_earned |-> 0,
     current_streak |-> 0, longest_streak |-> 0,
     last_settled_date |-> NoDate, total_units_completed |-> 0,
     freezes_consumed |-> 0, quantity |-> 0, study_week |-> week,
     zone |-> zone, days |-> [d \in Dates |-> NoDay], ledger |-> <<>>,
     events |-> <<>>, plans |-> <<>>, usages |-> {}]

-----------------------------------------------------------------------------
HasDay(a, d) == a.days[d].status # "none"
Resolved(a, d) == a.days[d].status \in TerminalStatuses

\* The learner's plan whose status is ACTIVE; uq_one_active_plan makes it one.
ActivePlans(a) == {i \in DOMAIN a.plans : a.plans[i].status = "active"}
HasPlan(a) == ActivePlans(a) # {}
PlanId(a) == CHOOSE i \in ActivePlans(a) : TRUE
Plan(a) == a.plans[PlanId(a)]

-----------------------------------------------------------------------------
HasTransaction(a, key) == \E i \in DOMAIN a.ledger : a.ledger[i].key = key

\* post_transaction returns a row, not None: the amount is not zero and the
\* key is new.
Posts(a, key, amount) == amount # 0 /\ ~HasTransaction(a, key)

\* Append to the ledger and move the materialised balance, or do nothing.
PostTransaction(a, key, amount) ==
    LET txn == [key |-> key, amount |-> amount,
                balance_after |-> a.total_points + amount]
        earned == IF amount > 0 THEN amount ELSE 0
    IN  IF Posts(a, key, amount)
        THEN [a EXCEPT !.ledger = Append(@, txn),
                       !.total_points = @ + amount,
                       !.lifetime_points_earned = @ + earned]
        ELSE a

=============================================================================
