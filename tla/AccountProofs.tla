---------------------------- MODULE AccountProofs ----------------------------
(***************************************************************************)
(* What each operator that changes an account does to it, for every value  *)
(* of the constants: it keeps the type, the ledger and the freezes in      *)
(* order (Sound, FreezesAccounted), gives no verdict twice (Judges), and   *)
(* moves the points of the days it judges (PaysFor).  Whoever runs them    *)
(* one request at a time (RequestsProofs) or overlapping (ConcurrentProofs)*)
(* reasons from these lemmas.                                              *)
(***************************************************************************)
EXTENDS AccountSafety, SequenceTheorems, WellFoundedInduction,
        FiniteSetTheorems, TLAPS

\* A set of natural numbers that is not empty has a least member.
LEMMA LeastNatural ==
    ASSUME NEW S \in SUBSET Nat, S # {}
    PROVE  \E n \in S : \A m \in S : n <= m
  <1>1. \E x \in S : \A y \in S : ~ (<<y, x>> \in OpToRel(<, Nat))
    BY NatLessThanWellFounded, WFMin, Zenon
  <1>2. PICK x \in S : \A y \in S : ~ (<<y, x>> \in OpToRel(<, Nat))
    BY <1>1
  <1>3. \A y \in S : ~ (y < x)
    BY <1>2 DEF OpToRel
  <1> QED
    BY <1>3

\* Every streak has a positive multiplier, whatever the tiers are: tier_for
\* falls back to 1.0 when no tier is reached.
LEMMA MultiplierPositive ==
    ASSUME NEW streak \in Nat
    PROVE  MultiplierFor(streak) \in Nat \ {0}
  <1> DEFINE reached == {i \in DOMAIN Tiers : streak >= Tiers[i].min_streak}
             first == CHOOSE i \in reached : \A j \in reached : i <= j
  <1>1. CASE reached = {}
    BY <1>1 DEF MultiplierFor
  <1>2. CASE reached # {}
    <2>1. reached \in SUBSET Nat
      BY TiersAssumption
    <2>2. \E i \in reached : \A j \in reached : i <= j
      BY <1>2, <2>1, LeastNatural
    <2>3. first \in reached
      BY <2>2
    <2>4. Tiers[first] \in Tier
      BY <2>3, TiersAssumption
    <2>5. MultiplierFor(streak) = Tiers[first].halves
      BY <1>2 DEF MultiplierFor
    <2> QED
      BY <2>4, <2>5 DEF Tier
  <1> QED
    BY <1>1, <1>2

\* A completed day is worth at least one point (points_for_completion), so
\* post_transaction never takes it for nothing.
LEMMA PointsPositive ==
    ASSUME NEW streak \in Nat
    PROVE  PointsForCompletion(streak) \in Nat \ {0}
  <1>1. MultiplierFor(streak) \in Nat \ {0}
    BY MultiplierPositive
  <1>2. \A b, h \in Nat \ {0} : (b * h + 1) \div 2 \in Nat \ {0}
    <2> SUFFICES ASSUME NEW b \in Nat \ {0}, NEW h \in Nat \ {0}
                 PROVE  (b * h + 1) \div 2 \in Nat \ {0}
      OBVIOUS
    <2>1. b * h \in Nat /\ b * h >= 1
      OBVIOUS
    <2> QED
      BY <2>1
  <1> QED
    BY <1>1, <1>2, BasePointsAssumption DEF PointsForCompletion

\* The penalty is a natural number that the balance can pay
\* (penalty_for_miss).
LEMMA PenaltyPayable ==
    ASSUME NEW balance \in Nat
    PROVE  /\ PenaltyForMiss(balance) \in Nat
           /\ PenaltyForMiss(balance) <= balance
  BY MissPenaltyAssumption, MinBalanceAssumption DEF PenaltyForMiss

-----------------------------------------------------------------------------
\* post_transaction keeps the account's type as long as the amount does not
\* overdraw it.
LEMMA PostTransactionType ==
    ASSUME NEW a \in AccountType, NEW key \in TxnTypes \X Nat,
           NEW amount \in Int, a.total_points + amount >= 0
    PROVE  PostTransaction(a, key, amount) \in AccountType
  <1> DEFINE txn == [key |-> key, amount |-> amount,
                     balance_after |-> a.total_points + amount]
             earned == IF amount > 0 THEN amount ELSE 0
             b == [a EXCEPT !.ledger = Append(@, txn),
                            !.total_points = @ + amount,
                            !.lifetime_points_earned = @ + earned]
  <1>1. txn \in PointTransaction
    BY DEF PointTransaction, AccountType
  <1>2. Append(a.ledger, txn) \in Seq(PointTransaction)
    BY <1>1, AppendProperties DEF AccountType
  <1>3. a.total_points + amount \in Nat
    BY DEF AccountType
  <1>4. a.lifetime_points_earned + earned \in Nat
    BY DEF AccountType
  <1>5. b \in AccountType
    BY <1>2, <1>3, <1>4 DEF AccountType
  <1> QED
    BY <1>5 DEF PostTransaction

\* A transaction that is posted extends the ledger by one entry and touches
\* nothing but the ledger and the two counters.
LEMMA PostTransactionFields ==
    ASSUME NEW a \in AccountType, NEW key \in TxnTypes \X Nat,
           NEW amount \in Int, Posts(a, key, amount)
    PROVE  LET b == PostTransaction(a, key, amount)
               txn == [key |-> key, amount |-> amount,
                       balance_after |-> a.total_points + amount]
           IN  /\ b.ledger = Append(a.ledger, txn)
               /\ b.total_points = a.total_points + amount
               /\ b.days = a.days /\ b.plans = a.plans
               /\ b.current_streak = a.current_streak
               /\ b.longest_streak = a.longest_streak
               /\ b.quantity = a.quantity
  BY DEF PostTransaction, AccountType

\* The entry that is posted continues the chain of balances, so the ledger
\* reconciles again.
LEMMA PostingReconciles ==
    ASSUME NEW a \in AccountType, NEW key \in TxnTypes \X Nat,
           NEW amount \in Int, a.total_points + amount >= 0,
           LedgerReconciles(a)
    PROVE  LedgerReconciles(PostTransaction(a, key, amount))
  <1> DEFINE txn == [key |-> key, amount |-> amount,
                     balance_after |-> a.total_points + amount]
             b == PostTransaction(a, key, amount)
             n == Len(a.ledger)
  <1>1. CASE ~Posts(a, key, amount)
    BY <1>1 DEF PostTransaction
  <1>2. CASE Posts(a, key, amount)
    <2>1. /\ b.ledger = Append(a.ledger, txn)
          /\ b.total_points = a.total_points + amount
      BY <1>2, PostTransactionFields
    <2>2. txn \in PointTransaction /\ a.ledger \in Seq(PointTransaction)
      BY DEF PointTransaction, AccountType
    <2>3. /\ Len(b.ledger) = n + 1 /\ n \in Nat
          /\ DOMAIN b.ledger = 1..(n + 1) /\ DOMAIN a.ledger = 1..n
          /\ \A i \in 1..n : b.ledger[i] = a.ledger[i]
          /\ b.ledger[n + 1] = txn
          /\ b.ledger # <<>>
      BY <2>1, <2>2, AppendProperties, LenProperties
    <2>4. a.total_points = IF n = 0 THEN 0 ELSE a.ledger[n].balance_after
      BY <2>2, EmptySeq DEF LedgerReconciles, LastBalance
    <2>5. b.total_points = LastBalance(b.ledger)
      BY <2>1, <2>3 DEF LastBalance
    <2>6. amount # 0
      BY <1>2 DEF Posts
    <2>7. ASSUME NEW i \in 1..(n + 1)
          PROVE  LET before == IF i = 1 THEN 0
                               ELSE b.ledger[i - 1].balance_after
                 IN  /\ b.ledger[i].balance_after
                           = before + b.ledger[i].amount
                     /\ b.ledger[i].balance_after >= 0
                     /\ b.ledger[i].amount # 0
      <3>1. CASE i \in 1..n
        <4>1. b.ledger[i] = a.ledger[i]
          BY <2>3, <3>1
        <4>2. i # 1 => b.ledger[i - 1] = a.ledger[i - 1]
          BY <2>3, <3>1
        <4> QED
          BY <4>1, <4>2, <2>3, <3>1 DEF LedgerReconciles
      <3>2. CASE i = n + 1
        <4>1. i # 1 => b.ledger[i - 1] = a.ledger[n]
          BY <2>3, <3>2
        <4> QED
          BY <4>1, <2>3, <2>4, <2>6, <3>2
      <3> QED
        BY <3>1, <3>2, <2>3
    <2> QED
      BY <2>3, <2>5, <2>7 DEF LedgerReconciles
  <1> QED
    BY <1>1, <1>2

\* What is in the ledger after a posting: the same transactions and the new
\* one, whose key is the only one of its kind.
LEMMA PostingKeys ==
    ASSUME NEW a \in AccountType, NEW key \in TxnTypes \X Nat,
           NEW amount \in Int, Posts(a, key, amount), UniqueKeys(a)
    PROVE  LET b == PostTransaction(a, key, amount)
           IN  /\ UniqueKeys(b)
               /\ \A k : HasTransaction(b, k) <=>
                            HasTransaction(a, k) \/ k = key
               /\ \A k, m : Posted(b, k, m) <=>
                            Posted(a, k, m) \/ (k = key /\ m = amount)
  <1> DEFINE txn == [key |-> key, amount |-> amount,
                     balance_after |-> a.total_points + amount]
             b == PostTransaction(a, key, amount)
             n == Len(a.ledger)
  <1>1. b.ledger = Append(a.ledger, txn)
    BY PostTransactionFields
  <1>2. txn \in PointTransaction /\ a.ledger \in Seq(PointTransaction)
    BY DEF PointTransaction, AccountType
  <1>3. /\ n \in Nat
        /\ DOMAIN b.ledger = 1..(n + 1) /\ DOMAIN a.ledger = 1..n
        /\ \A i \in 1..n : b.ledger[i] = a.ledger[i]
        /\ b.ledger[n + 1] = txn
    BY <1>1, <1>2, AppendProperties, LenProperties
  <1>4. \A i \in 1..n : a.ledger[i].key # key
    BY <1>3 DEF Posts, HasTransaction
  <1>5. UniqueKeys(b)
    <2> SUFFICES ASSUME NEW i \in 1..(n + 1), NEW j \in 1..(n + 1),
                        b.ledger[i].key = b.ledger[j].key
                 PROVE  i = j
      BY <1>3 DEF UniqueKeys
    <2>0. \A k \in 1..(n + 1) : k \in 1..n \/ k = n + 1
      BY <1>3
    <2>1. CASE i \in 1..n /\ j \in 1..n
      BY <2>1, <1>3 DEF UniqueKeys
    <2>2. CASE i = n + 1 /\ j \in 1..n
      BY <2>2, <1>3, <1>4
    <2>3. CASE i \in 1..n /\ j = n + 1
      BY <2>3, <1>3, <1>4
    <2> QED
      BY <2>0, <2>1, <2>2, <2>3
  <1>6. \A k : HasTransaction(b, k) <=> HasTransaction(a, k) \/ k = key
    <2> TAKE k
    <2>1. HasTransaction(b, k) => HasTransaction(a, k) \/ k = key
      BY <1>3 DEF HasTransaction
    <2>2. HasTransaction(a, k) => HasTransaction(b, k)
      BY <1>3 DEF HasTransaction
    <2>3. HasTransaction(b, key)
      BY <1>3 DEF HasTransaction
    <2> QED
      BY <2>1, <2>2, <2>3
  <1>7. \A k, m : Posted(b, k, m) <=>
                     Posted(a, k, m) \/ (k = key /\ m = amount)
    <2> TAKE k, m
    <2>1. Posted(b, k, m) => Posted(a, k, m) \/ (k = key /\ m = amount)
      BY <1>3 DEF Posted
    <2>2. Posted(a, k, m) => Posted(b, k, m)
      BY <1>3 DEF Posted
    <2>3. Posted(b, key, amount)
      BY <1>3 DEF Posted
    <2> QED
      BY <2>1, <2>2, <2>3
  <1> QED
    BY <1>5, <1>6, <1>7

-----------------------------------------------------------------------------
\* What the theorems need of an account, besides its type.
Sound(a) == LedgerReconciles(a) /\ VerdictsPaidOnce(a)

\* The verdict of a day as the ledger sees it.
Paid(a, d) == <<a.days[d].status, a.days[d].points_awarded>>

\* Not credited, and worth nothing: the ledger has nothing to say of it.
Unpaid(day) == day.status # "completed" /\ day.points_awarded = 0

\* An account with the same ledger stays sound when every day either keeps
\* its verdict or is one the ledger knows nothing about, before and after.
LEMMA SameLedgerSound ==
    ASSUME NEW a \in AccountType, NEW b \in AccountType, Sound(a),
           b.ledger = a.ledger, b.total_points = a.total_points,
           \A d \in Dates :
              \/ Paid(b, d) = Paid(a, d)
              \/ Unpaid(a.days[d]) /\ Unpaid(b.days[d])
    PROVE  Sound(b)
  <1>1. LedgerReconciles(b)
    BY DEF Sound, LedgerReconciles
  <1>2. UniqueKeys(b)
    BY DEF Sound, VerdictsPaidOnce, UniqueKeys
  <1>3. \A k : HasTransaction(b, k) <=> HasTransaction(a, k)
    BY DEF HasTransaction
  <1>4. \A k, m : Posted(b, k, m) <=> Posted(a, k, m)
    BY DEF Posted
  <1>5. VerdictsPaidOnce(b)
    BY <1>2, <1>3, <1>4 DEF Sound, VerdictsPaidOnce, Paid, Unpaid
  <1> QED
    BY <1>1, <1>5 DEF Sound

\* Resolving a day stays in the type and changes that day only.
LEMMA ResolveFields ==
    ASSUME NEW a \in AccountType, NEW d \in Dates,
           NEW status \in TerminalStatuses, NEW points \in Int
    PROVE  LET b == Resolve(a, d, status, points)
           IN  /\ b \in AccountType
               /\ b.ledger = a.ledger /\ b.total_points = a.total_points
               /\ b.plans = a.plans
               /\ b.days[d].status = status
               /\ b.days[d].points_awarded = points
               /\ \A e \in Dates \ {d} : b.days[e] = a.days[e]
  <1> DEFINE row == [a.days[d] EXCEPT !.status = status,
                                      !.points_awarded = points,
                                      !.streak_after = a.current_streak]
             b == [a EXCEPT !.days[d] = row]
  <1>1. a.days \in [Dates -> StudyDay] /\ a.current_streak \in Nat
    BY DEF AccountType
  <1>2. row \in StudyDay /\ row.status = status /\ row.points_awarded = points
    <2>1. /\ a.days[d] \in StudyDay
          /\ status \in Statuses
          /\ a.current_streak \in Int
      BY <1>1 DEF Statuses
    <2> DEFINE day == a.days[d]
               streak == a.current_streak
    <2>2. day \in StudyDay /\ streak \in Int
      BY <2>1
    <2> HIDE DEF day, streak
    <2>3. LET new == [day EXCEPT !.status = status, !.points_awarded = points,
                                 !.streak_after = streak]
          IN  new \in StudyDay /\ new.status = status
              /\ new.points_awarded = points
      BY <2>1, <2>2 DEF StudyDay
    <2> QED
      BY <2>3 DEF day, streak
  <1>3. [a.days EXCEPT ![d] = row] \in [Dates -> StudyDay]
    BY <1>1, <1>2
  <1>4. b \in AccountType /\ b.days = [a.days EXCEPT ![d] = row]
        /\ b.ledger = a.ledger /\ b.total_points = a.total_points
        /\ b.plans = a.plans
    BY <1>3 DEF AccountType
  <1>5. b = Resolve(a, d, status, points)
    BY DEF Resolve
  <1> QED
    BY <1>1, <1>2, <1>4, <1>5

\* A neutral verdict on an open day costs and pays nothing.
LEMMA NeutralDaySound ==
    ASSUME NEW a \in AccountType, NEW d \in Dates, Sound(a),
           ~Resolved(a, d), NEW status \in NeutralStatuses
    PROVE  LET b == NeutralDay(a, d, status)
           IN  b \in AccountType /\ Sound(b) /\ b.plans = a.plans
  <1> DEFINE b == NeutralDay(a, d, status)
  <1>1. status \in TerminalStatuses /\ status \notin {"completed", "missed"}
    BY DEF TerminalStatuses, NeutralStatuses
  <1>2. /\ b \in AccountType
        /\ b.ledger = a.ledger /\ b.total_points = a.total_points
        /\ b.plans = a.plans
        /\ b.days[d].status = status /\ b.days[d].points_awarded = 0
        /\ \A e \in Dates \ {d} : b.days[e] = a.days[e]
    BY <1>1, ResolveFields DEF NeutralDay
  <1>3. Unpaid(a.days[d]) /\ Unpaid(b.days[d])
    BY <1>1, <1>2
       DEF Sound, VerdictsPaidOnce, Unpaid, Resolved, TerminalStatuses
  <1>4. \A e \in Dates \ {d} : Paid(b, e) = Paid(a, e)
    BY <1>2 DEF Paid
  <1> QED
    BY <1>2, <1>3, <1>4, SameLedgerSound

\* A completed day is paid once: its key was not in the ledger, so the award
\* is posted and the row shows what was posted.
LEMMA CreditDaySound ==
    ASSUME NEW a \in AccountType, NEW d \in Dates, Sound(a)
    PROVE  LET b == CreditDay(a, d)
           IN  b \in AccountType /\ Sound(b) /\ b.plans = a.plans
  <1> DEFINE streak == a.current_streak + 1
             points == PointsForCompletion(streak)
             key == DailyKey(d)
             paid == PostTransaction(a, key, points)
             moved == [paid EXCEPT !.current_streak = streak,
                                   !.longest_streak = IF @ < streak
                                                      THEN streak ELSE @]
             b == CreditDay(a, d)
  <1>1. CASE Resolved(a, d)
    BY <1>1 DEF CreditDay
  <1>2. CASE ~Resolved(a, d)
    <2>1. streak \in Nat /\ a.total_points \in Nat
      BY DEF AccountType
    <2>2. points \in Nat \ {0}
      BY <2>1, PointsPositive
    <2>3. key \in TxnTypes \X Nat
      BY DEF DailyKey, TxnTypes, Dates
    <2>4. Posts(a, key, points)
      BY <1>2, <2>2
         DEF Posts, Sound, VerdictsPaidOnce, Resolved, TerminalStatuses
    <2>5. paid \in AccountType
      BY <2>1, <2>2, <2>3, PostTransactionType
    <2>6. /\ moved \in AccountType /\ moved.ledger = paid.ledger
          /\ moved.total_points = paid.total_points
          /\ moved.days = paid.days /\ moved.plans = paid.plans
      BY <2>1, <2>5 DEF AccountType
    <2>7. b = Resolve(moved, d, "completed", points)
      BY <1>2, <2>4 DEF CreditDay
    <2>8. /\ b \in AccountType
          /\ b.ledger = paid.ledger /\ b.total_points = paid.total_points
          /\ b.plans = paid.plans
          /\ b.days[d].status = "completed"
          /\ b.days[d].points_awarded = points
          /\ \A e \in Dates \ {d} : b.days[e] = paid.days[e]
      <3>1. "completed" \in TerminalStatuses /\ points \in Int
        BY <2>2 DEF TerminalStatuses
      <3> HIDE DEF points, moved
      <3> QED
        BY <2>6, <2>7, <3>1, ResolveFields
    <2>9. paid.days = a.days /\ paid.plans = a.plans
      <3>1. points \in Int
        BY <2>2
      <3> HIDE DEF points, key
      <3> QED
        BY <2>3, <2>4, <3>1, PostTransactionFields
    <2>10. LedgerReconciles(b)
      <3>1. LedgerReconciles(paid)
        BY <2>1, <2>2, <2>3, PostingReconciles DEF Sound
      <3> QED
        BY <2>8, <3>1 DEF LedgerReconciles
    <2>11. /\ UniqueKeys(paid)
           /\ \A k : HasTransaction(paid, k) <=>
                        HasTransaction(a, k) \/ k = key
           /\ \A k, m : Posted(paid, k, m) <=>
                           Posted(a, k, m) \/ (k = key /\ m = points)
      BY <2>2, <2>3, <2>4, PostingKeys DEF Sound, VerdictsPaidOnce
    <2>12. /\ UniqueKeys(b)
           /\ \A k : HasTransaction(b, k) <=>
                        HasTransaction(a, k) \/ k = key
           /\ \A k, m : Posted(b, k, m) <=>
                           Posted(a, k, m) \/ (k = key /\ m = points)
      BY <2>8, <2>11 DEF UniqueKeys, HasTransaction, Posted
    <2>13. /\ \A e \in Dates \ {d} : DailyKey(e) # key
           /\ \A e \in Dates : PenaltyKey(e) # key
      BY DEF DailyKey, PenaltyKey
    <2>14. ~HasTransaction(a, PenaltyKey(d))
      BY <1>2 DEF Sound, VerdictsPaidOnce, Resolved, TerminalStatuses
    <2>15. VerdictsPaidOnce(b)
      BY <2>2, <2>8, <2>9, <2>12, <2>13, <2>14
         DEF Sound, VerdictsPaidOnce
    <2> QED
      BY <2>8, <2>9, <2>10, <2>15 DEF Sound
  <1> QED
    BY <1>1, <1>2

\* A missed day is fined once, for what the balance can pay, or for nothing;
\* the row shows the fine.
LEMMA MissDaySound ==
    ASSUME NEW a \in AccountType, NEW d \in Dates, Sound(a), ~Resolved(a, d)
    PROVE  LET b == MissDay(a, d)
           IN  b \in AccountType /\ Sound(b) /\ b.plans = a.plans
  <1> DEFINE penalty == PenaltyForMiss(a.total_points)
             fine == -penalty
             key == PenaltyKey(d)
             fined == PostTransaction(a, key, fine)
             moved == [fined EXCEPT !.current_streak = 0]
             b == MissDay(a, d)
  <1>1. /\ a.total_points \in Nat /\ fine \in Int /\ fine <= 0
        /\ a.total_points + fine >= 0
    <2>1. a.total_points \in Nat
      BY DEF AccountType
    <2>2. penalty \in Nat /\ penalty <= a.total_points
      BY <2>1, PenaltyPayable
    <2> QED
      BY <2>1, <2>2
  <1>2. key \in TxnTypes \X Nat
    BY DEF PenaltyKey, TxnTypes, Dates
  <1>3. ~HasTransaction(a, key) /\ ~HasTransaction(a, DailyKey(d))
        /\ Unpaid(a.days[d])
    BY DEF Sound, VerdictsPaidOnce, Resolved, TerminalStatuses, Unpaid
  <1> HIDE DEF fine, key
  <1>4. fined \in AccountType
    BY <1>1, <1>2, PostTransactionType
  <1>5. /\ moved \in AccountType /\ moved.ledger = fined.ledger
        /\ moved.total_points = fined.total_points
        /\ moved.days = fined.days /\ moved.plans = fined.plans
    BY <1>4 DEF AccountType
  <1>6. b = Resolve(moved, d, "missed", fine)
    BY DEF MissDay, fine, key
  <1>7. /\ b \in AccountType
        /\ b.ledger = fined.ledger /\ b.total_points = fined.total_points
        /\ b.plans = fined.plans
        /\ b.days[d].status = "missed" /\ b.days[d].points_awarded = fine
        /\ \A e \in Dates \ {d} : b.days[e] = fined.days[e]
    <2>1. "missed" \in TerminalStatuses
      BY DEF TerminalStatuses
    <2> HIDE DEF moved
    <2> QED
      BY <1>1, <1>5, <1>6, <2>1, ResolveFields
  <1>8. CASE fine = 0
    <2>1. fined = a
      BY <1>8 DEF PostTransaction, Posts
    <2>2. Unpaid(b.days[d])
      BY <1>7, <1>8 DEF Unpaid
    <2>3. \A e \in Dates \ {d} : Paid(b, e) = Paid(a, e)
      BY <1>7, <2>1 DEF Paid
    <2> QED
      BY <1>3, <1>7, <2>1, <2>2, <2>3, SameLedgerSound
  <1>9. CASE fine # 0
    <2>1. Posts(a, key, fine)
      BY <1>3, <1>9 DEF Posts
    <2>2. fined.days = a.days /\ fined.plans = a.plans
      BY <1>1, <1>2, <2>1, PostTransactionFields
    <2>3. LedgerReconciles(b)
      <3>1. LedgerReconciles(fined)
        BY <1>1, <1>2, PostingReconciles DEF Sound
      <3> QED
        BY <1>7, <3>1 DEF LedgerReconciles
    <2>4. /\ UniqueKeys(fined)
          /\ \A k : HasTransaction(fined, k) <=>
                       HasTransaction(a, k) \/ k = key
          /\ \A k, m : Posted(fined, k, m) <=>
                          Posted(a, k, m) \/ (k = key /\ m = fine)
      BY <1>1, <1>2, <2>1, PostingKeys DEF Sound, VerdictsPaidOnce
    <2>5. /\ UniqueKeys(b)
          /\ \A k : HasTransaction(b, k) <=>
                       HasTransaction(a, k) \/ k = key
          /\ \A k, m : Posted(b, k, m) <=>
                          Posted(a, k, m) \/ (k = key /\ m = fine)
      BY <1>7, <2>4 DEF UniqueKeys, HasTransaction, Posted
    <2>6. /\ \A e \in Dates : DailyKey(e) # key
          /\ \A e \in Dates \ {d} : PenaltyKey(e) # key
          /\ PenaltyKey(d) = key
      BY DEF DailyKey, PenaltyKey, key
    <2>7. VerdictsPaidOnce(b)
      BY <1>1, <1>3, <1>7, <1>9, <2>2, <2>5, <2>6
         DEF Sound, VerdictsPaidOnce
    <2> QED
      BY <1>7, <2>2, <2>3, <2>7 DEF Sound
  <1> QED
    BY <1>8, <1>9

\* A freeze is spent on the day, or the day is missed.
LEMMA FreezeDaySound ==
    ASSUME NEW a \in AccountType, NEW d \in Dates, Sound(a), ~Resolved(a, d)
    PROVE  LET b == FreezeDay(a, d)
           IN  b \in AccountType /\ Sound(b) /\ b.plans = a.plans
  <1> DEFINE b == FreezeDay(a, d)
             used == [a EXCEPT !.quantity = @ - 1,
                               !.freezes_consumed = @ + 1,
                               !.usages = @ \cup {d}]
  <1>1. CASE a.quantity <= 0
    BY <1>1, MissDaySound DEF FreezeDay
  <1>2. CASE ~(a.quantity <= 0)
    <2>1. /\ used \in AccountType /\ used.ledger = a.ledger
          /\ used.total_points = a.total_points
          /\ used.days = a.days /\ used.plans = a.plans
      <3>1. a.quantity - 1 \in Nat /\ a.freezes_consumed + 1 \in Nat
        BY <1>2 DEF AccountType
      <3>2. a.usages \cup {d} \in SUBSET Dates
        BY DEF AccountType
      <3> QED
        BY <3>1, <3>2 DEF AccountType
    <2>2. b = Resolve(used, d, "frozen_item", 0)
      BY <1>2 DEF FreezeDay
    <2>3. "frozen_item" \in TerminalStatuses
      BY DEF TerminalStatuses, NeutralStatuses
    <2> HIDE DEF used
    <2>4. /\ b \in AccountType
          /\ b.ledger = a.ledger /\ b.total_points = a.total_points
          /\ b.plans = a.plans
          /\ b.days[d].status = "frozen_item"
          /\ b.days[d].points_awarded = 0
          /\ \A e \in Dates \ {d} : b.days[e] = a.days[e]
      BY <2>1, <2>2, <2>3, ResolveFields
    <2>5. Unpaid(a.days[d]) /\ Unpaid(b.days[d])
      BY <2>4 DEF Sound, VerdictsPaidOnce, Resolved, TerminalStatuses, Unpaid
    <2>6. \A e \in Dates \ {d} : Paid(b, e) = Paid(a, e)
      BY <2>4 DEF Paid
    <2> QED
      BY <2>4, <2>5, <2>6, SameLedgerSound
  <1> QED
    BY <1>1, <1>2

\* Whatever the verdict on a day with a row, the account stays sound.
LEMMA ApplySound ==
    ASSUME NEW a \in AccountType, NEW d \in Dates, Sound(a),
           NEW decision \in Decisions,
           decision \notin {"carry", "credit"} => ~Resolved(a, d)
    PROVE  LET b == Apply(a, d, decision)
           IN  b \in AccountType /\ Sound(b) /\ b.plans = a.plans
  <1>1. CASE decision = "carry"
    BY <1>1 DEF Apply
  <1>2. CASE decision = "credit"
    BY <1>2, CreditDaySound DEF Apply
  <1>3. CASE decision = "miss"
    BY <1>3, MissDaySound DEF Apply
  <1>4. CASE decision = "freeze"
    BY <1>4, FreezeDaySound DEF Apply
  <1>5. CASE decision = "rest"
    <2>1. "rest_day" \in NeutralStatuses
      BY DEF NeutralStatuses
    <2> QED
      BY <1>5, <2>1, NeutralDaySound DEF Apply
  <1>6. CASE decision = "exempt"
    <2>1. "exempt" \in NeutralStatuses
      BY DEF NeutralStatuses
    <2> QED
      BY <1>6, <2>1, NeutralDaySound DEF Apply
  <1> QED
    BY <1>1, <1>2, <1>3, <1>4, <1>5, <1>6 DEF Decisions

-----------------------------------------------------------------------------
\* The learner's plan is one of the plans, with a positive goal.
LEMMA PlanExists ==
    ASSUME NEW a \in AccountType, HasPlan(a)
    PROVE  /\ PlanId(a) \in DOMAIN a.plans /\ PlanId(a) \in Nat
           /\ Plan(a) \in StudyPlan /\ Plan(a).status = "active"
  <1>1. a.plans \in Seq(StudyPlan)
    BY DEF AccountType
  <1>2. PlanId(a) \in ActivePlans(a)
    BY DEF HasPlan, PlanId
  <1>3. PlanId(a) \in DOMAIN a.plans /\ a.plans[PlanId(a)].status = "active"
    BY <1>2 DEF ActivePlans
  <1> QED
    BY <1>1, <1>3 DEF Plan

\* The plan is a function of the plans alone.
LEMMA SamePlan ==
    ASSUME NEW a, NEW b, b.plans = a.plans
    PROVE  /\ HasPlan(b) <=> HasPlan(a)
           /\ PlanId(b) = PlanId(a) /\ Plan(b) = Plan(a)
  BY DEF HasPlan, PlanId, Plan, ActivePlans

\* Opening a day adds a row with no verdict.
LEMMA GetOrCreateDaySound ==
    ASSUME NEW a \in AccountType, NEW d \in Dates, Sound(a), HasPlan(a)
    PROVE  LET b == GetOrCreateDay(a, d)
           IN  b \in AccountType /\ Sound(b) /\ b.plans = a.plans
  <1> DEFINE b == GetOrCreateDay(a, d)
             kind == ClassifyDay(d, a.study_week)
             row == [day_kind |-> kind,
                     required_units |->
                         RequiredUnitsFor(kind, Plan(a).daily_goal),
                     completed_units |-> 0, status |-> "pending",
                     points_awarded |-> 0, streak_after |-> 0,
                     plan_id |-> PlanId(a)]
             days == [a.days EXCEPT ![d] = row]
  <1>1. CASE HasDay(a, d)
    BY <1>1 DEF GetOrCreateDay
  <1>2. CASE ~HasDay(a, d)
    <2>1. kind \in DayKinds
      BY DEF ClassifyDay, DayKinds
    <2>2. Plan(a).daily_goal \in Nat /\ PlanId(a) \in Nat
      BY PlanExists DEF StudyPlan
    <2>3. RequiredUnitsFor(kind, Plan(a).daily_goal) \in Nat
      BY <2>2 DEF RequiredUnitsFor
    <2>4. row \in StudyDay
      <3>1. "pending" \in Statuses
        BY DEF Statuses
      <3> QED
        BY <2>1, <2>2, <2>3, <3>1 DEF StudyDay
    <2>5. row.status = "pending" /\ row.points_awarded = 0
      OBVIOUS
    <2> HIDE DEF row
    <2>6. a.days \in [Dates -> StudyDay]
      BY DEF AccountType
    <2>7. days \in [Dates -> StudyDay] /\ days[d] = row
          /\ \A e \in Dates \ {d} : days[e] = a.days[e]
      BY <2>4, <2>6
    <2>8. b = [a EXCEPT !.days = days]
      BY <1>2 DEF GetOrCreateDay, row
    <2> HIDE DEF days
    <2>9. /\ b \in AccountType /\ b.days = days /\ b.ledger = a.ledger
          /\ b.total_points = a.total_points /\ b.plans = a.plans
      BY <2>7, <2>8 DEF AccountType
    <2>10. Unpaid(a.days[d])
      BY <1>2 DEF HasDay, Sound, VerdictsPaidOnce, Unpaid
    <2>11. Unpaid(b.days[d])
      BY <2>5, <2>7, <2>9 DEF Unpaid
    <2>12. \A e \in Dates \ {d} : Paid(b, e) = Paid(a, e)
      BY <2>7, <2>9 DEF Paid
    <2> QED
      BY <2>9, <2>10, <2>11, <2>12, SameLedgerSound
  <1> QED
    BY <1>1, <1>2

\* One iteration of settle_user leaves the ledger reconciled and each day
\* paid once, whatever was on the day.
LEMMA SettleDaySound ==
    ASSUME NEW a \in AccountType, NEW d \in Dates, Sound(a), HasPlan(a)
    PROVE  LET b == SettleDay(a, d)
           IN  b \in AccountType /\ Sound(b) /\ b.plans = a.plans
  <1> DEFINE opened == GetOrCreateDay(a, d)
             decision == Decide(opened, d, ~HasDay(a, d))
             judged == Apply(opened, d, decision)
             b == SettleDay(a, d)
  <1>1. opened \in AccountType /\ Sound(opened) /\ opened.plans = a.plans
    BY GetOrCreateDaySound
  <1>2. /\ decision \in Decisions
        /\ decision # "carry" => ~Resolved(opened, d)
    BY DEF Decide, Decisions
  <1> HIDE DEF opened, decision
  <1>3. judged \in AccountType /\ Sound(judged) /\ judged.plans = a.plans
    BY <1>1, <1>2, ApplySound
  <1>4. b = [judged EXCEPT !.last_settled_date = d]
    BY DEF SettleDay, opened, decision
  <1> HIDE DEF judged
  <1>5. /\ b \in AccountType /\ b.days = judged.days
        /\ b.ledger = judged.ledger /\ b.plans = judged.plans
        /\ b.total_points = judged.total_points
    BY <1>3, <1>4 DEF AccountType
  <1>6. \A e \in Dates : Paid(b, e) = Paid(judged, e)
    BY <1>5 DEF Paid
  <1> QED
    BY <1>3, <1>5, <1>6, SameLedgerSound

-----------------------------------------------------------------------------
\* Replacing one plan by another leaves a sequence of plans.
LEMMA ReplacePlan ==
    ASSUME NEW plans \in Seq(StudyPlan), NEW i \in DOMAIN plans,
           NEW plan \in StudyPlan
    PROVE  /\ [plans EXCEPT ![i] = plan] \in Seq(StudyPlan)
           /\ DOMAIN [plans EXCEPT ![i] = plan] = DOMAIN plans
  <1>1. i \in 1..Len(plans)
    BY LenProperties
  <1> QED
    BY <1>1, ExceptSeq

\* Recording units is an event, a longer day and an advanced cursor, never
\* points or a verdict.
LEMMA RecordUnitsSound ==
    ASSUME NEW a \in AccountType, NEW d \in Dates, NEW n \in Nat,
           NEW key \in RequestKeys, Sound(a), HasPlan(a)
    PROVE  LET b == RecordUnits(a, d, n, key)
           IN  /\ b \in AccountType /\ Sound(b)
               /\ DOMAIN b.plans = DOMAIN a.plans
  <1> DEFINE b == RecordUnits(a, d, n, key)
             event == [key |-> key, plan_id |-> PlanId(a),
                       credited_local_date |-> d, units |-> n,
                       from_ordinal |-> Plan(a).current_ordinal]
             plan == [a.plans[PlanId(a)] EXCEPT !.current_ordinal = @ + n]
             day == [a.days[d] EXCEPT !.completed_units = @ + n]
             plans == [a.plans EXCEPT ![PlanId(a)] = plan]
             days == [a.days EXCEPT ![d] = day]
             events == Append(a.events, event)
  <1>1. /\ PlanId(a) \in DOMAIN a.plans /\ PlanId(a) \in Nat
        /\ a.plans[PlanId(a)] \in StudyPlan
    BY PlanExists DEF Plan
  <1>2. a.days \in [Dates -> StudyDay] /\ a.plans \in Seq(StudyPlan)
        /\ a.events \in Seq(StudyEvent)
    BY DEF AccountType
  <1>3. events \in Seq(StudyEvent)
    <2>1. event \in StudyEvent
      BY <1>1 DEF StudyEvent, StudyPlan, Plan
    <2> QED
      BY <1>2, <2>1, AppendProperties
  <1>4. plan \in StudyPlan
    BY <1>1 DEF StudyPlan
  <1>5. plans \in Seq(StudyPlan) /\ DOMAIN plans = DOMAIN a.plans
    <2> HIDE DEF plan
    <2> QED
      BY <1>1, <1>2, <1>4, ReplacePlan
  <1>6. /\ day \in StudyDay /\ day.status = a.days[d].status
        /\ day.points_awarded = a.days[d].points_awarded
    <2>1. a.days[d] \in StudyDay
      BY <1>2
    <2> QED
      BY <2>1 DEF StudyDay
  <1>7. /\ days \in [Dates -> StudyDay] /\ days[d] = day
        /\ \A e \in Dates \ {d} : days[e] = a.days[e]
    <2> HIDE DEF day
    <2> QED
      BY <1>2, <1>6
  <1>8. b = [a EXCEPT !.events = events, !.plans = plans,
                      !.total_units_completed = @ + n, !.days = days]
    BY DEF RecordUnits
  <1> HIDE DEF events, plans, days
  <1>9. /\ b \in AccountType /\ b.days = days /\ b.plans = plans
        /\ b.ledger = a.ledger /\ b.total_points = a.total_points
    <2>1. a.total_units_completed + n \in Nat
      BY DEF AccountType
    <2> QED
      BY <1>3, <1>5, <1>7, <1>8, <2>1 DEF AccountType
  <1> HIDE DEF day
  <1>10. \A e \in Dates : Paid(b, e) = Paid(a, e)
    BY <1>6, <1>7, <1>9 DEF Paid
  <1> QED
    BY <1>5, <1>9, <1>10, SameLedgerSound

\* A new status for a plan is not a matter of points.
LEMMA PlanStatusSound ==
    ASSUME NEW a \in AccountType, Sound(a), NEW i \in DOMAIN a.plans,
           NEW status \in PlanStatuses
    PROVE  LET b == [a EXCEPT !.plans[i].status = status]
           IN  /\ b \in AccountType /\ Sound(b)
               /\ DOMAIN b.plans = DOMAIN a.plans
  <1> DEFINE plan == [a.plans[i] EXCEPT !.status = status]
             plans == [a.plans EXCEPT ![i] = plan]
             b == [a EXCEPT !.plans = plans]
  <1>1. a.plans \in Seq(StudyPlan)
    BY DEF AccountType
  <1>2. plan \in StudyPlan
    <2>1. a.plans[i] \in StudyPlan
      BY <1>1
    <2> QED
      BY <2>1 DEF StudyPlan
  <1>3. plans \in Seq(StudyPlan) /\ DOMAIN plans = DOMAIN a.plans
    <2> HIDE DEF plan
    <2> QED
      BY <1>1, <1>2, ReplacePlan
  <1> HIDE DEF plans
  <1>4. /\ b \in AccountType /\ b.days = a.days /\ b.plans = plans
        /\ b.ledger = a.ledger /\ b.total_points = a.total_points
    BY <1>3 DEF AccountType
  <1>5. \A e \in Dates : Paid(b, e) = Paid(a, e)
    BY <1>4 DEF Paid
  <1>6. Sound(b)
    BY <1>4, <1>5, SameLedgerSound
  <1> QED
    BY <1>3, <1>4, <1>6 DEF plans

\* Logging study, with the live completion of the day and the end of the
\* tractate, keeps the account sound.
LEMMA LogStudySound ==
    ASSUME NEW a \in AccountType, NEW d \in Dates, NEW units \in Nat,
           NEW key \in RequestKeys, Sound(a), HasPlan(a), CanLog(a, d)
    PROVE  LET b == LogStudy(a, d, units, key)
           IN  b \in AccountType /\ Sound(b)
  <1> DEFINE left == Plan(a).mishnayot_count - Plan(a).current_ordinal
             n == IF units < left THEN units ELSE left
             logged == RecordUnits(a, d, n, key)
             finished == units >= left
             enough == logged.days[d].completed_units >= GoalForDay(logged, d)
             credited == IF ~Resolved(logged, d) /\ (enough \/ finished)
                         THEN CreditDay(logged, d) ELSE logged
             b == LogStudy(a, d, units, key)
  <1>1. n \in Nat
    BY PlanExists DEF CanLog, StudyPlan
  <1> HIDE DEF n
  <1>2. /\ logged \in AccountType /\ Sound(logged)
        /\ DOMAIN logged.plans = DOMAIN a.plans
    BY <1>1, RecordUnitsSound
  <1> HIDE DEF logged
  <1>3. /\ credited \in AccountType /\ Sound(credited)
        /\ credited.plans = logged.plans
    BY <1>2, CreditDaySound
  <1>4. b = IF finished
            THEN [credited EXCEPT !.plans[PlanId(a)].status = "completed"]
            ELSE credited
    BY DEF LogStudy, logged, n
  <1> HIDE DEF credited, finished
  <1>5. PlanId(a) \in DOMAIN credited.plans
    BY <1>2, <1>3, PlanExists
  <1>6. "completed" \in PlanStatuses
    BY DEF PlanStatuses
  <1> QED
    BY <1>3, <1>4, <1>5, <1>6, PlanStatusSound

-----------------------------------------------------------------------------
\* Changing the goal moves no point: it rewrites an open row at most.
LEMMA ChangeGoalSound ==
    ASSUME NEW a \in AccountType, NEW goal \in Nat \ {0}, NEW d \in Dates,
           Sound(a), HasPlan(a)
    PROVE  LET b == ChangeGoal(a, goal, d) IN b \in AccountType /\ Sound(b)
  <1> DEFINE b == ChangeGoal(a, goal, d)
             kind == ClassifyDay(d, a.study_week)
             required == RequiredUnitsFor(kind, goal)
             row == [a.days[d] EXCEPT !.day_kind = kind,
                                      !.required_units = required]
             days == IF a.days[d].status = "pending"
                     THEN [a.days EXCEPT ![d] = row] ELSE a.days
             plan == [a.plans[PlanId(a)] EXCEPT !.daily_goal = goal]
             plans == [a.plans EXCEPT ![PlanId(a)] = plan]
  <1>1. a.days \in [Dates -> StudyDay] /\ a.plans \in Seq(StudyPlan)
    BY DEF AccountType
  <1>2. kind \in DayKinds /\ required \in Nat
    BY DEF ClassifyDay, DayKinds, RequiredUnitsFor
  <1> HIDE DEF kind, required
  <1>3. /\ row \in StudyDay /\ row.status = a.days[d].status
        /\ row.points_awarded = a.days[d].points_awarded
    <2>1. a.days[d] \in StudyDay
      BY <1>1
    <2> QED
      BY <1>2, <2>1 DEF StudyDay
  <1>4. /\ days \in [Dates -> StudyDay]
        /\ \A e \in Dates :
              days[e] = a.days[e] \/ (e = d /\ days[e] = row)
    <2> HIDE DEF row
    <2> QED
      BY <1>1, <1>3
  <1>5. plans \in Seq(StudyPlan)
    <2>1. PlanId(a) \in DOMAIN a.plans /\ a.plans[PlanId(a)] \in StudyPlan
      BY PlanExists DEF Plan
    <2>2. plan \in StudyPlan
      BY <2>1 DEF StudyPlan
    <2> HIDE DEF plan
    <2> QED
      BY <1>1, <2>1, <2>2, ReplacePlan
  <1>6. b = [a EXCEPT !.plans = plans, !.days = days]
    BY DEF ChangeGoal, kind, required
  <1> HIDE DEF plans, days
  <1>7. /\ b \in AccountType /\ b.days = days
        /\ b.ledger = a.ledger /\ b.total_points = a.total_points
    BY <1>4, <1>5, <1>6 DEF AccountType
  <1> HIDE DEF row
  <1>8. \A e \in Dates : Paid(b, e) = Paid(a, e)
    BY <1>3, <1>4, <1>7 DEF Paid
  <1> QED
    BY <1>7, <1>8, SameLedgerSound

\* Moving the cursor neither moves points nor ends the plan.
LEMMA SetPositionSound ==
    ASSUME NEW a \in AccountType, NEW ordinal \in Nat, Sound(a), HasPlan(a)
    PROVE  LET b == SetPosition(a, ordinal)
           IN  b \in AccountType /\ Sound(b) /\ HasPlan(b)
  <1> DEFINE b == SetPosition(a, ordinal)
             plan == [a.plans[PlanId(a)] EXCEPT !.current_ordinal = ordinal]
             plans == [a.plans EXCEPT ![PlanId(a)] = plan]
  <1>1. /\ PlanId(a) \in DOMAIN a.plans /\ a.plans \in Seq(StudyPlan)
        /\ a.plans[PlanId(a)] \in StudyPlan
        /\ a.plans[PlanId(a)].status = "active"
    BY PlanExists DEF Plan, AccountType
  <1>2. plan \in StudyPlan /\ plan.status = "active"
    BY <1>1 DEF StudyPlan
  <1> HIDE DEF plan
  <1>3. /\ plans \in Seq(StudyPlan) /\ DOMAIN plans = DOMAIN a.plans
        /\ plans[PlanId(a)] = plan
    BY <1>1, <1>2, ReplacePlan
  <1>4. b = [a EXCEPT !.plans = plans]
    BY DEF SetPosition, plan
  <1> HIDE DEF plans
  <1>5. /\ b \in AccountType /\ b.days = a.days /\ b.plans = plans
        /\ b.ledger = a.ledger /\ b.total_points = a.total_points
    BY <1>3, <1>4 DEF AccountType
  <1>6. \A e \in Dates : Paid(b, e) = Paid(a, e)
    BY <1>5 DEF Paid
  <1>7. HasPlan(b)
    BY <1>1, <1>2, <1>3, <1>5 DEF HasPlan, ActivePlans
  <1> QED
    BY <1>5, <1>6, <1>7, SameLedgerSound

\* A new plan is active, and a matter of no points.
LEMMA CreatePlanSound ==
    ASSUME NEW a \in AccountType, NEW goal \in Nat \ {0},
           NEW size \in Nat \ {0}, NEW start \in Dates,
           NEW created \in Dates, Sound(a)
    PROVE  LET b == CreatePlan(a, goal, size, start, created)
           IN  b \in AccountType /\ Sound(b) /\ HasPlan(b)
  <1> DEFINE b == CreatePlan(a, goal, size, start, created)
             plan == [daily_goal |-> goal, start_date |-> start,
                      created |-> created, current_ordinal |-> 0,
                      mishnayot_count |-> size, status |-> "active"]
             plans == Append(a.plans, plan)
             n == Len(a.plans)
  <1>1. plan \in StudyPlan /\ plan.status = "active"
    <2>1. "active" \in PlanStatuses
      BY DEF PlanStatuses
    <2> QED
      BY <2>1 DEF StudyPlan
  <1> HIDE DEF plan
  <1>2. a.plans \in Seq(StudyPlan)
    BY DEF AccountType
  <1>3. /\ plans \in Seq(StudyPlan) /\ n + 1 \in DOMAIN plans
        /\ plans[n + 1] = plan
    BY <1>1, <1>2, AppendProperties, LenProperties
  <1>4. b = [a EXCEPT !.plans = plans]
    BY DEF CreatePlan, plan
  <1> HIDE DEF plans
  <1>5. /\ b \in AccountType /\ b.days = a.days /\ b.plans = plans
        /\ b.ledger = a.ledger /\ b.total_points = a.total_points
    BY <1>3, <1>4 DEF AccountType
  <1>6. \A e \in Dates : Paid(b, e) = Paid(a, e)
    BY <1>5 DEF Paid
  <1>7. HasPlan(b)
    BY <1>1, <1>3, <1>5 DEF HasPlan, ActivePlans
  <1> QED
    BY <1>5, <1>6, <1>7, SameLedgerSound

\* The plan that is left behind is still a plan.
LEMMA AbandonSound ==
    ASSUME NEW a \in AccountType, Sound(a)
    PROVE  LET b == Abandon(a) IN b \in AccountType /\ Sound(b)
  <1>1. CASE HasPlan(a)
    <2>1. PlanId(a) \in DOMAIN a.plans /\ "abandoned" \in PlanStatuses
      BY <1>1, PlanExists DEF PlanStatuses
    <2> QED
      BY <1>1, <2>1, PlanStatusSound DEF Abandon
  <1>2. CASE ~HasPlan(a)
    BY <1>2 DEF Abandon
  <1> QED
    BY <1>1, <1>2

\* Switching tractate is abandoning, creating, positioning and a goal.
LEMMA SwitchTractateSound ==
    ASSUME NEW a \in AccountType, NEW goal \in Nat \ {0},
           NEW size \in Nat \ {0}, NEW ordinal \in Nat,
           NEW utcDate \in Dates, NEW created \in Dates, Sound(a)
    PROVE  LET b == SwitchTractate(a, goal, size, ordinal, utcDate, created)
           IN  b \in AccountType /\ Sound(b)
  <1> DEFINE left == Abandon(a)
             fresh == CreatePlan(left, goal, size, utcDate, created)
             placed == SetPosition(fresh, ordinal)
  <1>1. left \in AccountType /\ Sound(left)
    BY AbandonSound
  <1> HIDE DEF left
  <1>2. fresh \in AccountType /\ Sound(fresh) /\ HasPlan(fresh)
    BY <1>1, CreatePlanSound
  <1> HIDE DEF fresh
  <1>3. placed \in AccountType /\ Sound(placed) /\ HasPlan(placed)
    BY <1>2, SetPositionSound
  <1> HIDE DEF placed
  <1>4. LET b == ChangeGoal(placed, goal, utcDate)
        IN  b \in AccountType /\ Sound(b)
    BY <1>3, ChangeGoalSound
  <1> QED
    BY <1>4 DEF SwitchTractate, left, fresh, placed

-----------------------------------------------------------------------------
\* A purchase charges what the learner can pay, under a key that is no
\* day's.
LEMMA PurchaseSound ==
    ASSUME NEW a \in AccountType, NEW key \in RequestKeys, Sound(a),
           CanPurchase(a)
    PROVE  LET b == Purchase(a, key) IN b \in AccountType /\ Sound(b)
  <1> DEFINE k == PurchaseKey(a, key)
             cost == -FreezeCost
             charged == PostTransaction(a, k, cost)
             b == Purchase(a, key)
  <1>1. k \in TxnTypes \X Nat
    <2>1. a.ledger \in Seq(PointTransaction)
      BY DEF AccountType
    <2>2. Len(a.ledger) \in Nat
      BY <2>1, LenProperties
    <2>3. key # NoKey => key \in Nat
      BY DEF RequestKeys
    <2> QED
      BY <2>2, <2>3 DEF PurchaseKey, TxnTypes
  <1>2. \A d \in Dates : DailyKey(d) # k /\ PenaltyKey(d) # k
    BY DEF PurchaseKey, DailyKey, PenaltyKey
  <1>3. cost \in Int /\ a.total_points + cost >= 0
    BY FreezeCostAssumption DEF CanPurchase, AccountType
  <1> HIDE DEF k, cost
  <1>4. CASE ~Posts(a, k, cost)
    BY <1>4 DEF Purchase, k, cost
  <1>5. CASE Posts(a, k, cost)
    <2>1. charged \in AccountType
      BY <1>1, <1>3, PostTransactionType
    <2>2. b = [charged EXCEPT !.quantity = @ + 1]
      BY <1>5 DEF Purchase, k, cost
    <2>3. LedgerReconciles(charged)
      BY <1>1, <1>3, PostingReconciles DEF Sound
    <2>4. charged.days = a.days
      BY <1>1, <1>3, <1>5, PostTransactionFields
    <2>5. /\ UniqueKeys(charged)
          /\ \A j : HasTransaction(charged, j) <=>
                       HasTransaction(a, j) \/ j = k
          /\ \A j, m : Posted(charged, j, m) <=>
                          Posted(a, j, m) \/ (j = k /\ m = cost)
      BY <1>1, <1>3, <1>5, PostingKeys DEF Sound, VerdictsPaidOnce
    <2>6. VerdictsPaidOnce(charged)
      BY <1>2, <2>4, <2>5 DEF Sound, VerdictsPaidOnce
    <2> HIDE DEF charged
    <2>7. /\ b \in AccountType /\ b.days = charged.days
          /\ b.ledger = charged.ledger
          /\ b.total_points = charged.total_points
      <3>1. charged.quantity \in Nat
        BY <2>1 DEF AccountType
      <3>2. charged.quantity + 1 \in Nat
        BY <3>1
      <3> QED
        BY <2>1, <2>2, <3>2 DEF AccountType
    <2>8. \A d \in Dates : Paid(b, d) = Paid(charged, d)
      BY <2>7 DEF Paid
    <2> QED
      BY <2>1, <2>3, <2>6, <2>7, <2>8, SameLedgerSound DEF Sound
  <1> QED
    BY <1>4, <1>5

\* A learner who has just signed in has an empty, sound account.
LEMMA NewAccountSound ==
    ASSUME NEW week \in StudyWeeks, NEW zone \in ZoneKinds
    PROVE  LET b == NewAccount(week, zone)
           IN  b \in AccountType /\ Sound(b)
  <1> DEFINE b == NewAccount(week, zone)
  <1>1. NoDay \in StudyDay
    BY DEF NoDay, StudyDay, DayKinds, Statuses
  <1>2. b \in AccountType
    <2>1. /\ <<>> \in Seq(PointTransaction) /\ <<>> \in Seq(StudyEvent)
          /\ <<>> \in Seq(StudyPlan)
      OBVIOUS
    <2>2. [d \in Dates |-> NoDay] \in [Dates -> StudyDay]
      BY <1>1
    <2>3. NoDate \in Dates \cup {NoDate} /\ {} \in SUBSET Dates
      OBVIOUS
    <2> QED
      BY <2>1, <2>2, <2>3 DEF NewAccount, AccountType
  <1>3. /\ b.ledger = <<>> /\ b.total_points = 0
        /\ \A d \in Dates : b.days[d] = NoDay
    BY DEF NewAccount
  <1>4. DOMAIN b.ledger = {}
    BY <1>3
  <1>5. LedgerReconciles(b)
    BY <1>3, <1>4 DEF LedgerReconciles, LastBalance
  <1>6. VerdictsPaidOnce(b)
    BY <1>3, <1>4
       DEF VerdictsPaidOnce, UniqueKeys, HasTransaction, Posted, NoDay
  <1> QED
    BY <1>2, <1>5, <1>6 DEF Sound

\* From a to b no verdict has changed, and no day outside of D got one.
Judges(a, b, D) ==
    \A d \in Dates :
        /\ Resolved(a, d) => Verdict(b.days[d]) = Verdict(a.days[d])
        /\ d \notin D /\ Resolved(b, d) => Resolved(a, d)

FrozenDays(a) == {d \in Dates : a.days[d].status = "frozen_item"}

\* Owned, consumed, and where.
Purse(a) == <<a.quantity, a.freezes_consumed, a.usages>>

PurchaseTypes == {"purchase", "purchase_uuid"}

\* The ledger holds finitely many purchases.
LEMMA PurchasesFinite ==
    ASSUME NEW a \in AccountType
    PROVE  IsFiniteSet(Purchases(a)) /\ Purchases(a) \subseteq DOMAIN a.ledger
  <1>1. a.ledger \in Seq(PointTransaction)
    BY DEF AccountType
  <1>2. DOMAIN a.ledger = 1..Len(a.ledger) /\ Len(a.ledger) \in Nat
    BY <1>1, LenProperties
  <1>3. IsFiniteSet(1..Len(a.ledger))
    BY <1>2, FS_Interval
  <1> QED
    BY <1>2, <1>3, FS_Subset DEF Purchases

\* A posting adds itself to the purchases if it is one, and nothing else.
LEMMA PostingPurchases ==
    ASSUME NEW a \in AccountType, NEW key \in TxnTypes \X Nat,
           NEW amount \in Int, Posts(a, key, amount)
    PROVE  LET b == PostTransaction(a, key, amount)
           IN  /\ key[1] \notin PurchaseTypes => Purchases(b) = Purchases(a)
               /\ key[1] \in PurchaseTypes =>
                     Purchases(b) = Purchases(a) \cup {Len(a.ledger) + 1}
               /\ Len(a.ledger) + 1 \notin Purchases(a)
  <1> DEFINE txn == [key |-> key, amount |-> amount,
                     balance_after |-> a.total_points + amount]
             b == PostTransaction(a, key, amount)
             n == Len(a.ledger)
  <1>1. b.ledger = Append(a.ledger, txn)
    BY PostTransactionFields
  <1>2. txn \in PointTransaction /\ a.ledger \in Seq(PointTransaction)
    BY DEF PointTransaction, AccountType
  <1>3. /\ n \in Nat
        /\ DOMAIN b.ledger = 1..(n + 1) /\ DOMAIN a.ledger = 1..n
        /\ \A i \in 1..n : b.ledger[i] = a.ledger[i]
        /\ b.ledger[n + 1] = txn
    BY <1>1, <1>2, AppendProperties, LenProperties
  <1>4. txn.key = key
    OBVIOUS
  <1>5. DOMAIN b.ledger = DOMAIN a.ledger \cup {n + 1}
        /\ n + 1 \notin DOMAIN a.ledger
    BY <1>3
  <1> HIDE DEF b, txn
  <1>6. \A i : i \in Purchases(b) <=>
                  \/ i \in Purchases(a)
                  \/ i = n + 1 /\ key[1] \in PurchaseTypes
    BY <1>3, <1>4, <1>5 DEF Purchases, PurchaseTypes
  <1>7. n + 1 \notin Purchases(a)
    BY <1>5 DEF Purchases
  <1> QED
    BY <1>6, <1>7 DEF b

\* Freezes are accounted for as long as the purse, the purchases and the
\* frozen days are.
LEMMA SameFreezes ==
    ASSUME NEW a, NEW b, FreezesAccounted(a), Purse(b) = Purse(a),
           Purchases(b) = Purchases(a), FrozenDays(b) = FrozenDays(a)
    PROVE  FreezesAccounted(b)
  BY DEF FreezesAccounted, Purse, FrozenDays

\* A verdict is written on one row and on nothing else.
LEMMA ResolveEffects ==
    ASSUME NEW a \in AccountType, NEW d \in Dates,
           NEW status \in TerminalStatuses, NEW points \in Int
    PROVE  LET b == Resolve(a, d, status, points)
           IN  /\ Resolved(b, d) /\ b.days[d].status = status
               /\ b.days[d].day_kind = a.days[d].day_kind
               /\ \A e \in Dates \ {d} : b.days[e] = a.days[e]
               /\ Purse(b) = Purse(a) /\ Purchases(b) = Purchases(a)
  <1> DEFINE row == [a.days[d] EXCEPT !.status = status,
                                      !.points_awarded = points,
                                      !.streak_after = a.current_streak]
             b == Resolve(a, d, status, points)
  <1>1. /\ b.days[d].status = status
        /\ \A e \in Dates \ {d} : b.days[e] = a.days[e]
        /\ b.ledger = a.ledger
    BY ResolveFields
  <1>2. a.days \in [Dates -> StudyDay] /\ a.days[d] \in StudyDay
    BY DEF AccountType
  <1>3. row.day_kind = a.days[d].day_kind
    BY <1>2 DEF StudyDay
  <1>4. b = [a EXCEPT !.days = [a.days EXCEPT ![d] = row]]
    BY DEF Resolve
  <1>5. Purse(b) = Purse(a) /\ b.days = [a.days EXCEPT ![d] = row]
    BY <1>4 DEF Purse, AccountType
  <1>6. b.days[d] = row
    BY <1>2, <1>5
  <1> QED
    BY <1>1, <1>3, <1>5, <1>6 DEF Resolved, Purchases

-----------------------------------------------------------------------------
\* b is a after judging the open day d, and no other.
JudgesOne(a, b, d) ==
    /\ Resolved(b, d)
    /\ b.days[d].day_kind = a.days[d].day_kind
    /\ \A e \in Dates \ {d} : b.days[e] = a.days[e]

\* A verdict that is not a freeze leaves the freezes accounted for.
LEMMA UnfrozenVerdict ==
    ASSUME NEW a, NEW b, NEW d \in Dates, FreezesAccounted(a),
           ~Resolved(a, d), JudgesOne(a, b, d),
           b.days[d].status # "frozen_item",
           Purse(b) = Purse(a), Purchases(b) = Purchases(a)
    PROVE  FreezesAccounted(b)
  <1>1. a.days[d].status # "frozen_item"
    BY DEF Resolved, TerminalStatuses, NeutralStatuses
  <1>2. FrozenDays(b) = FrozenDays(a)
    BY <1>1 DEF JudgesOne, FrozenDays
  <1> QED
    BY <1>2, SameFreezes

\* Completing a day, live or by settlement, touches no freeze.
LEMMA CreditDayEffects ==
    ASSUME NEW a \in AccountType, NEW d \in Dates, FreezesAccounted(a),
           ~Resolved(a, d)
    PROVE  LET b == CreditDay(a, d)
           IN  /\ JudgesOne(a, b, d) /\ b.days[d].status = "completed"
               /\ FreezesAccounted(b)
  <1> DEFINE streak == a.current_streak + 1
             points == PointsForCompletion(streak)
             key == DailyKey(d)
             paid == PostTransaction(a, key, points)
             moved == [paid EXCEPT !.current_streak = streak,
                                   !.longest_streak = IF @ < streak
                                                      THEN streak ELSE @]
             b == CreditDay(a, d)
  <1>1. /\ streak \in Nat /\ a.total_points \in Nat /\ points \in Nat
        /\ points \in Int /\ a.total_points + points >= 0
    <2>1. streak \in Nat /\ a.total_points \in Nat
      BY DEF AccountType
    <2>2. points \in Nat
      BY <2>1, PointsPositive
    <2> QED
      BY <2>1, <2>2
  <1>2. key \in TxnTypes \X Nat /\ key[1] \notin PurchaseTypes
    BY DEF DailyKey, TxnTypes, Dates, PurchaseTypes
  <1>3. "completed" \in TerminalStatuses
    BY DEF TerminalStatuses
  <1>4. \A c \in AccountType, n \in Int :
           c.days = a.days /\ Purse(c) = Purse(a) /\ Purchases(c) = Purchases(a)
           => LET r == Resolve(c, d, "completed", n)
              IN  /\ JudgesOne(a, r, d) /\ r.days[d].status = "completed"
                  /\ FreezesAccounted(r)
    <2> SUFFICES ASSUME NEW c \in AccountType, NEW n \in Int,
                        c.days = a.days, Purse(c) = Purse(a),
                        Purchases(c) = Purchases(a)
                 PROVE  LET r == Resolve(c, d, "completed", n)
                        IN  /\ JudgesOne(a, r, d)
                            /\ r.days[d].status = "completed"
                            /\ FreezesAccounted(r)
      OBVIOUS
    <2> DEFINE r == Resolve(c, d, "completed", n)
    <2>1. /\ JudgesOne(a, r, d) /\ r.days[d].status = "completed"
          /\ Purse(r) = Purse(a) /\ Purchases(r) = Purchases(a)
      BY <1>3, ResolveEffects DEF JudgesOne
    <2> HIDE DEF r
    <2>2. FreezesAccounted(r)
      BY <2>1, UnfrozenVerdict
    <2> QED
      BY <2>1, <2>2 DEF r
  <1> HIDE DEF points, key
  <1>5. CASE Posts(a, key, points)
    <2>1. paid \in AccountType
      BY <1>1, <1>2, PostTransactionType
    <2>2. /\ paid.days = a.days /\ Purse(paid) = Purse(a)
          /\ Purchases(paid) = Purchases(a)
      <3>1. Purchases(paid) = Purchases(a) /\ paid.days = a.days
        BY <1>1, <1>2, <1>5, PostingPurchases, PostTransactionFields
      <3>2. Purse(paid) = Purse(a)
        BY DEF PostTransaction, Purse, AccountType
      <3> QED
        BY <3>1, <3>2
    <2> HIDE DEF paid
    <2>3. /\ moved \in AccountType /\ moved.days = a.days
          /\ Purse(moved) = Purse(a) /\ Purchases(moved) = Purchases(a)
      BY <1>1, <2>1, <2>2 DEF AccountType, Purse, Purchases
    <2>4. b = Resolve(moved, d, "completed", points)
      BY <1>5 DEF CreditDay, points, key, paid
    <2> HIDE DEF moved
    <2> QED
      BY <1>1, <1>4, <2>3, <2>4
  <1>6. CASE ~Posts(a, key, points)
    <2>1. b = Resolve(a, d, "completed", 0)
      BY <1>6 DEF CreditDay, points, key
    <2> QED
      BY <1>4, <2>1
  <1> QED
    BY <1>5, <1>6

\* Neither does a miss.
LEMMA MissDayEffects ==
    ASSUME NEW a \in AccountType, NEW d \in Dates, FreezesAccounted(a),
           ~Resolved(a, d)
    PROVE  LET b == MissDay(a, d)
           IN  JudgesOne(a, b, d) /\ FreezesAccounted(b)
  <1> DEFINE penalty == PenaltyForMiss(a.total_points)
             fine == -penalty
             key == PenaltyKey(d)
             fined == PostTransaction(a, key, fine)
             moved == [fined EXCEPT !.current_streak = 0]
             b == MissDay(a, d)
  <1>1. fine \in Int /\ a.total_points + fine >= 0
    <2>1. a.total_points \in Nat
      BY DEF AccountType
    <2>2. penalty \in Nat /\ penalty <= a.total_points
      BY <2>1, PenaltyPayable
    <2> QED
      BY <2>1, <2>2
  <1>2. key \in TxnTypes \X Nat /\ key[1] \notin PurchaseTypes
    BY DEF PenaltyKey, TxnTypes, Dates, PurchaseTypes
  <1>3. "missed" \in TerminalStatuses
    BY DEF TerminalStatuses
  <1> HIDE DEF fine, key
  <1>4. fined \in AccountType
    BY <1>1, <1>2, PostTransactionType
  <1>5. /\ fined.days = a.days /\ Purse(fined) = Purse(a)
        /\ Purchases(fined) = Purchases(a)
    <2>1. Posts(a, key, fine) => Purchases(fined) = Purchases(a)
      BY <1>1, <1>2, PostingPurchases
    <2>2. ~Posts(a, key, fine) => Purchases(fined) = Purchases(a)
      BY DEF PostTransaction
    <2>3. fined.days = a.days /\ Purse(fined) = Purse(a)
      BY DEF PostTransaction, Purse, AccountType
    <2> QED
      BY <2>1, <2>2, <2>3
  <1> HIDE DEF fined
  <1>6. /\ moved \in AccountType /\ moved.days = a.days
        /\ Purse(moved) = Purse(a) /\ Purchases(moved) = Purchases(a)
    BY <1>4, <1>5 DEF AccountType, Purse, Purchases
  <1>7. b = Resolve(moved, d, "missed", fine)
    BY DEF MissDay, fine, key, fined
  <1> HIDE DEF moved, b
  <1>8. /\ JudgesOne(a, b, d) /\ b.days[d].status = "missed"
        /\ Purse(b) = Purse(a) /\ Purchases(b) = Purchases(a)
    BY <1>1, <1>3, <1>6, <1>7, ResolveEffects DEF JudgesOne
  <1>9. FreezesAccounted(b)
    BY <1>8, UnfrozenVerdict
  <1> QED
    BY <1>8, <1>9 DEF b

\* A freeze leaves the inventory for the day that it froze, and for no other.
LEMMA FreezeDayEffects ==
    ASSUME NEW a \in AccountType, NEW d \in Dates, FreezesAccounted(a),
           ~Resolved(a, d)
    PROVE  LET b == FreezeDay(a, d)
           IN  JudgesOne(a, b, d) /\ FreezesAccounted(b)
  <1> DEFINE used == [a EXCEPT !.quantity = @ - 1,
                               !.freezes_consumed = @ + 1,
                               !.usages = @ \cup {d}]
             b == FreezeDay(a, d)
  <1>1. CASE a.quantity <= 0
    BY <1>1, MissDayEffects DEF FreezeDay
  <1>2. CASE ~(a.quantity <= 0)
    <2>1. /\ a.quantity \in Nat /\ a.freezes_consumed \in Nat
          /\ a.usages \in SUBSET Dates /\ MaxOwned \in Nat
      BY MaxOwnedAssumption DEF AccountType
    <2>2. /\ used \in AccountType /\ used.days = a.days
          /\ used.ledger = a.ledger
          /\ used.quantity = a.quantity - 1
          /\ used.freezes_consumed = a.freezes_consumed + 1
          /\ used.usages = a.usages \cup {d}
      <3>1. a.quantity - 1 \in Nat /\ a.freezes_consumed + 1 \in Nat
        BY <1>2, <2>1
      <3>2. a.usages \cup {d} \in SUBSET Dates
        BY <2>1
      <3> QED
        BY <3>1, <3>2 DEF AccountType
    <2>3. b = Resolve(used, d, "frozen_item", 0)
      BY <1>2 DEF FreezeDay
    <2>4. "frozen_item" \in TerminalStatuses
      BY DEF TerminalStatuses, NeutralStatuses
    <2> HIDE DEF used, b
    <2>5. /\ JudgesOne(a, b, d) /\ b.days[d].status = "frozen_item"
          /\ Purse(b) = Purse(used) /\ Purchases(b) = Purchases(used)
      BY <2>2, <2>3, <2>4, ResolveEffects DEF JudgesOne
    <2>6. d \notin a.usages
      BY DEF FreezesAccounted, Resolved, TerminalStatuses, NeutralStatuses
    <2>7. Cardinality(a.usages \cup {d}) = Cardinality(a.usages) + 1
      <3>1. IsFiniteSet(Dates)
        BY MaxDayAssumption, FS_Interval DEF Dates
      <3>2. IsFiniteSet(a.usages)
        BY <2>1, <3>1, FS_Subset
      <3> QED
        BY <2>6, <3>2, FS_AddElement
    <2>8. Purchases(b) = Purchases(a)
      BY <2>2, <2>5 DEF Purchases
    <2>9. /\ b.quantity = a.quantity - 1
          /\ b.freezes_consumed = a.freezes_consumed + 1
          /\ b.usages = a.usages \cup {d}
      BY <2>2, <2>5 DEF Purse
    <2>10. b.usages = FrozenDays(b)
      BY <2>5, <2>9 DEF FrozenDays, FreezesAccounted, JudgesOne
    <2>11. /\ a.quantity + a.freezes_consumed = Cardinality(Purchases(a))
           /\ a.freezes_consumed = Cardinality(a.usages)
           /\ a.quantity <= MaxOwned
      BY DEF FreezesAccounted
    <2>12. /\ b.quantity + b.freezes_consumed = Cardinality(Purchases(b))
           /\ b.freezes_consumed = Cardinality(b.usages)
           /\ b.quantity <= MaxOwned
      BY <2>1, <2>7, <2>8, <2>9, <2>11
    <2> QED
      BY <2>5, <2>10, <2>12 DEF FreezesAccounted, FrozenDays, b
  <1> QED
    BY <1>1, <1>2

\* A neutral verdict is not a freeze here.
LEMMA NeutralDayEffects ==
    ASSUME NEW a \in AccountType, NEW d \in Dates, FreezesAccounted(a),
           ~Resolved(a, d), NEW status \in {"rest_day", "exempt"}
    PROVE  LET b == NeutralDay(a, d, status)
           IN  /\ JudgesOne(a, b, d) /\ b.days[d].status = status
               /\ FreezesAccounted(b)
  <1> DEFINE b == NeutralDay(a, d, status)
  <1>1. status \in TerminalStatuses /\ status # "frozen_item"
    BY DEF TerminalStatuses, NeutralStatuses
  <1>2. /\ JudgesOne(a, b, d) /\ b.days[d].status = status
        /\ Purse(b) = Purse(a) /\ Purchases(b) = Purchases(a)
    BY <1>1, ResolveEffects DEF NeutralDay, JudgesOne
  <1> HIDE DEF b
  <1>3. FreezesAccounted(b)
    BY <1>1, <1>2, UnfrozenVerdict
  <1> QED
    BY <1>2, <1>3 DEF b

\* What a decision does to the day it is about.
LEMMA ApplyEffects ==
    ASSUME NEW a \in AccountType, NEW d \in Dates, FreezesAccounted(a),
           NEW decision \in Decisions, decision # "carry" => ~Resolved(a, d)
    PROVE  LET b == Apply(a, d, decision)
           IN  /\ FreezesAccounted(b)
               /\ IF decision = "carry" THEN b = a ELSE JudgesOne(a, b, d)
               /\ decision = "credit" => b.days[d].status = "completed"
               /\ decision = "rest" => b.days[d].status = "rest_day"
               /\ decision = "exempt" => b.days[d].status = "exempt"
  <1>1. CASE decision = "carry"
    BY <1>1 DEF Apply
  <1>2. CASE decision = "credit"
    BY <1>2, CreditDayEffects DEF Apply
  <1>3. CASE decision = "miss"
    BY <1>3, MissDayEffects DEF Apply
  <1>4. CASE decision = "freeze"
    BY <1>4, FreezeDayEffects DEF Apply
  <1>5. CASE decision = "rest"
    BY <1>5, NeutralDayEffects DEF Apply
  <1>6. CASE decision = "exempt"
    BY <1>6, NeutralDayEffects DEF Apply
  <1> QED
    BY <1>1, <1>2, <1>3, <1>4, <1>5, <1>6 DEF Decisions

\* Opening a day judges nothing.
LEMMA GetOrCreateDayEffects ==
    ASSUME NEW a \in AccountType, NEW d \in Dates, FreezesAccounted(a)
    PROVE  LET b == GetOrCreateDay(a, d)
           IN  /\ FreezesAccounted(b)
               /\ HasDay(a, d) => b = a
               /\ ~HasDay(a, d) => b.days[d].status = "pending"
               /\ \A e \in Dates \ {d} : b.days[e] = a.days[e]
  <1> DEFINE kind == ClassifyDay(d, a.study_week)
             row == [day_kind |-> kind,
                     required_units |->
                         RequiredUnitsFor(kind, Plan(a).daily_goal),
                     completed_units |-> 0, status |-> "pending",
                     points_awarded |-> 0, streak_after |-> 0,
                     plan_id |-> PlanId(a)]
             b == GetOrCreateDay(a, d)
  <1>1. CASE HasDay(a, d)
    BY <1>1 DEF GetOrCreateDay
  <1>2. CASE ~HasDay(a, d)
    <2>1. b = [a EXCEPT !.days = [a.days EXCEPT ![d] = row]]
      BY <1>2 DEF GetOrCreateDay
    <2>2. row.status = "pending"
      OBVIOUS
    <2> HIDE DEF row, b
    <2>3. /\ b.days = [a.days EXCEPT ![d] = row] /\ Purse(b) = Purse(a)
          /\ b.ledger = a.ledger /\ DOMAIN a.days = Dates
      BY <2>1 DEF AccountType, Purse
    <2>4. /\ b.days[d].status = "pending"
          /\ \A e \in Dates \ {d} : b.days[e] = a.days[e]
      BY <2>2, <2>3
    <2>5. a.days[d].status # "frozen_item"
      BY <1>2 DEF HasDay
    <2>6. FrozenDays(b) = FrozenDays(a)
      BY <2>4, <2>5 DEF FrozenDays
    <2>7. FreezesAccounted(b)
      BY <2>3, <2>6, SameFreezes DEF Purchases
    <2> QED
      BY <1>2, <2>4, <2>7 DEF b
  <1> QED
    BY <1>1, <1>2

\* One iteration of settle_user touches one day, leaves a verdict that is there
\* already, and holds a rest day that had no row.
LEMMA SettleDayEffects ==
    ASSUME NEW a \in AccountType, NEW d \in Dates, Sound(a), HasPlan(a),
           FreezesAccounted(a)
    PROVE  LET b == SettleDay(a, d)
           IN  /\ FreezesAccounted(b)
               /\ \A e \in Dates \ {d} : b.days[e] = a.days[e]
               /\ Resolved(a, d) => b.days[d] = a.days[d]
               /\ ~HasDay(a, d) /\ b.days[d].day_kind = "rest_day" =>
                     b.days[d].status \in {"rest_day", "exempt", "completed"}
  <1> DEFINE opened == GetOrCreateDay(a, d)
             decision == Decide(opened, d, ~HasDay(a, d))
             judged == Apply(opened, d, decision)
             b == SettleDay(a, d)
  <1>1. opened \in AccountType
    BY GetOrCreateDaySound
  <1>2. /\ FreezesAccounted(opened)
        /\ HasDay(a, d) => opened = a
        /\ ~HasDay(a, d) => opened.days[d].status = "pending"
        /\ \A e \in Dates \ {d} : opened.days[e] = a.days[e]
    BY GetOrCreateDayEffects
  <1>3. /\ decision \in Decisions
        /\ decision # "carry" => ~Resolved(opened, d)
        /\ Resolved(opened, d) => decision = "carry"
    BY DEF Decide, Decisions
  <1>4. /\ ~HasDay(a, d) /\ opened.days[d].day_kind = "rest_day"
        => decision \in {"credit", "rest", "exempt"}
    BY <1>2 DEF Decide, Resolved, TerminalStatuses, NeutralStatuses
  <1> HIDE DEF opened, decision
  <1>5. /\ FreezesAccounted(judged)
        /\ IF decision = "carry" THEN judged = opened
                                 ELSE JudgesOne(opened, judged, d)
        /\ decision = "credit" => judged.days[d].status = "completed"
        /\ decision = "rest" => judged.days[d].status = "rest_day"
        /\ decision = "exempt" => judged.days[d].status = "exempt"
    BY <1>1, <1>2, <1>3, ApplyEffects
  <1>6. judged \in AccountType
    <2>1. Sound(opened)
      BY GetOrCreateDaySound DEF opened
    <2> QED
      BY <1>1, <1>3, <2>1, ApplySound
  <1>7. b = [judged EXCEPT !.last_settled_date = d]
    BY DEF SettleDay, opened, decision
  <1> HIDE DEF judged, b
  <1>8. /\ b.days = judged.days /\ Purse(b) = Purse(judged)
        /\ Purchases(b) = Purchases(judged)
    BY <1>6, <1>7 DEF AccountType, Purse, Purchases
  <1>9. FreezesAccounted(b)
    BY <1>5, <1>8, SameFreezes DEF FrozenDays
  <1>10. \A e \in Dates \ {d} : b.days[e] = a.days[e]
    BY <1>2, <1>5, <1>8 DEF JudgesOne
  <1>11. Resolved(a, d) => b.days[d] = a.days[d]
    <2> SUFFICES ASSUME Resolved(a, d) PROVE b.days[d] = a.days[d]
      OBVIOUS
    <2>1. HasDay(a, d)
      BY DEF Resolved, HasDay, TerminalStatuses, NeutralStatuses
    <2> QED
      BY <1>2, <1>3, <1>5, <1>8, <2>1
  <1>12. /\ ~HasDay(a, d) /\ b.days[d].day_kind = "rest_day"
         => b.days[d].status \in {"rest_day", "exempt", "completed"}
    <2> SUFFICES ASSUME ~HasDay(a, d), b.days[d].day_kind = "rest_day"
                 PROVE  b.days[d].status \in {"rest_day", "exempt", "completed"}
      OBVIOUS
    <2>1. opened.days[d].day_kind = "rest_day"
      BY <1>5, <1>8 DEF JudgesOne
    <2> QED
      BY <1>4, <1>5, <1>8, <2>1
  <1> QED
    BY <1>9, <1>10, <1>11, <1>12 DEF b

-----------------------------------------------------------------------------
\* An account whose days keep their status, and the resolved ones their
\* verdict, with the same purse and purchases.
LEMMA NothingJudged ==
    ASSUME NEW a, NEW b, FreezesAccounted(a),
           Purse(b) = Purse(a), Purchases(b) = Purchases(a),
           \A d \in Dates :
              /\ b.days[d].status = a.days[d].status
              /\ Resolved(a, d) => Verdict(b.days[d]) = Verdict(a.days[d])
    PROVE  FreezesAccounted(b) /\ Judges(a, b, {})
  <1>1. FrozenDays(b) = FrozenDays(a)
    BY DEF FrozenDays
  <1>2. FreezesAccounted(b)
    BY <1>1, SameFreezes
  <1>3. Judges(a, b, {})
    BY DEF Judges, Resolved
  <1> QED
    BY <1>2, <1>3

\* In particular one with the same days.
LEMMA SameDays ==
    ASSUME NEW a, NEW b, FreezesAccounted(a), b.days = a.days,
           Purse(b) = Purse(a), b.ledger = a.ledger
    PROVE  FreezesAccounted(b) /\ Judges(a, b, {})
  <1>1. Purchases(b) = Purchases(a)
    BY DEF Purchases
  <1> QED
    BY <1>1, NothingJudged

\* What two operations in a row judge, one of them judged.
LEMMA JudgesBoth ==
    ASSUME NEW a, NEW b, NEW c, NEW D, NEW E,
           Judges(a, b, D), Judges(b, c, E)
    PROVE  Judges(a, c, D \cup E)
  <1> SUFFICES ASSUME NEW d \in Dates
               PROVE  /\ Resolved(a, d) =>
                            Verdict(c.days[d]) = Verdict(a.days[d])
                      /\ d \notin D \cup E /\ Resolved(c, d) => Resolved(a, d)
    BY DEF Judges
  <1>1. Verdict(b.days[d]) = Verdict(a.days[d]) =>
           b.days[d].status = a.days[d].status
    BY DEF Verdict
  <1>2. Resolved(a, d) => Resolved(b, d)
    BY <1>1 DEF Judges, Resolved
  <1> QED
    BY <1>2 DEF Judges

\* Recording units changes no verdict.
LEMMA RecordUnitsEffects ==
    ASSUME NEW a \in AccountType, NEW d \in Dates, NEW n \in Nat,
           NEW key \in RequestKeys, FreezesAccounted(a)
    PROVE  LET b == RecordUnits(a, d, n, key)
           IN  /\ FreezesAccounted(b) /\ Judges(a, b, {})
               /\ \A e \in Dates : Verdict(b.days[e]) = Verdict(a.days[e])
  <1> DEFINE b == RecordUnits(a, d, n, key)
             day == [a.days[d] EXCEPT !.completed_units = @ + n]
  <1>1. a.days \in [Dates -> StudyDay] /\ a.days[d] \in StudyDay
    BY DEF AccountType
  <1>2. Verdict(day) = Verdict(a.days[d])
    BY <1>1 DEF StudyDay, Verdict
  <1>3. /\ b.days = [a.days EXCEPT ![d] = day] /\ Purse(b) = Purse(a)
        /\ b.ledger = a.ledger
    BY DEF RecordUnits, AccountType, Purse
  <1> HIDE DEF b, day
  <1>4. \A e \in Dates : Verdict(b.days[e]) = Verdict(a.days[e])
    BY <1>1, <1>2, <1>3
  <1>5. \A e \in Dates : b.days[e].status = a.days[e].status
    BY <1>4 DEF Verdict
  <1> QED
    BY <1>3, <1>4, <1>5, NothingJudged DEF Purchases, b

\* A log judges the day it is on, as completed, or nothing.
LEMMA LogStudyEffects ==
    ASSUME NEW a \in AccountType, NEW d \in Dates, NEW units \in Nat,
           NEW key \in RequestKeys, Sound(a), HasPlan(a), CanLog(a, d),
           FreezesAccounted(a)
    PROVE  LET b == LogStudy(a, d, units, key)
           IN  /\ FreezesAccounted(b) /\ Judges(a, b, {d})
               /\ ~Resolved(a, d) /\ Resolved(b, d) =>
                     b.days[d].status = "completed"
  <1> DEFINE left == Plan(a).mishnayot_count - Plan(a).current_ordinal
             n == IF units < left THEN units ELSE left
             logged == RecordUnits(a, d, n, key)
             finished == units >= left
             enough == logged.days[d].completed_units >= GoalForDay(logged, d)
             credited == IF ~Resolved(logged, d) /\ (enough \/ finished)
                         THEN CreditDay(logged, d) ELSE logged
             b == LogStudy(a, d, units, key)
  <1>1. n \in Nat
    BY PlanExists DEF CanLog, StudyPlan
  <1> HIDE DEF n
  <1>2. /\ logged \in AccountType /\ Sound(logged)
        /\ FreezesAccounted(logged) /\ Judges(a, logged, {})
    BY <1>1, RecordUnitsSound, RecordUnitsEffects
  <1>3. Resolved(logged, d) => Resolved(a, d)
    BY <1>2 DEF Judges
  <1> HIDE DEF logged
  <1>4. /\ FreezesAccounted(credited) /\ Judges(logged, credited, {d})
        /\ ~Resolved(logged, d) /\ Resolved(credited, d) =>
              credited.days[d].status = "completed"
    <2>1. CASE ~Resolved(logged, d) /\ (enough \/ finished)
      <3>1. /\ JudgesOne(logged, credited, d) /\ FreezesAccounted(credited)
            /\ credited.days[d].status = "completed"
        BY <1>2, <2>1, CreditDayEffects
      <3> HIDE DEF credited, enough, finished
      <3>2. Judges(logged, credited, {d})
        BY <2>1, <3>1 DEF Judges, JudgesOne, Resolved
      <3> QED
        BY <3>1, <3>2
    <2>2. CASE ~(~Resolved(logged, d) /\ (enough \/ finished))
      <3>1. credited = logged
        BY <2>2
      <3> HIDE DEF credited, enough, finished
      <3> QED
        BY <1>2, <3>1 DEF Judges
    <2> QED
      BY <2>1, <2>2
  <1>5. b = IF finished
            THEN [credited EXCEPT !.plans[PlanId(a)].status = "completed"]
            ELSE credited
    BY DEF LogStudy, logged, n
  <1>6. credited \in AccountType
    BY <1>2, CreditDaySound
  <1> HIDE DEF credited, finished, b
  <1>7. b.days = credited.days /\ Purse(b) = Purse(credited)
        /\ b.ledger = credited.ledger
    BY <1>5, <1>6 DEF AccountType, Purse
  <1>8. FreezesAccounted(b) /\ Judges(credited, b, {})
    BY <1>4, <1>7, SameDays
  <1>9. Judges(a, b, {d})
    <2>1. Judges(a, credited, {} \cup {d})
      BY <1>2, <1>4, JudgesBoth
    <2>2. Judges(a, b, ({} \cup {d}) \cup {})
      BY <1>8, <2>1, JudgesBoth
    <2>3. ({} \cup {d}) \cup {} = {d}
      OBVIOUS
    <2> QED
      BY <2>2, <2>3
  <1>10. ~Resolved(a, d) /\ Resolved(b, d) => b.days[d].status = "completed"
    BY <1>3, <1>4, <1>7 DEF Resolved
  <1> QED
    BY <1>8, <1>9, <1>10 DEF b

-----------------------------------------------------------------------------
\* A change of goal rewrites an open row at most.
LEMMA ChangeGoalEffects ==
    ASSUME NEW a \in AccountType, NEW goal \in Nat \ {0}, NEW d \in Dates,
           FreezesAccounted(a)
    PROVE  LET b == ChangeGoal(a, goal, d)
           IN  /\ FreezesAccounted(b) /\ Judges(a, b, {})
               /\ \A e \in Dates : b.days[e].status = a.days[e].status
  <1> DEFINE kind == ClassifyDay(d, a.study_week)
             row == [a.days[d] EXCEPT
                        !.day_kind = kind,
                        !.required_units = RequiredUnitsFor(kind, goal)]
             days == IF a.days[d].status = "pending"
                     THEN [a.days EXCEPT ![d] = row] ELSE a.days
             b == ChangeGoal(a, goal, d)
  <1>1. a.days \in [Dates -> StudyDay] /\ a.days[d] \in StudyDay
    BY DEF AccountType
  <1>2. row.status = a.days[d].status
    BY <1>1 DEF StudyDay
  <1>3. b.days = days /\ Purse(b) = Purse(a) /\ b.ledger = a.ledger
    BY DEF ChangeGoal, AccountType, Purse
  <1> HIDE DEF b, row
  <1>4. ASSUME NEW e \in Dates
        PROVE  /\ b.days[e].status = a.days[e].status
               /\ Resolved(a, e) => Verdict(b.days[e]) = Verdict(a.days[e])
    <2>1. CASE e = d /\ a.days[d].status = "pending"
      <3>1. ~Resolved(a, e)
        BY <2>1 DEF Resolved, TerminalStatuses, NeutralStatuses
      <3> QED
        BY <1>1, <1>2, <1>3, <2>1, <3>1
    <2>2. CASE ~(e = d /\ a.days[d].status = "pending")
      <3>1. b.days[e] = a.days[e]
        BY <1>1, <1>3, <2>2
      <3> QED
        BY <3>1
    <2> QED
      BY <2>1, <2>2
  <1>5. Purchases(b) = Purchases(a)
    BY <1>3 DEF Purchases
  <1> QED
    BY <1>3, <1>4, <1>5, NothingJudged DEF b

\* Moving the cursor, making a plan and abandoning one leave the days alone.
LEMMA SetPositionEffects ==
    ASSUME NEW a \in AccountType, NEW ordinal \in Nat, FreezesAccounted(a)
    PROVE  LET b == SetPosition(a, ordinal)
           IN  FreezesAccounted(b) /\ Judges(a, b, {})
  <1> DEFINE b == SetPosition(a, ordinal)
  <1>1. b.days = a.days /\ Purse(b) = Purse(a) /\ b.ledger = a.ledger
    BY DEF SetPosition, AccountType, Purse
  <1> HIDE DEF b
  <1> QED
    BY <1>1, SameDays DEF b

LEMMA CreatePlanEffects ==
    ASSUME NEW a \in AccountType, NEW goal, NEW size, NEW start, NEW created,
           FreezesAccounted(a)
    PROVE  LET b == CreatePlan(a, goal, size, start, created)
           IN  FreezesAccounted(b) /\ Judges(a, b, {})
  <1> DEFINE b == CreatePlan(a, goal, size, start, created)
  <1>1. b.days = a.days /\ Purse(b) = Purse(a) /\ b.ledger = a.ledger
    BY DEF CreatePlan, AccountType, Purse
  <1> HIDE DEF b
  <1> QED
    BY <1>1, SameDays DEF b

LEMMA AbandonEffects ==
    ASSUME NEW a \in AccountType, FreezesAccounted(a)
    PROVE  LET b == Abandon(a) IN FreezesAccounted(b) /\ Judges(a, b, {})
  <1> DEFINE b == Abandon(a)
  <1>1. b.days = a.days /\ Purse(b) = Purse(a) /\ b.ledger = a.ledger
    BY DEF Abandon, AccountType, Purse
  <1> HIDE DEF b
  <1> QED
    BY <1>1, SameDays DEF b

\* A switch of tractate is all of these.
LEMMA SwitchTractateEffects ==
    ASSUME NEW a \in AccountType, NEW goal \in Nat \ {0},
           NEW size \in Nat \ {0}, NEW ordinal \in Nat,
           NEW utcDate \in Dates, NEW created \in Dates, Sound(a),
           FreezesAccounted(a)
    PROVE  LET b == SwitchTractate(a, goal, size, ordinal, utcDate, created)
           IN  FreezesAccounted(b) /\ Judges(a, b, {})
  <1> DEFINE left == Abandon(a)
             fresh == CreatePlan(left, goal, size, utcDate, created)
             placed == SetPosition(fresh, ordinal)
             b == ChangeGoal(placed, goal, utcDate)
  <1>1. /\ left \in AccountType /\ Sound(left)
        /\ FreezesAccounted(left) /\ Judges(a, left, {})
    BY AbandonSound, AbandonEffects
  <1> HIDE DEF left
  <1>2. /\ fresh \in AccountType /\ Sound(fresh) /\ HasPlan(fresh)
        /\ FreezesAccounted(fresh) /\ Judges(left, fresh, {})
    BY <1>1, CreatePlanSound, CreatePlanEffects
  <1> HIDE DEF fresh
  <1>3. /\ placed \in AccountType /\ Sound(placed) /\ HasPlan(placed)
        /\ FreezesAccounted(placed) /\ Judges(fresh, placed, {})
    BY <1>2, SetPositionSound, SetPositionEffects
  <1> HIDE DEF placed
  <1>4. FreezesAccounted(b) /\ Judges(placed, b, {})
    BY <1>3, ChangeGoalEffects
  <1> HIDE DEF b
  <1>5. {} \cup {} = {}
    OBVIOUS
  <1>6. Judges(a, fresh, {})
    BY <1>1, <1>2, <1>5, JudgesBoth
  <1>7. Judges(a, placed, {})
    BY <1>3, <1>5, <1>6, JudgesBoth
  <1>8. Judges(a, b, {})
    BY <1>4, <1>5, <1>7, JudgesBoth
  <1> QED
    BY <1>4, <1>8 DEF SwitchTractate, left, fresh, placed, b

\* A purchase is one freeze more and one transaction more, or a replay.
LEMMA PurchaseEffects ==
    ASSUME NEW a \in AccountType, NEW key \in RequestKeys, CanPurchase(a),
           FreezesAccounted(a)
    PROVE  LET b == Purchase(a, key)
           IN  FreezesAccounted(b) /\ Judges(a, b, {})
  <1> DEFINE k == PurchaseKey(a, key)
             cost == -FreezeCost
             charged == PostTransaction(a, k, cost)
             b == Purchase(a, key)
  <1>1. k \in TxnTypes \X Nat /\ k[1] \in PurchaseTypes
    <2>1. a.ledger \in Seq(PointTransaction)
      BY DEF AccountType
    <2>2. Len(a.ledger) \in Nat
      BY <2>1, LenProperties
    <2>3. key # NoKey => key \in Nat
      BY DEF RequestKeys
    <2> QED
      BY <2>2, <2>3 DEF PurchaseKey, TxnTypes, PurchaseTypes
  <1>2. cost \in Int /\ a.total_points + cost >= 0
    BY FreezeCostAssumption DEF CanPurchase, AccountType
  <1> HIDE DEF k, cost
  <1>3. CASE ~Posts(a, k, cost)
    BY <1>3 DEF Purchase, k, cost, Judges
  <1>4. CASE Posts(a, k, cost)
    <2>1. charged \in AccountType
      BY <1>1, <1>2, PostTransactionType
    <2>2. /\ charged.days = a.days /\ Purse(charged) = Purse(a)
          /\ charged.quantity = a.quantity
      BY DEF PostTransaction, Purse, AccountType
    <2>3. /\ Purchases(charged) = Purchases(a) \cup {Len(a.ledger) + 1}
          /\ Len(a.ledger) + 1 \notin Purchases(a)
      BY <1>1, <1>2, <1>4, PostingPurchases
    <2>4. Cardinality(Purchases(charged)) = Cardinality(Purchases(a)) + 1
      BY <2>3, PurchasesFinite, FS_AddElement
    <2> HIDE DEF charged
    <2>5. b = [charged EXCEPT !.quantity = @ + 1]
      BY <1>4 DEF Purchase, k, cost, charged
    <2> HIDE DEF b
    <2>6. /\ b.days = a.days /\ b.quantity = a.quantity + 1
          /\ b.freezes_consumed = a.freezes_consumed
          /\ b.usages = a.usages /\ b.ledger = charged.ledger
      BY <2>1, <2>2, <2>5 DEF AccountType, Purse
    <2>7. Cardinality(Purchases(b)) = Cardinality(Purchases(a)) + 1
      BY <2>4, <2>6 DEF Purchases
    <2>8. /\ a.quantity \in Nat /\ a.freezes_consumed \in Nat
          /\ MaxOwned \in Nat /\ a.quantity < MaxOwned
          /\ a.quantity + a.freezes_consumed = Cardinality(Purchases(a))
      BY MaxOwnedAssumption DEF AccountType, CanPurchase, FreezesAccounted
    <2>9. /\ b.quantity + b.freezes_consumed = Cardinality(Purchases(b))
          /\ b.quantity <= MaxOwned
      BY <2>6, <2>7, <2>8
    <2>10. FreezesAccounted(b)
      BY <2>6, <2>9 DEF FreezesAccounted
    <2>11. Judges(a, b, {})
      BY <2>6 DEF Judges, Resolved
    <2> QED
      BY <2>10, <2>11 DEF b
  <1> QED
    BY <1>3, <1>4

\* A learner who has just signed in has no freeze, and nothing is judged.
LEMMA NewAccountEffects ==
    ASSUME NEW week \in StudyWeeks, NEW zone \in ZoneKinds
    PROVE  LET b == NewAccount(week, zone)
           IN  FreezesAccounted(b) /\ Judges(b, b, {})
  <1> DEFINE b == NewAccount(week, zone)
  <1>1. Purchases(b) = {} /\ FrozenDays(b) = {}
    BY DEF NewAccount, Purchases, FrozenDays, NoDay
  <1>2. Cardinality({}) = 0
    BY FS_EmptySet
  <1>3. b.quantity = 0 /\ b.freezes_consumed = 0 /\ b.usages = {}
    BY DEF NewAccount
  <1> HIDE DEF b
  <1>4. FreezesAccounted(b)
    BY <1>1, <1>2, <1>3, MaxOwnedAssumption DEF FreezesAccounted, FrozenDays
  <1> QED
    BY <1>4 DEF Judges, b

-----------------------------------------------------------------------------
HeldStatuses == {"rest_day", "exempt", "completed"}

\* From a, a request of date `at` may have come to b: it has changed no verdict,
\* has judged no day from `at` on but completed that one, and has held the rest
\* days that had no row.
Allowed(a, b, at) ==
    /\ Judges(a, b, Dates)
    /\ \A d \in Dates :
          ~Resolved(a, d) /\ Resolved(b, d) /\ d >= at =>
              d = at /\ b.days[d].status = "completed"
    /\ \A d \in Dates :
          ~HasDay(a, d) /\ Resolved(b, d) /\ b.days[d].day_kind = "rest_day" =>
              b.days[d].status \in HeldStatuses

\* To judge nothing is allowed.
LEMMA AllowedNothing ==
    ASSUME NEW a, NEW b, NEW at \in Dates, Judges(a, b, {})
    PROVE  Allowed(a, b, at)
  <1>1. \A d \in Dates : Resolved(b, d) => Resolved(a, d) /\ HasDay(a, d)
    BY DEF Judges, Resolved, HasDay, TerminalStatuses, NeutralStatuses
  <1>2. Judges(a, b, Dates)
    BY DEF Judges
  <1> QED
    BY <1>1, <1>2 DEF Allowed

\* So is one more iteration of the settlement, on a day the request has not
\* touched.
LEMMA AllowedSettle ==
    ASSUME NEW a, NEW b, NEW c, NEW at \in Dates, NEW d \in Dates,
           Allowed(a, b, at), d < at, b.days[d] = a.days[d],
           \A e \in Dates \ {d} : c.days[e] = b.days[e],
           Resolved(b, d) => c.days[d] = b.days[d],
           ~HasDay(b, d) /\ c.days[d].day_kind = "rest_day" =>
              c.days[d].status \in HeldStatuses
    PROVE  Allowed(a, c, at)
  <1>1. Judges(a, c, Dates)
    <2> SUFFICES ASSUME NEW e \in Dates, Resolved(a, e)
                 PROVE  Verdict(c.days[e]) = Verdict(a.days[e])
      BY DEF Judges
    <2>1. Verdict(b.days[e]) = Verdict(a.days[e])
      BY DEF Allowed, Judges
    <2>2. e = d => Resolved(b, d)
      BY DEF Resolved
    <2>3. c.days[e] = b.days[e]
      BY <2>2
    <2> QED
      BY <2>1, <2>3
  <1>2. ASSUME NEW e \in Dates, ~Resolved(a, e), Resolved(c, e), e >= at
        PROVE  e = at /\ c.days[e].status = "completed"
    <2>1. e # d
      BY <1>2 DEF Dates
    <2>2. c.days[e] = b.days[e]
      BY <2>1
    <2> QED
      BY <1>2, <2>2 DEF Allowed, Resolved
  <1>3. ASSUME NEW e \in Dates, ~HasDay(a, e), Resolved(c, e),
               c.days[e].day_kind = "rest_day"
        PROVE  c.days[e].status \in HeldStatuses
    <2>1. CASE e = d
      BY <1>3, <2>1 DEF HasDay
    <2>2. CASE e # d
      <3>1. c.days[e] = b.days[e]
        BY <2>2
      <3> QED
        BY <1>3, <3>1 DEF Allowed, Resolved
    <2> QED
      BY <2>1, <2>2
  <1> QED
    BY <1>1, <1>2, <1>3 DEF Allowed

\* And completing the day of the request.
LEMMA AllowedLog ==
    ASSUME NEW a, NEW b, NEW c, NEW at \in Dates,
           Allowed(a, b, at), Judges(b, c, {at}),
           ~Resolved(b, at) /\ Resolved(c, at) =>
              c.days[at].status = "completed"
    PROVE  Allowed(a, c, at)
  <1>1. ASSUME NEW e \in Dates, Resolved(b, e)
        PROVE  /\ Verdict(c.days[e]) = Verdict(b.days[e])
               /\ c.days[e].status = b.days[e].status
               /\ c.days[e].day_kind = b.days[e].day_kind
    BY <1>1 DEF Judges, Verdict
  <1>2. ASSUME NEW e \in Dates, Resolved(c, e), ~Resolved(b, e)
        PROVE  e = at /\ c.days[e].status = "completed"
    BY <1>2 DEF Judges
  <1>3. Judges(a, c, Dates)
    <2> SUFFICES ASSUME NEW e \in Dates, Resolved(a, e)
                 PROVE  Verdict(c.days[e]) = Verdict(a.days[e])
      BY DEF Judges
    <2>1. Verdict(b.days[e]) = Verdict(a.days[e])
      BY DEF Allowed, Judges
    <2>2. Resolved(b, e)
      BY <2>1 DEF Resolved, Verdict
    <2> QED
      BY <1>1, <2>1, <2>2
  <1>4. ASSUME NEW e \in Dates, ~Resolved(a, e), Resolved(c, e), e >= at
        PROVE  e = at /\ c.days[e].status = "completed"
    BY <1>1, <1>2, <1>4 DEF Allowed
  <1>5. ASSUME NEW e \in Dates, ~HasDay(a, e), Resolved(c, e),
               c.days[e].day_kind = "rest_day"
        PROVE  c.days[e].status \in HeldStatuses
    BY <1>1, <1>2, <1>5 DEF Allowed, HeldStatuses
  <1> QED
    BY <1>3, <1>4, <1>5 DEF Allowed

\* The recursive function that MapThenSumSet evaluates, from the least subset
\* up.
Summing(weight, S, sum) ==
    sum = [s \in SUBSET S |->
              IF s = {} THEN 0
              ELSE LET x == CHOOSE y \in s : TRUE
                   IN  weight[x] + sum[s \ {x}]]

First(s) == CHOOSE y \in s : TRUE

\* What the members of S weigh together.
SumOf(weight, S) == (CHOOSE sum : Summing(weight, S, sum))[S]

\* Of some finite sets, one has the fewest members.
LEMMA SmallestSet ==
    ASSUME NEW F, F # {}, \A T \in F : IsFiniteSet(T)
    PROVE  \E T \in F : \A U \in F : ~(Cardinality(U) < Cardinality(T))
  <1> DEFINE sizes == {Cardinality(T) : T \in F}
  <1>1. sizes \in SUBSET Nat /\ sizes # {}
    BY FS_CardinalityType
  <1>2. PICK n \in sizes : \A m \in sizes : n <= m
    BY <1>1, LeastNatural
  <1>3. PICK T \in F : Cardinality(T) = n
    BY <1>2
  <1>4. \A U \in F : Cardinality(U) \in Nat /\ n <= Cardinality(U)
    BY <1>1, <1>2
  <1> QED
    BY <1>3, <1>4

\* One member less is a smaller finite set.
LEMMA OneLess ==
    ASSUME NEW S, IsFiniteSet(S), S # {}
    PROVE  /\ First(S) \in S
           /\ IsFiniteSet(S \ {First(S)})
           /\ Cardinality(S \ {First(S)}) < Cardinality(S)
  <1>1. First(S) \in S
    BY DEF First
  <1>2. Cardinality(S) \in Nat
    BY FS_CardinalityType
  <1> QED
    BY <1>1, <1>2, FS_RemoveElement

\* The recursion has one solution on each finite set.
LEMMA SumUnique ==
    ASSUME NEW weight, NEW S, NEW T, NEW f, NEW g, NEW U, IsFiniteSet(U),
           U \subseteq S, U \subseteq T,
           Summing(weight, S, f), Summing(weight, T, g)
    PROVE  f[U] = g[U]
  <1> DEFINE F == {s \in SUBSET U : f[s] # g[s]}
  <1>1. SUFFICES F = {}
    BY <1>1
  <1>2. SUFFICES ASSUME F # {} PROVE FALSE
    OBVIOUS
  <1>3. \A s \in F : IsFiniteSet(s)
    BY FS_Subset
  <1> HIDE DEF F
  <1>4. PICK s \in F : \A r \in F : ~(Cardinality(r) < Cardinality(s))
    BY <1>2, <1>3, SmallestSet
  <1>5. s \in SUBSET U /\ s \in SUBSET S /\ s \in SUBSET T /\ f[s] # g[s]
    BY <1>4 DEF F
  <1>6. CASE s = {}
    BY <1>5, <1>6 DEF Summing
  <1>7. CASE s # {}
    <2> DEFINE r == s \ {First(s)}
    <2>1. Cardinality(r) < Cardinality(s)
      BY <1>3, <1>4, <1>7, OneLess
    <2>2. f[r] = g[r]
      BY <1>4, <1>5, <2>1 DEF F
    <2>3. f[s] = weight[First(s)] + f[r]
      BY <1>5, <1>7 DEF Summing, First
    <2>4. g[s] = weight[First(s)] + g[r]
      BY <1>5, <1>7 DEF Summing, First
    <2> QED
      BY <1>5, <2>2, <2>3, <2>4
  <1> QED
    BY <1>6, <1>7

\* It has one: the totals of the subsets solve it.
LEMMA SumExists ==
    ASSUME NEW weight, NEW S, IsFiniteSet(S)
    PROVE  \E sum : Summing(weight, S, sum)
  <1> DEFINE Solved(T) == \E sum : Summing(weight, T, sum)
             F == {T \in SUBSET S : ~Solved(T)}
  <1>1. SUFFICES ASSUME F # {} PROVE FALSE
    OBVIOUS
  <1>2. \A T \in F : IsFiniteSet(T)
    BY FS_Subset
  <1>3. PICK T \in F : \A U \in F : ~(Cardinality(U) < Cardinality(T))
    <2> HIDE DEF F
    <2> QED
      BY <1>1, <1>2, SmallestSet
  <1>4. T \in SUBSET S /\ ~Solved(T) /\ IsFiniteSet(T)
    BY <1>2, <1>3
  <1>5. \A U \in SUBSET T : U # T => Solved(U)
    <2> SUFFICES ASSUME NEW U \in SUBSET T, U # T PROVE Solved(U)
      OBVIOUS
    <2>1. Cardinality(U) < Cardinality(T)
      BY <1>4, FS_Subset, FS_CardinalityType
    <2> QED
      BY <1>3, <1>4, <2>1
  <1>6. \A U \in SUBSET T : U # T =>
           Summing(weight, U, CHOOSE sum : Summing(weight, U, sum))
    BY <1>5
  <1> DEFINE sum == [s \in SUBSET T |->
                       IF s = {} THEN 0
                       ELSE weight[First(s)]
                            + SumOf(weight, s \ {First(s)})]
  <1> HIDE DEF Solved, F
  <1>7. ASSUME NEW s \in SUBSET T, s # {}
        PROVE  sum[s \ {First(s)}] = SumOf(weight, s \ {First(s)})
    <2> DEFINE r == s \ {First(s)}
               h == CHOOSE f : Summing(weight, r, f)
    <2>1. First(s) \in s
      BY <1>7 DEF First
    <2>2. r \in SUBSET T /\ r # T
      BY <2>1
    <2>3. Summing(weight, r, h) /\ SumOf(weight, r) = h[r]
      BY <1>6, <2>2 DEF SumOf
    <2>4. CASE r = {}
      <3>1. h[r] = 0
        BY <2>3, <2>4 DEF Summing
      <3> QED
        BY <2>2, <2>3, <2>4, <3>1
    <2>5. CASE r # {}
      <3> DEFINE q == r \ {First(r)}
                 k == CHOOSE f : Summing(weight, q, f)
      <3>1. First(r) \in r
        BY <2>5 DEF First
      <3>2. q \in SUBSET T /\ q # T /\ q \in SUBSET r
        BY <2>2, <3>1
      <3>3. Summing(weight, q, k) /\ SumOf(weight, q) = k[q]
        BY <1>6, <3>2 DEF SumOf
      <3>4. IsFiniteSet(q)
        BY <1>4, <3>2, FS_Subset
      <3> HIDE DEF h, k
      <3>5. h[q] = k[q]
        BY <2>3, <3>2, <3>3, <3>4, SumUnique
      <3>6. h[r] = weight[First(r)] + h[q]
        BY <2>3, <2>5 DEF Summing, First
      <3>7. sum[r] = weight[First(r)] + SumOf(weight, q)
        BY <2>2, <2>5
      <3> QED
        BY <2>3, <3>3, <3>5, <3>6, <3>7
    <2> QED
      BY <2>4, <2>5
  <1>8. Summing(weight, T, sum)
    <2>1. \A s \in SUBSET T :
             sum[s] = IF s = {} THEN 0
                      ELSE weight[First(s)] + sum[s \ {First(s)}]
      BY <1>7
    <2>2. sum = [s \in SUBSET T |-> sum[s]]
      OBVIOUS
    <2> HIDE DEF sum
    <2>3. sum = [s \in SUBSET T |->
                   IF s = {} THEN 0
                   ELSE weight[First(s)] + sum[s \ {First(s)}]]
      BY <2>1, <2>2
    <2> QED
      BY <2>3 DEF Summing, First
  <1> QED
    BY <1>4, <1>8 DEF Solved

\* So a total is what its first line is worth and the total of the rest.
LEMMA SumUnfolds ==
    ASSUME NEW weight, NEW S, IsFiniteSet(S)
    PROVE  SumOf(weight, S) =
              IF S = {} THEN 0
              ELSE weight[First(S)]
                   + SumOf(weight, S \ {First(S)})
  <1> DEFINE f == CHOOSE sum : Summing(weight, S, sum)
  <1>1. Summing(weight, S, f) /\ SumOf(weight, S) = f[S]
    BY SumExists DEF SumOf
  <1> HIDE DEF f
  <1>2. CASE S = {}
    BY <1>1, <1>2 DEF Summing
  <1>3. CASE S # {}
    <2> DEFINE r == S \ {First(S)}
               g == CHOOSE sum : Summing(weight, r, sum)
    <2>1. IsFiniteSet(r)
      BY <1>3, OneLess
    <2>2. Summing(weight, r, g) /\ SumOf(weight, r) = g[r]
      BY <2>1, SumExists DEF SumOf
    <2> HIDE DEF g
    <2>3. f[r] = g[r]
      <3>1. r \subseteq S /\ r \subseteq r
        OBVIOUS
      <3> HIDE DEF r
      <3> QED
        BY <1>1, <2>1, <2>2, <3>1, SumUnique
    <2>4. f[S] = weight[First(S)] + f[r]
      BY <1>1, <1>3 DEF Summing, First
    <2> QED
      BY <1>1, <1>3, <2>2, <2>3, <2>4
  <1> QED
    BY <1>2, <1>3

\* The total of weight that are worth integers is an integer.
LEMMA SumInteger ==
    ASSUME NEW weight, NEW S, IsFiniteSet(S),
           \A d \in S : weight[d] \in Int
    PROVE  SumOf(weight, S) \in Int
  <1> DEFINE F == {T \in SUBSET S : SumOf(weight, T) \notin Int}
  <1>1. SUFFICES ASSUME F # {} PROVE FALSE
    OBVIOUS
  <1>2. \A T \in F : IsFiniteSet(T)
    BY FS_Subset
  <1> HIDE DEF F
  <1>3. PICK T \in F : \A U \in F : ~(Cardinality(U) < Cardinality(T))
    BY <1>1, <1>2, SmallestSet
  <1>4. T \in SUBSET S /\ SumOf(weight, T) \notin Int /\ IsFiniteSet(T)
    BY <1>2, <1>3 DEF F
  <1>5. T # {}
    <2>1. T = {} => SumOf(weight, T) = 0
      BY <1>4, SumUnfolds
    <2> QED
      BY <1>4, <2>1
  <1>6. /\ First(T) \in T
        /\ Cardinality(T \ {First(T)}) < Cardinality(T)
    BY <1>4, <1>5, OneLess
  <1>7. SumOf(weight, T \ {First(T)}) \in Int
    BY <1>3, <1>4, <1>6 DEF F
  <1> QED
    BY <1>4, <1>5, <1>6, <1>7, SumUnfolds

\* Whatever else solves the recursion on S has the sum for its last value.
LEMMA SumIs ==
    ASSUME NEW weight, NEW S, IsFiniteSet(S), NEW sum, Summing(weight, S, sum)
    PROVE  sum[S] = SumOf(weight, S)
  <1> DEFINE f == CHOOSE g : Summing(weight, S, g)
  <1>1. Summing(weight, S, f) /\ SumOf(weight, S) = f[S]
    BY SumExists DEF SumOf
  <1> HIDE DEF f
  <1> QED
    BY <1>1, SumUnique

\* One member more adds what it weighs, wherever it comes in the sum.
LEMMA SumAdds ==
    ASSUME NEW weight, NEW S, IsFiniteSet(S), NEW d, d \notin S,
           \A e \in S \cup {d} : weight[e] \in Int
    PROVE  SumOf(weight, S \cup {d})
              = weight[d] + SumOf(weight, S)
  <1> DEFINE Adds(T) == \A e \in (S \cup {d}) \ T :
                           SumOf(weight, T \cup {e})
                              = weight[e] + SumOf(weight, T)
             F == {T \in SUBSET S : ~Adds(T)}
  <1>1. SUFFICES ASSUME F # {} PROVE FALSE
    BY DEF Adds
  <1>2. \A T \in F : IsFiniteSet(T)
    BY FS_Subset
  <1> HIDE DEF F
  <1>3. PICK T \in F : \A U \in F : ~(Cardinality(U) < Cardinality(T))
    BY <1>1, <1>2, SmallestSet
  <1>4. T \in SUBSET S /\ ~Adds(T) /\ IsFiniteSet(T)
    BY <1>2, <1>3 DEF F
  <1>5. PICK e \in (S \cup {d}) \ T :
           SumOf(weight, T \cup {e})
              # weight[e] + SumOf(weight, T)
    BY <1>4 DEF Adds
  <1> HIDE DEF Adds
  <1> DEFINE V == T \cup {e}
             x == First(V)
  <1>6. IsFiniteSet(V) /\ V # {} /\ x \in V
    BY <1>4, FS_AddElement, OneLess
  <1>7. SumOf(weight, V) = weight[x] + SumOf(weight, V \ {x})
    BY <1>6, SumUnfolds
  <1>8. CASE x = e
    <2>1. V \ {x} = T
      BY <1>5, <1>8
    <2> QED
      BY <1>5, <1>7, <1>8, <2>1
  <1>9. CASE x # e
    <2> DEFINE r == T \ {x}
    <2> HIDE DEF x
    <2>1. x \in T /\ V \ {x} = r \cup {e}
      BY <1>5, <1>6, <1>9
    <2>2. IsFiniteSet(r) /\ Cardinality(r) < Cardinality(T)
      <3>1. IsFiniteSet(r) /\ Cardinality(r) = Cardinality(T) - 1
        BY <1>4, <2>1, FS_RemoveElement
      <3>2. Cardinality(T) \in Nat
        BY <1>4, FS_CardinalityType
      <3> QED
        BY <3>1, <3>2
    <2>3. Adds(r)
      BY <1>3, <1>4, <2>2 DEF F
    <2>4. SumOf(weight, r \cup {e})
             = weight[e] + SumOf(weight, r)
      BY <1>5, <2>3 DEF Adds
    <2>5. SumOf(weight, r \cup {x})
             = weight[x] + SumOf(weight, r)
      BY <1>4, <2>1, <2>3 DEF Adds
    <2>6. r \cup {x} = T
      BY <2>1
    <2>7. SumOf(weight, r) \in Int
      BY <1>4, <2>2, SumInteger
    <2>8. weight[x] \in Int /\ weight[e] \in Int
      BY <1>4, <1>5, <2>1
    <2> HIDE DEF V, r
    <2>9. SumOf(weight, V)
             = weight[x] + (weight[e] + SumOf(weight, r))
      BY <1>7, <2>1, <2>4
    <2>10. SumOf(weight, T) = weight[x] + SumOf(weight, r)
      BY <2>5, <2>6
    <2>11. SumOf(weight, V) = weight[e] + SumOf(weight, T)
      BY <2>7, <2>8, <2>9, <2>10
    <2> QED
      BY <1>5, <2>11 DEF V
  <1> QED
    BY <1>8, <1>9

\* Lines that are worth the same have the same total.
LEMMA SumSame ==
    ASSUME NEW weight, NEW other, NEW S, IsFiniteSet(S),
           \A d \in S : weight[d] = other[d]
    PROVE  SumOf(weight, S) = SumOf(other, S)
  <1> DEFINE F == {T \in SUBSET S :
                      SumOf(weight, T) # SumOf(other, T)}
  <1>1. SUFFICES ASSUME F # {} PROVE FALSE
    OBVIOUS
  <1>2. \A T \in F : IsFiniteSet(T)
    BY FS_Subset
  <1> HIDE DEF F
  <1>3. PICK T \in F : \A U \in F : ~(Cardinality(U) < Cardinality(T))
    BY <1>1, <1>2, SmallestSet
  <1>4. /\ T \in SUBSET S /\ IsFiniteSet(T)
        /\ SumOf(weight, T) # SumOf(other, T)
    BY <1>2, <1>3 DEF F
  <1>5. T # {}
    BY <1>4, SumUnfolds
  <1>6. /\ First(T) \in T
        /\ Cardinality(T \ {First(T)}) < Cardinality(T)
    BY <1>4, <1>5, OneLess
  <1>7. SumOf(weight, T \ {First(T)})
           = SumOf(other, T \ {First(T)})
    BY <1>3, <1>4, <1>6 DEF F
  <1>8. weight[First(T)] = other[First(T)]
    BY <1>4, <1>6
  <1> QED
    BY <1>4, <1>5, <1>7, <1>8, SumUnfolds

-----------------------------------------------------------------------------
\* From a to b the day d, which was open, is judged, paid or fined for, and
\* frozen at the price of a freeze.
PaysFor(a, b, d) ==
    /\ ~Resolved(a, d)
    /\ Resolved(b, d)
    /\ Judges(a, b, {d})
    /\ b.total_points = a.total_points + b.days[d].points_awarded
    /\ b.quantity = a.quantity
                    - (IF b.days[d].status = "frozen_item" THEN 1 ELSE 0)

\* From a to b nothing is judged and nothing moves.
PaysNothing(a, b) ==
    /\ Judges(a, b, {})
    /\ b.total_points = a.total_points
    /\ b.quantity = a.quantity

LEMMA NothingThenPays ==
    ASSUME NEW a, NEW b, NEW c, NEW d \in Dates,
           PaysNothing(a, b), PaysFor(b, c, d)
    PROVE  PaysFor(a, c, d)
  <1>1. Judges(a, c, {} \cup {d})
    BY JudgesBoth DEF PaysNothing, PaysFor
  <1>2. {} \cup {d} = {d}
    OBVIOUS
  <1>3. Judges(a, c, {d})
    BY <1>1, <1>2
  <1>4. ~Resolved(a, d)
    BY DEF PaysNothing, PaysFor, Judges, Resolved, Verdict
  <1> QED
    BY <1>3, <1>4 DEF PaysNothing, PaysFor

LEMMA PaysThenNothing ==
    ASSUME NEW a, NEW b, NEW c, NEW d \in Dates,
           PaysFor(a, b, d), PaysNothing(b, c)
    PROVE  PaysFor(a, c, d)
  <1>1. Judges(a, c, {d} \cup {})
    BY JudgesBoth DEF PaysNothing, PaysFor
  <1>2. {d} \cup {} = {d}
    OBVIOUS
  <1>3. Judges(a, c, {d})
    BY <1>1, <1>2
  <1>4. /\ c.days[d].status = b.days[d].status
        /\ c.days[d].points_awarded = b.days[d].points_awarded
    BY DEF PaysNothing, PaysFor, Judges, Verdict
  <1>5. Resolved(c, d)
    BY <1>4 DEF PaysFor, Resolved
  <1> QED
    BY <1>3, <1>4, <1>5 DEF PaysNothing, PaysFor

LEMMA NothingTwice ==
    ASSUME NEW a, NEW b, NEW c, PaysNothing(a, b), PaysNothing(b, c)
    PROVE  PaysNothing(a, c)
  <1>1. Judges(a, c, {} \cup {})
    BY JudgesBoth DEF PaysNothing
  <1>2. {} \cup {} = {}
    OBVIOUS
  <1> QED
    BY <1>1, <1>2 DEF PaysNothing

\* An operation that leaves the days, the balance and the inventory alone.
LEMMA SameBooks ==
    ASSUME NEW a, NEW b, b.days = a.days, b.total_points = a.total_points,
           b.quantity = a.quantity
    PROVE  PaysNothing(a, b)
  BY DEF PaysNothing, Judges, Resolved

\* Writing a verdict pays for it when the account has been moved by as much.
LEMMA ResolvePays ==
    ASSUME NEW a \in AccountType, NEW c \in AccountType, NEW d \in Dates,
           NEW status \in TerminalStatuses, NEW points \in Int,
           ~Resolved(a, d), c.days = a.days,
           c.total_points = a.total_points + points,
           c.quantity = a.quantity
                        - (IF status = "frozen_item" THEN 1 ELSE 0)
    PROVE  PaysFor(a, Resolve(c, d, status, points), d)
  <1> DEFINE row == [c.days[d] EXCEPT !.status = status,
                                      !.points_awarded = points,
                                      !.streak_after = c.current_streak]
             b == Resolve(c, d, status, points)
  <1>1. c.days \in [Dates -> StudyDay] /\ c.days[d] \in StudyDay
    BY DEF AccountType
  <1>2. row.status = status /\ row.points_awarded = points
    BY <1>1 DEF StudyDay
  <1>3. b = [c EXCEPT !.days = [c.days EXCEPT ![d] = row]]
    BY DEF Resolve
  <1> HIDE DEF row, b
  <1>4. /\ b.days = [c.days EXCEPT ![d] = row]
        /\ b.total_points = c.total_points /\ b.quantity = c.quantity
    BY <1>3 DEF AccountType
  <1>5. /\ b.days[d].status = status /\ b.days[d].points_awarded = points
        /\ \A e \in Dates \ {d} : b.days[e] = a.days[e]
    BY <1>1, <1>2, <1>4
  <1>6. Judges(a, b, {d}) /\ Resolved(b, d)
    BY <1>5 DEF Judges, Resolved
  <1> QED
    BY <1>4, <1>5, <1>6 DEF PaysFor, b

\* The award of a completed day is posted: the ledger has none for an open day.
LEMMA CreditDayPays ==
    ASSUME NEW a \in AccountType, NEW d \in Dates, Sound(a), ~Resolved(a, d)
    PROVE  PaysFor(a, CreditDay(a, d), d)
  <1> DEFINE streak == a.current_streak + 1
             points == PointsForCompletion(streak)
             key == DailyKey(d)
             paid == PostTransaction(a, key, points)
             moved == [paid EXCEPT !.current_streak = streak,
                                   !.longest_streak = IF @ < streak
                                                      THEN streak ELSE @]
  <1>1. /\ streak \in Nat /\ a.total_points \in Nat /\ points \in Nat
        /\ points # 0 /\ points \in Int /\ a.total_points + points >= 0
    <2>1. streak \in Nat /\ a.total_points \in Nat
      BY DEF AccountType
    <2>2. points \in Nat \ {0}
      BY <2>1, PointsPositive
    <2> QED
      BY <2>1, <2>2
  <1>2. key \in TxnTypes \X Nat
    BY DEF DailyKey, TxnTypes, Dates
  <1>3. Posts(a, key, points)
    <2>1. a.days[d].status # "completed"
      BY DEF Resolved, TerminalStatuses
    <2>2. ~HasTransaction(a, key)
      BY <2>1 DEF Sound, VerdictsPaidOnce
    <2> QED
      BY <1>1, <2>2 DEF Posts
  <1>4. CreditDay(a, d) = Resolve(moved, d, "completed", points)
    BY <1>3 DEF CreditDay
  <1> HIDE DEF points, key, streak
  <1>5. paid \in AccountType
    BY <1>1, <1>2, PostTransactionType
  <1>6. /\ paid.days = a.days /\ paid.quantity = a.quantity
        /\ paid.total_points = a.total_points + points
    BY <1>3 DEF PostTransaction, AccountType
  <1> HIDE DEF paid
  <1>7. /\ moved \in AccountType /\ moved.days = a.days
        /\ moved.quantity = a.quantity
        /\ moved.total_points = a.total_points + points
    BY <1>1, <1>5, <1>6 DEF AccountType
  <1> HIDE DEF moved
  <1>8. "completed" \in TerminalStatuses /\ a.quantity \in Nat
    BY DEF TerminalStatuses, AccountType
  <1>9. moved.quantity
           = a.quantity - (IF "completed" = "frozen_item" THEN 1 ELSE 0)
    BY <1>7, <1>8
  <1> QED
    BY <1>1, <1>4, <1>7, <1>8, <1>9, ResolvePays

\* The fine of a missed day is posted, or there was nothing to fine.
LEMMA MissDayPays ==
    ASSUME NEW a \in AccountType, NEW d \in Dates, Sound(a), ~Resolved(a, d)
    PROVE  PaysFor(a, MissDay(a, d), d)
  <1> DEFINE penalty == PenaltyForMiss(a.total_points)
             fine == -penalty
             key == PenaltyKey(d)
             fined == PostTransaction(a, key, fine)
             moved == [fined EXCEPT !.current_streak = 0]
  <1>1. /\ fine \in Int /\ a.total_points + fine >= 0
        /\ a.total_points \in Nat
    <2>1. a.total_points \in Nat
      BY DEF AccountType
    <2>2. penalty \in Nat /\ penalty <= a.total_points
      BY <2>1, PenaltyPayable
    <2> QED
      BY <2>1, <2>2
  <1>2. key \in TxnTypes \X Nat
    BY DEF PenaltyKey, TxnTypes, Dates
  <1>3. ~HasTransaction(a, key)
    <2>1. a.days[d].status # "missed"
      BY DEF Resolved, TerminalStatuses
    <2> QED
      BY <2>1 DEF Sound, VerdictsPaidOnce
  <1>4. MissDay(a, d) = Resolve(moved, d, "missed", fine)
    BY DEF MissDay
  <1> HIDE DEF fine, key
  <1>5. fined \in AccountType
    BY <1>1, <1>2, PostTransactionType
  <1>6. /\ fined.days = a.days /\ fined.quantity = a.quantity
        /\ fined.total_points = a.total_points + fine
    <2>1. CASE fine = 0
      <3>1. fined = a
        BY <2>1 DEF PostTransaction, Posts
      <3> QED
        BY <1>1, <2>1, <3>1
    <2>2. CASE fine # 0
      BY <1>3, <2>2 DEF PostTransaction, Posts, AccountType
    <2> QED
      BY <2>1, <2>2
  <1> HIDE DEF fined
  <1>7. /\ moved \in AccountType /\ moved.days = a.days
        /\ moved.quantity = a.quantity
        /\ moved.total_points = a.total_points + fine
    BY <1>5, <1>6 DEF AccountType
  <1> HIDE DEF moved
  <1>8. "missed" \in TerminalStatuses /\ a.quantity \in Nat
    BY DEF TerminalStatuses, AccountType
  <1>9. moved.quantity
           = a.quantity - (IF "missed" = "frozen_item" THEN 1 ELSE 0)
    BY <1>7, <1>8
  <1> QED
    BY <1>1, <1>4, <1>7, <1>8, <1>9, ResolvePays

LEMMA FreezeDayPays ==
    ASSUME NEW a \in AccountType, NEW d \in Dates, Sound(a), ~Resolved(a, d)
    PROVE  PaysFor(a, FreezeDay(a, d), d)
  <1> DEFINE used == [a EXCEPT !.quantity = @ - 1,
                               !.freezes_consumed = @ + 1,
                               !.usages = @ \cup {d}]
  <1>1. CASE a.quantity <= 0
    BY <1>1, MissDayPays DEF FreezeDay
  <1>2. CASE ~(a.quantity <= 0)
    <2>1. /\ a.quantity - 1 \in Nat /\ a.freezes_consumed + 1 \in Nat
          /\ a.usages \cup {d} \in SUBSET Dates
      BY <1>2 DEF AccountType
    <2>2. /\ used \in AccountType /\ used.days = a.days
          /\ used.quantity = a.quantity - 1
          /\ used.total_points = a.total_points + 0
      <3>1. a.total_points = a.total_points + 0
        BY DEF AccountType
      <3>2. used.total_points = a.total_points
        BY DEF AccountType
      <3> QED
        BY <2>1, <3>1, <3>2 DEF AccountType
    <2>3. FreezeDay(a, d) = Resolve(used, d, "frozen_item", 0)
      BY <1>2 DEF FreezeDay
    <2>4. "frozen_item" \in TerminalStatuses
      BY DEF TerminalStatuses, NeutralStatuses
    <2> HIDE DEF used
    <2> QED
      BY <2>2, <2>3, <2>4, ResolvePays
  <1> QED
    BY <1>1, <1>2

LEMMA NeutralDayPays ==
    ASSUME NEW a \in AccountType, NEW d \in Dates, ~Resolved(a, d),
           NEW status \in {"rest_day", "exempt"}
    PROVE  PaysFor(a, NeutralDay(a, d, status), d)
  <1>1. /\ status \in TerminalStatuses /\ status # "frozen_item"
        /\ a.total_points = a.total_points + 0
        /\ a.quantity = a.quantity - 0
    BY DEF TerminalStatuses, NeutralStatuses, AccountType
  <1> QED
    BY <1>1, ResolvePays DEF NeutralDay

LEMMA ApplyPays ==
    ASSUME NEW a \in AccountType, NEW d \in Dates, Sound(a),
           NEW decision \in Decisions \ {"carry"}, ~Resolved(a, d)
    PROVE  PaysFor(a, Apply(a, d, decision), d)
  <1>1. CASE decision = "credit"
    BY <1>1, CreditDayPays DEF Apply
  <1>2. CASE decision = "miss"
    BY <1>2, MissDayPays DEF Apply
  <1>3. CASE decision = "freeze"
    BY <1>3, FreezeDayPays DEF Apply
  <1>4. CASE decision = "rest"
    BY <1>4, NeutralDayPays DEF Apply
  <1>5. CASE decision = "exempt"
    BY <1>5, NeutralDayPays DEF Apply
  <1> QED
    BY <1>1, <1>2, <1>3, <1>4, <1>5 DEF Decisions

-----------------------------------------------------------------------------
\* Opening a day pays nothing.
LEMMA GetOrCreateDayPays ==
    ASSUME NEW a \in AccountType, NEW d \in Dates, FreezesAccounted(a)
    PROVE  PaysNothing(a, GetOrCreateDay(a, d))
  <1> DEFINE b == GetOrCreateDay(a, d)
  <1>1. /\ HasDay(a, d) => b = a
        /\ ~HasDay(a, d) => b.days[d].status = "pending"
        /\ \A e \in Dates \ {d} : b.days[e] = a.days[e]
    BY GetOrCreateDayEffects
  <1>2. b.total_points = a.total_points /\ b.quantity = a.quantity
    BY DEF GetOrCreateDay, AccountType
  <1> HIDE DEF b
  <1>3. Judges(a, b, {})
    <2>1. CASE HasDay(a, d)
      BY <1>1, <2>1 DEF Judges
    <2>2. CASE ~HasDay(a, d)
      BY <1>1, <2>2
         DEF Judges, Resolved, HasDay, TerminalStatuses, NeutralStatuses
    <2> QED
      BY <2>1, <2>2
  <1> QED
    BY <1>2, <1>3 DEF PaysNothing, b

\* An iteration of settle_user pays for the day it is on, or carries it.
LEMMA SettleDayPays ==
    ASSUME NEW a \in AccountType, NEW d \in Dates, Sound(a), HasPlan(a),
           FreezesAccounted(a)
    PROVE  LET b == SettleDay(a, d)
           IN  PaysFor(a, b, d) \/ PaysNothing(a, b)
  <1> DEFINE opened == GetOrCreateDay(a, d)
             decision == Decide(opened, d, ~HasDay(a, d))
             judged == Apply(opened, d, decision)
             b == SettleDay(a, d)
  <1>1. opened \in AccountType /\ Sound(opened) /\ PaysNothing(a, opened)
    BY GetOrCreateDaySound, GetOrCreateDayPays
  <1>2. /\ decision \in Decisions
        /\ decision = "carry" <=> Resolved(opened, d)
    BY DEF Decide, Decisions
  <1>3. b = [judged EXCEPT !.last_settled_date = d]
    BY DEF SettleDay
  <1> HIDE DEF opened, decision, b
  <1>4. judged \in AccountType
    BY <1>1, <1>2, ApplySound
  <1>5. PaysNothing(judged, b)
    <2> HIDE DEF judged
    <2>1. /\ b.days = judged.days /\ b.total_points = judged.total_points
          /\ b.quantity = judged.quantity
      BY <1>3, <1>4 DEF AccountType
    <2> QED
      BY <2>1, SameBooks
  <1>6. CASE decision = "carry"
    <2>1. judged = opened
      BY <1>6 DEF Apply
    <2> QED
      BY <1>1, <1>5, <2>1, NothingTwice DEF b
  <1>7. CASE decision # "carry"
    <2>1. PaysFor(opened, judged, d)
      BY <1>1, <1>2, <1>7, ApplyPays
    <2> HIDE DEF judged
    <2>2. PaysFor(a, judged, d)
      BY <1>1, <2>1, NothingThenPays
    <2> QED
      BY <1>5, <2>2, PaysThenNothing DEF b
  <1> QED
    BY <1>6, <1>7

\* A log pays for the day it completes, and for nothing else.
LEMMA LogStudyPays ==
    ASSUME NEW a \in AccountType, NEW d \in Dates, NEW units \in Nat,
           NEW key \in RequestKeys, Sound(a), HasPlan(a), CanLog(a, d),
           FreezesAccounted(a)
    PROVE  LET b == LogStudy(a, d, units, key)
           IN  PaysFor(a, b, d) \/ PaysNothing(a, b)
  <1> DEFINE left == Plan(a).mishnayot_count - Plan(a).current_ordinal
             n == IF units < left THEN units ELSE left
             logged == RecordUnits(a, d, n, key)
             finished == units >= left
             enough == logged.days[d].completed_units >= GoalForDay(logged, d)
             credited == IF ~Resolved(logged, d) /\ (enough \/ finished)
                         THEN CreditDay(logged, d) ELSE logged
             b == LogStudy(a, d, units, key)
  <1>1. n \in Nat
    BY PlanExists DEF CanLog, StudyPlan
  <1>2. b = IF finished
            THEN [credited EXCEPT !.plans[PlanId(a)].status = "completed"]
            ELSE credited
    BY DEF LogStudy
  <1> HIDE DEF n, b
  <1>3. /\ logged \in AccountType /\ Sound(logged) /\ Judges(a, logged, {})
    BY <1>1, RecordUnitsSound, RecordUnitsEffects
  <1>4. PaysNothing(a, logged)
    <2>1. /\ logged.total_points = a.total_points
          /\ logged.quantity = a.quantity
      BY DEF RecordUnits, AccountType
    <2> QED
      BY <1>3, <2>1 DEF PaysNothing
  <1>5. credited \in AccountType
    BY <1>3, CreditDaySound
  <1>6. PaysNothing(credited, b)
    <2> HIDE DEF credited, finished
    <2>1. /\ b.days = credited.days /\ b.quantity = credited.quantity
          /\ b.total_points = credited.total_points
      BY <1>2, <1>5 DEF AccountType
    <2> QED
      BY <2>1, SameBooks
  <1> HIDE DEF logged, enough, finished
  <1>7. CASE ~Resolved(logged, d) /\ (enough \/ finished)
    <2>1. PaysFor(logged, credited, d)
      BY <1>3, <1>7, CreditDayPays
    <2> HIDE DEF credited
    <2>2. PaysFor(a, credited, d)
      BY <1>4, <2>1, NothingThenPays
    <2> QED
      BY <1>6, <2>2, PaysThenNothing DEF b
  <1>8. CASE ~(~Resolved(logged, d) /\ (enough \/ finished))
    <2>1. credited = logged
      BY <1>8
    <2> QED
      BY <1>4, <1>6, <2>1, NothingTwice DEF b
  <1> QED
    BY <1>7, <1>8

\* Planning pays nothing.
LEMMA PlanningPays ==
    ASSUME NEW a \in AccountType, FreezesAccounted(a)
    PROVE  /\ \A goal \in Nat \ {0}, d \in Dates :
                 PaysNothing(a, ChangeGoal(a, goal, d))
           /\ \A ordinal : PaysNothing(a, SetPosition(a, ordinal))
           /\ \A goal, size, start, created :
                 PaysNothing(a, CreatePlan(a, goal, size, start, created))
           /\ PaysNothing(a, Abandon(a))
  <1>1. ASSUME NEW goal \in Nat \ {0}, NEW d \in Dates
        PROVE  PaysNothing(a, ChangeGoal(a, goal, d))
    <2>1. Judges(a, ChangeGoal(a, goal, d), {})
      BY ChangeGoalEffects
    <2>2. /\ ChangeGoal(a, goal, d).total_points = a.total_points
          /\ ChangeGoal(a, goal, d).quantity = a.quantity
      BY DEF ChangeGoal, AccountType
    <2> QED
      BY <2>1, <2>2 DEF PaysNothing
  <1>2. ASSUME NEW ordinal PROVE PaysNothing(a, SetPosition(a, ordinal))
    <2> DEFINE b == SetPosition(a, ordinal)
    <2>1. /\ b.days = a.days /\ b.total_points = a.total_points
          /\ b.quantity = a.quantity
      BY DEF SetPosition, AccountType
    <2> HIDE DEF b
    <2>2. PaysNothing(a, b)
      BY <2>1, SameBooks
    <2> QED
      BY <2>2 DEF b
  <1>3. ASSUME NEW goal, NEW size, NEW start, NEW created
        PROVE  PaysNothing(a, CreatePlan(a, goal, size, start, created))
    <2> DEFINE b == CreatePlan(a, goal, size, start, created)
    <2>1. /\ b.days = a.days /\ b.total_points = a.total_points
          /\ b.quantity = a.quantity
      BY DEF CreatePlan
    <2> HIDE DEF b
    <2>2. PaysNothing(a, b)
      BY <2>1, SameBooks
    <2> QED
      BY <2>2 DEF b
  <1>4. PaysNothing(a, Abandon(a))
    BY SameBooks DEF Abandon, AccountType
  <1> QED
    BY <1>1, <1>2, <1>3, <1>4

LEMMA SwitchTractatePays ==
    ASSUME NEW a \in AccountType, NEW goal \in Nat \ {0},
           NEW size \in Nat \ {0}, NEW ordinal \in Nat,
           NEW utcDate \in Dates, NEW created \in Dates, Sound(a),
           FreezesAccounted(a)
    PROVE  PaysNothing(a, SwitchTractate(a, goal, size, ordinal, utcDate,
                                         created))
  <1> DEFINE left == Abandon(a)
             fresh == CreatePlan(left, goal, size, utcDate, created)
             placed == SetPosition(fresh, ordinal)
             b == ChangeGoal(placed, goal, utcDate)
  <1>0. SwitchTractate(a, goal, size, ordinal, utcDate, created) = b
    BY DEF SwitchTractate
  <1>1. /\ left \in AccountType /\ Sound(left) /\ FreezesAccounted(left)
        /\ PaysNothing(a, left)
    BY AbandonSound, AbandonEffects, PlanningPays
  <1> HIDE DEF left, b
  <1>2. /\ fresh \in AccountType /\ Sound(fresh) /\ HasPlan(fresh)
        /\ FreezesAccounted(fresh) /\ PaysNothing(left, fresh)
    BY <1>1, CreatePlanSound, CreatePlanEffects, PlanningPays
  <1> HIDE DEF fresh
  <1>3. /\ placed \in AccountType /\ FreezesAccounted(placed)
        /\ PaysNothing(fresh, placed)
    BY <1>2, SetPositionSound, SetPositionEffects, PlanningPays
  <1> HIDE DEF placed
  <1>4. PaysNothing(placed, b)
    BY <1>3, PlanningPays DEF b
  <1>5. PaysNothing(a, placed)
    BY <1>1, <1>2, <1>3, NothingTwice
  <1> QED
    BY <1>0, <1>4, <1>5, NothingTwice

\* From a to b a freeze is bought.
Bought(a, b) ==
    /\ a.total_points >= FreezeCost
    /\ a.quantity < MaxOwned
    /\ b.total_points = a.total_points - FreezeCost
    /\ b.quantity = a.quantity + 1
    /\ b.days = a.days

LEMMA PurchasePays ==
    ASSUME NEW a \in AccountType, NEW key \in RequestKeys, CanPurchase(a)
    PROVE  LET b == Purchase(a, key)
           IN  Bought(a, b) \/ PaysNothing(a, b)
  <1> DEFINE k == PurchaseKey(a, key)
             cost == -FreezeCost
             charged == PostTransaction(a, k, cost)
             b == Purchase(a, key)
  <1>1. CASE ~Posts(a, k, cost)
    <2>1. b = a
      BY <1>1 DEF Purchase
    <2> QED
      BY <2>1, SameBooks
  <1>2. CASE Posts(a, k, cost)
    <2>1. b = [charged EXCEPT !.quantity = @ + 1]
      BY <1>2 DEF Purchase
    <2>2. /\ charged.days = a.days /\ charged.quantity = a.quantity
          /\ charged.total_points = a.total_points + cost
          /\ charged = [charged EXCEPT !.quantity = @]
      BY <1>2 DEF PostTransaction, AccountType
    <2>3. /\ b.days = charged.days /\ b.quantity = charged.quantity + 1
          /\ b.total_points = charged.total_points
      BY <1>2 DEF Purchase, PostTransaction, AccountType
    <2>4. a.total_points + cost = a.total_points - FreezeCost
      BY FreezeCostAssumption DEF AccountType
    <2> HIDE DEF b, charged, cost
    <2> QED
      BY <2>2, <2>3, <2>4 DEF Bought, CanPurchase, b
  <1> QED
    BY <1>1, <1>2

-----------------------------------------------------------------------------
\* The account as the book shows it, and the days judged from a to b.
Points(a) == [d \in Dates |-> Line(a.days[d]).points]

NewDays(a, b) == ResolvedDays(b) \ ResolvedDays(a)

NewFrozen(a, b) == {d \in NewDays(a, b) : b.days[d].status = "frozen_item"}

\* From a to b the balance has moved by what the judged days are worth, and the
\* inventory by those that were frozen.
Gains(a, b) ==
    /\ b.total_points = a.total_points + SumOf(Points(b), NewDays(a, b))
    /\ b.quantity = a.quantity - Cardinality(NewFrozen(a, b))

LEMMA DatesFinite ==
    /\ IsFiniteSet(Dates)
    /\ \A S \in SUBSET Dates : IsFiniteSet(S)
  <1>1. IsFiniteSet(Dates)
    BY MaxDayAssumption, FS_Interval DEF Dates
  <1> QED
    BY <1>1, FS_Subset

LEMMA GainsSelf ==
    ASSUME NEW a \in AccountType, NEW b, PaysNothing(a, b)
    PROVE  Gains(a, b)
  <1>1. NewDays(a, b) = {} /\ NewFrozen(a, b) = {}
    BY DEF NewDays, NewFrozen, ResolvedDays, PaysNothing, Judges
  <1>2. SumOf(Points(b), {}) = 0 /\ Cardinality({}) = 0
    BY FS_EmptySet, SumUnfolds
  <1>3. a.total_points \in Int /\ a.quantity \in Int
    BY DEF AccountType
  <1> QED
    BY <1>1, <1>2, <1>3 DEF Gains, PaysNothing

\* The points of two accounts agree where the verdicts do.
LEMMA PointsAgree ==
    ASSUME NEW b, NEW c, NEW D, Judges(b, c, D), NEW d \in Dates,
           Resolved(b, d)
    PROVE  Points(b)[d] = Points(c)[d]
           /\ b.days[d].status = c.days[d].status
  <1>1. /\ b.days[d].status = c.days[d].status
        /\ b.days[d].points_awarded = c.days[d].points_awarded
    BY DEF Judges, Verdict
  <1> QED
    BY <1>1 DEF Points, Line

LEMMA GainsNothing ==
    ASSUME NEW a, NEW b, NEW c,
           Judges(a, b, Dates), Gains(a, b), PaysNothing(b, c)
    PROVE  Gains(a, c)
  <1> DEFINE new == NewDays(a, b)
  <1>1. Judges(b, c, {})
    BY DEF PaysNothing
  <1>2. \A d \in Dates : Resolved(c, d) <=> Resolved(b, d)
    BY <1>1 DEF Judges, Resolved, Verdict
  <1>3. NewDays(a, c) = new
    BY <1>2 DEF NewDays, ResolvedDays
  <1>4. \A d \in new : d \in Dates /\ Resolved(b, d)
    BY DEF NewDays, ResolvedDays
  <1>5. IsFiniteSet(new)
    BY <1>4, DatesFinite
  <1> HIDE DEF new
  <1>6. \A d \in new : /\ Points(b)[d] = Points(c)[d]
                       /\ b.days[d].status = c.days[d].status
    BY <1>1, <1>4, PointsAgree
  <1>7. SumOf(Points(b), new) = SumOf(Points(c), new)
    BY <1>5, <1>6, SumSame
  <1>8. NewFrozen(a, b) = NewFrozen(a, c)
    BY <1>3, <1>6 DEF NewFrozen, new
  <1> QED
    BY <1>3, <1>7, <1>8 DEF Gains, PaysNothing, new

\* The points of a day are an integer.
LEMMA PointsInteger ==
    ASSUME NEW a \in AccountType, NEW d \in Dates
    PROVE  Points(a)[d] \in Int
  <1>1. a.days[d].points_awarded \in Int
    BY DEF AccountType, StudyDay
  <1> QED
    BY <1>1 DEF Points, Line

\* Judging one more day gains what that day is worth.
LEMMA GainsOne ==
    ASSUME NEW a \in AccountType, NEW b \in AccountType,
           NEW c \in AccountType, NEW d \in Dates,
           Judges(a, b, Dates), Gains(a, b), PaysFor(b, c, d)
    PROVE  Gains(a, c)
  <1> DEFINE new == NewDays(a, b)
             frozen == NewFrozen(a, b)
  <1>1. Judges(b, c, {d}) /\ ~Resolved(b, d) /\ Resolved(c, d)
    BY DEF PaysFor
  <1>2. /\ \A e \in Dates : Resolved(c, e) <=> Resolved(b, e) \/ e = d
        /\ ~Resolved(a, d)
    <2>1. \A e \in Dates : Resolved(b, e) => Resolved(c, e)
      BY <1>1 DEF Judges, Resolved, Verdict
    <2>2. Resolved(a, d) => Resolved(b, d)
      BY DEF Judges, Resolved, Verdict
    <2> QED
      BY <1>1, <2>1, <2>2 DEF Judges
  <1>3. NewDays(a, c) = new \cup {d} /\ d \notin new
    BY <1>1, <1>2 DEF NewDays, ResolvedDays
  <1>4. \A e \in new : e \in Dates /\ Resolved(b, e)
    BY DEF NewDays, ResolvedDays
  <1>5. /\ IsFiniteSet(new) /\ new \cup {d} \subseteq Dates
        /\ frozen \subseteq new /\ IsFiniteSet(frozen)
    BY <1>4, DatesFinite DEF NewFrozen
  <1> HIDE DEF new
  <1>6. \A e \in new : /\ Points(b)[e] = Points(c)[e]
                       /\ b.days[e].status = c.days[e].status
    BY <1>1, <1>4, PointsAgree
  <1>7. SumOf(Points(b), new) = SumOf(Points(c), new)
    BY <1>5, <1>6, SumSame
  <1>8. \A e \in new \cup {d} : Points(c)[e] \in Int
    BY <1>5, PointsInteger
  <1>9. SumOf(Points(c), new \cup {d})
           = Points(c)[d] + SumOf(Points(c), new)
    BY <1>3, <1>5, <1>8, SumAdds
  <1>10. Points(c)[d] = c.days[d].points_awarded
    BY <1>1 DEF Points, Line, Resolved
  <1>11. c.total_points = a.total_points + SumOf(Points(c), NewDays(a, c))
    <2>1. SumOf(Points(c), new) \in Int
      BY <1>5, <1>8, SumInteger
    <2>2. b.total_points = a.total_points + SumOf(Points(c), new)
      BY <1>7 DEF Gains, new
    <2>3. c.total_points = b.total_points + Points(c)[d]
      BY <1>10 DEF PaysFor
    <2>4. a.total_points \in Int /\ Points(c)[d] \in Int
      BY <1>8 DEF AccountType
    <2> QED
      BY <1>3, <1>9, <2>1, <2>2, <2>3, <2>4
  <1>12. c.quantity = a.quantity - Cardinality(NewFrozen(a, c))
    <2>1. a.quantity \in Int /\ b.quantity = a.quantity - Cardinality(frozen)
      BY DEF Gains, AccountType
    <2>2. d \notin frozen /\ Cardinality(frozen) \in Nat
      BY <1>3, <1>5, FS_CardinalityType
    <2>3. CASE c.days[d].status = "frozen_item"
      <3>1. NewFrozen(a, c) = frozen \cup {d}
        BY <1>3, <1>6, <2>3 DEF NewFrozen, new
      <3>2. Cardinality(frozen \cup {d}) = Cardinality(frozen) + 1
        BY <1>5, <2>2, FS_AddElement
      <3>3. c.quantity = b.quantity - 1
        BY <2>3 DEF PaysFor
      <3> HIDE DEF frozen
      <3> QED
        BY <2>1, <2>2, <3>1, <3>2, <3>3
    <2>4. CASE c.days[d].status # "frozen_item"
      <3>1. NewFrozen(a, c) = frozen
        BY <1>3, <1>6, <2>4 DEF NewFrozen, new
      <3>2. c.quantity = b.quantity - 0
        BY <2>4 DEF PaysFor
      <3> HIDE DEF frozen
      <3> QED
        BY <2>1, <2>2, <3>1, <3>2
    <2> QED
      BY <2>3, <2>4
  <1> QED
    BY <1>11, <1>12 DEF Gains

\* What a book shows of an account that has come from a to b by judging: lawful
\* lines over open ones.
LEMMA JudgedLines ==
    ASSUME NEW a \in AccountType, NEW b \in AccountType,
           VerdictsPaidOnce(b), Judges(a, b, Dates)
    PROVE  /\ {d \in Dates : Line(b.days[d]) # Line(a.days[d])} = NewDays(a, b)
           /\ NewFrozen(a, b) = {d \in NewDays(a, b) :
                                    Line(b.days[d]).status = "frozen_item"}
           /\ \A d \in NewDays(a, b) :
                 LET line == Line(b.days[d])
                 IN  /\ Line(a.days[d]) = [status |-> "open", points |-> 0]
                     /\ line.status \in TerminalStatuses
                     /\ line.status = "completed" => line.points > 0
                     /\ line.status = "missed" => line.points <= 0
                     /\ line.status \in NeutralStatuses => line.points = 0
  <1>1. {d \in Dates : Line(b.days[d]) # Line(a.days[d])} = NewDays(a, b)
    <2>1. ASSUME NEW d \in Dates, Resolved(a, d)
          PROVE  Line(b.days[d]) = Line(a.days[d]) /\ Resolved(b, d)
      BY <2>1 DEF Judges, Verdict, Line, Resolved
    <2>2. ASSUME NEW d \in Dates, ~Resolved(a, d)
          PROVE  Line(b.days[d]) # Line(a.days[d]) <=> Resolved(b, d)
      BY <2>2 DEF Line, Resolved, TerminalStatuses, NeutralStatuses
    <2> QED
      BY <2>1, <2>2 DEF NewDays, ResolvedDays
  <1>2. ASSUME NEW d \in NewDays(a, b)
        PROVE  LET line == Line(b.days[d])
               IN  /\ Line(a.days[d]) = [status |-> "open", points |-> 0]
                   /\ line.status \in TerminalStatuses
                   /\ line.status = "completed" => line.points > 0
                   /\ line.status = "missed" => line.points <= 0
                   /\ line.status \in NeutralStatuses => line.points = 0
    <2>1. d \in Dates /\ ~Resolved(a, d) /\ Resolved(b, d)
      BY <1>2 DEF NewDays, ResolvedDays
    <2>2. Line(a.days[d]) = [status |-> "open", points |-> 0]
      BY <2>1 DEF Line, Resolved
    <2>3. /\ Line(b.days[d]).status = b.days[d].status
          /\ Line(b.days[d]).points = b.days[d].points_awarded
          /\ b.days[d].status \in TerminalStatuses
      BY <2>1 DEF Line, Resolved
    <2>4. b.days[d].points_awarded \in Int
      BY <2>1 DEF AccountType, StudyDay
    <2>5. /\ b.days[d].status = "completed" => b.days[d].points_awarded > 0
          /\ b.days[d].status = "missed" => b.days[d].points_awarded <= 0
          /\ b.days[d].status \notin {"completed", "missed"} =>
                b.days[d].points_awarded = 0
      BY <2>1, <2>4 DEF VerdictsPaidOnce
    <2> QED
      BY <2>2, <2>3, <2>5 DEF NeutralStatuses
  <1>3. NewFrozen(a, b) = {d \in NewDays(a, b) :
                              Line(b.days[d]).status = "frozen_item"}
    BY DEF NewFrozen, NewDays, ResolvedDays, Line, Resolved
  <1> QED
    BY <1>1, <1>2, <1>3

\* More lines of which none is negative are not worth less.
LEMMA SumGrows ==
    ASSUME NEW weight, NEW U, IsFiniteSet(U), NEW S \in SUBSET U,
           \A d \in U : weight[d] \in Nat
    PROVE  SumOf(weight, S) <= SumOf(weight, U)
  <1> DEFINE F == {T \in SUBSET U :
                      S \subseteq T /\ ~(SumOf(weight, S) <= SumOf(weight, T))}
  <1>1. SUFFICES ASSUME F # {} PROVE FALSE
    OBVIOUS
  <1>2. \A T \in F : IsFiniteSet(T)
    BY FS_Subset
  <1> HIDE DEF F
  <1>3. PICK T \in F : \A V \in F : ~(Cardinality(V) < Cardinality(T))
    BY <1>1, <1>2, SmallestSet
  <1>4. /\ T \in SUBSET U /\ IsFiniteSet(T) /\ S \subseteq T
        /\ ~(SumOf(weight, S) <= SumOf(weight, T))
    BY <1>2, <1>3 DEF F
  <1>5. SumOf(weight, S) \in Int
    BY FS_Subset, SumInteger
  <1>6. PICK d \in T : d \notin S
    BY <1>4, <1>5
  <1> DEFINE r == T \ {d}
  <1>7. /\ IsFiniteSet(r) /\ Cardinality(r) < Cardinality(T)
        /\ r \in SUBSET U /\ S \subseteq r /\ r \cup {d} = T /\ d \notin r
    <2>1. IsFiniteSet(r) /\ Cardinality(r) = Cardinality(T) - 1
      BY <1>4, FS_RemoveElement
    <2>2. Cardinality(T) \in Nat
      BY <1>4, FS_CardinalityType
    <2>3. r \in SUBSET U /\ S \subseteq r /\ r \cup {d} = T /\ d \notin r
      BY <1>4, <1>6
    <2> QED
      BY <2>1, <2>2, <2>3
  <1> HIDE DEF r
  <1>8. SumOf(weight, S) <= SumOf(weight, r)
    BY <1>3, <1>7 DEF F
  <1>9. /\ SumOf(weight, T) = weight[d] + SumOf(weight, r)
        /\ SumOf(weight, r) \in Int
    BY <1>4, <1>7, SumAdds, SumInteger
  <1>10. weight[d] \in Nat
    BY <1>4
  <1> QED
    BY <1>4, <1>5, <1>8, <1>9, <1>10

-----------------------------------------------------------------------------
\* What studying leaves in an account, and what it is judged by: the events,
\* the plans, and of each day its quota and the units done.
Record(a) == <<a.events, a.plans, a.total_units_completed>>
Quota(day) ==
    <<day.day_kind, day.required_units, day.completed_units, day.plan_id>>
SameRecord(a, b) ==
    /\ Record(b) = Record(a)
    /\ \A d \in Dates : Quota(b.days[d]) = Quota(a.days[d])

\* A weekday that has a row asks for something, and a day without one holds
\* nothing.
QuotaStands(a) ==
    \A d \in Dates :
        /\ HasDay(a, d) /\ a.days[d].day_kind = "weekday" =>
              a.days[d].required_units > 0
        /\ ~HasDay(a, d) => a.days[d].completed_units = 0

EndsTractateOn(a, d) ==
    \E i \in DOMAIN a.events :
        /\ a.events[i].credited_local_date = d
        /\ a.plans[a.events[i].plan_id].status = "completed"

FairOn(a, d) ==
    LET day == a.days[d] IN
    /\ day.status \in {"missed", "frozen_item"} /\ day.day_kind = "weekday" =>
          day.completed_units < day.required_units
    /\ day.status = "completed" =>
          day.completed_units >= day.required_units \/ EndsTractateOn(a, d)

JudgedFairly(a) == \A d \in Dates : FairOn(a, d)

\* The units of each event, and the events of a date.
Units(a) == [i \in DOMAIN a.events |-> a.events[i].units]
EventsOn(a, d) == {i \in DOMAIN a.events : a.events[i].credited_local_date = d}

UnitsAddUp(a) ==
    /\ a.total_units_completed = SumOf(Units(a), DOMAIN a.events)
    /\ \A d \in Dates :
          a.days[d].completed_units = SumOf(Units(a), EventsOn(a, d))

KeysOnce(a) ==
    \A i, j \in DOMAIN a.events :
        a.events[i].key = a.events[j].key /\ a.events[i].key # NoKey => i = j

\* Every event lies inside the tractate of its plan, and a plan that is active
\* has something left to read.
EventsInside(a) ==
    \A i \in DOMAIN a.events : LET event == a.events[i] IN
        /\ event.plan_id \in DOMAIN a.plans
        /\ event.from_ordinal + event.units
              <= a.plans[event.plan_id].mishnayot_count

SomethingLeft(a) ==
    \A i \in ActivePlans(a) :
        a.plans[i].current_ordinal < a.plans[i].mishnayot_count

\* At most one plan is active.
OneActive(a) == \A i, j \in ActivePlans(a) : i = j

Recorded(a) ==
    /\ QuotaStands(a) /\ JudgedFairly(a) /\ UnitsAddUp(a) /\ KeysOnce(a)
    /\ EventsInside(a) /\ SomethingLeft(a) /\ OneActive(a)

\* What does not touch the record, nor judges a day, keeps the account
\* recorded.
LEMMA SameRecordRecorded ==
    ASSUME NEW a, NEW b, Recorded(a), SameRecord(a, b),
           \A d \in Dates : b.days[d].status = a.days[d].status
    PROVE  Recorded(b)
  <1>1. /\ b.events = a.events /\ b.plans = a.plans
        /\ b.total_units_completed = a.total_units_completed
        /\ Units(b) = Units(a) /\ \A d : EventsOn(b, d) = EventsOn(a, d)
    BY DEF SameRecord, Record, Units, EventsOn
  <1>2. \A d \in Dates :
           /\ b.days[d].day_kind = a.days[d].day_kind
           /\ b.days[d].required_units = a.days[d].required_units
           /\ b.days[d].completed_units = a.days[d].completed_units
    BY DEF SameRecord, Quota
  <1>3. QuotaStands(b)
    BY <1>2 DEF Recorded, QuotaStands, HasDay
  <1>4. JudgedFairly(b)
    BY <1>1, <1>2 DEF Recorded, JudgedFairly, FairOn, EndsTractateOn
  <1>5. UnitsAddUp(b)
    BY <1>1, <1>2 DEF Recorded, UnitsAddUp
  <1>6. KeysOnce(b) /\ EventsInside(b) /\ SomethingLeft(b) /\ OneActive(b)
    BY <1>1 DEF Recorded, KeysOnce, EventsInside, SomethingLeft, OneActive,
                ActivePlans
  <1> QED
    BY <1>3, <1>4, <1>5, <1>6 DEF Recorded

\* A verdict given to one day, fairly, keeps the account recorded.
LEMMA FairVerdict ==
    ASSUME NEW a, NEW b, NEW d \in Dates, Recorded(a), SameRecord(a, b),
           \A e \in Dates \ {d} : b.days[e] = a.days[e],
           HasDay(a, d), HasDay(b, d), FairOn(b, d)
    PROVE  Recorded(b)
  <1>1. /\ b.events = a.events /\ b.plans = a.plans
        /\ b.total_units_completed = a.total_units_completed
        /\ Units(b) = Units(a) /\ \A e : EventsOn(b, e) = EventsOn(a, e)
    BY DEF SameRecord, Record, Units, EventsOn
  <1>2. \A e \in Dates :
           /\ b.days[e].day_kind = a.days[e].day_kind
           /\ b.days[e].required_units = a.days[e].required_units
           /\ b.days[e].completed_units = a.days[e].completed_units
    BY DEF SameRecord, Quota
  <1>3. \A e \in Dates : HasDay(b, e) <=> HasDay(a, e)
    BY DEF HasDay
  <1>4. QuotaStands(b)
    BY <1>2, <1>3 DEF Recorded, QuotaStands
  <1>5. \A e \in Dates \ {d} : FairOn(b, e)
    BY <1>1 DEF Recorded, JudgedFairly, FairOn, EndsTractateOn
  <1>6. JudgedFairly(b)
    BY <1>5 DEF JudgedFairly
  <1>7. UnitsAddUp(b)
    BY <1>1, <1>2 DEF Recorded, UnitsAddUp
  <1>8. KeysOnce(b) /\ EventsInside(b) /\ SomethingLeft(b) /\ OneActive(b)
    BY <1>1 DEF Recorded, KeysOnce, EventsInside, SomethingLeft, OneActive,
                ActivePlans
  <1> QED
    BY <1>4, <1>6, <1>7, <1>8 DEF Recorded

-----------------------------------------------------------------------------
\* What two changes leave alone, both leave alone.
LEMMA SameRecordBoth ==
    ASSUME NEW a, NEW b, NEW c, SameRecord(a, b), SameRecord(b, c)
    PROVE  SameRecord(a, c)
  BY DEF SameRecord

\* Points move beside the record.
LEMMA PostingRecord ==
    ASSUME NEW a \in AccountType, NEW key, NEW amount
    PROVE  LET b == PostTransaction(a, key, amount)
           IN  Record(b) = Record(a) /\ b.days = a.days
  BY DEF PostTransaction, Record, AccountType

\* A verdict is written beside the record.
LEMMA ResolveRecord ==
    ASSUME NEW a \in AccountType, NEW d \in Dates,
           NEW status \in TerminalStatuses, NEW points \in Int
    PROVE  LET b == Resolve(a, d, status, points)
           IN  /\ SameRecord(a, b) /\ b.days[d].status = status
               /\ \A e \in Dates \ {d} : b.days[e] = a.days[e]
  <1> DEFINE row == [a.days[d] EXCEPT !.status = status,
                                      !.points_awarded = points,
                                      !.streak_after = a.current_streak]
             b == Resolve(a, d, status, points)
  <1>1. a.days \in [Dates -> StudyDay] /\ a.days[d] \in StudyDay
    BY DEF AccountType
  <1>2. Quota(row) = Quota(a.days[d]) /\ row.status = status
    BY <1>1 DEF StudyDay, Quota
  <1>3. b = [a EXCEPT !.days = [a.days EXCEPT ![d] = row]]
    BY DEF Resolve
  <1> HIDE DEF row, b
  <1>4. /\ Record(b) = Record(a) /\ b.days[d] = row
        /\ \A e \in Dates \ {d} : b.days[e] = a.days[e]
    BY <1>1, <1>3 DEF Record, AccountType
  <1> QED
    BY <1>2, <1>4 DEF SameRecord, b

\* So is each decision of the settlement, and those that cost say so.
LEMMA CreditDayRecord ==
    ASSUME NEW a \in AccountType, NEW d \in Dates, ~Resolved(a, d)
    PROVE  LET b == CreditDay(a, d)
           IN  /\ SameRecord(a, b) /\ b.days[d].status = "completed"
               /\ \A e \in Dates \ {d} : b.days[e] = a.days[e]
  <1> DEFINE streak == a.current_streak + 1
             points == PointsForCompletion(streak)
             key == DailyKey(d)
             paid == PostTransaction(a, key, points)
             moved == [paid EXCEPT !.current_streak = streak,
                                   !.longest_streak = IF @ < streak
                                                      THEN streak ELSE @]
             b == CreditDay(a, d)
  <1>1. /\ streak \in Nat /\ points \in Int /\ a.total_points + points >= 0
        /\ a.total_points \in Nat
    <2>1. streak \in Nat /\ a.total_points \in Nat
      BY DEF AccountType
    <2>2. points \in Nat
      BY <2>1, PointsPositive
    <2> QED
      BY <2>1, <2>2
  <1>2. key \in TxnTypes \X Nat
    BY DEF DailyKey, TxnTypes, Dates
  <1>3. "completed" \in TerminalStatuses
    BY DEF TerminalStatuses
  <1> HIDE DEF points, key
  <1>4. /\ paid \in AccountType
        /\ Record(paid) = Record(a) /\ paid.days = a.days
    BY <1>1, <1>2, PostTransactionType, PostingRecord
  <1> HIDE DEF paid
  <1>5. moved \in AccountType
        /\ Record(moved) = Record(a) /\ moved.days = a.days
    BY <1>1, <1>4 DEF AccountType, Record
  <1>6. b = IF Posts(a, key, points)
            THEN Resolve(moved, d, "completed", points)
            ELSE Resolve(a, d, "completed", 0)
    BY DEF CreditDay, points, key, paid
  <1> HIDE DEF moved, b
  <1>7. SameRecord(a, moved)
    BY <1>5 DEF SameRecord
  <1>8. CASE Posts(a, key, points)
    <2>1. /\ SameRecord(moved, b) /\ b.days[d].status = "completed"
          /\ \A e \in Dates \ {d} : b.days[e] = moved.days[e]
      BY <1>1, <1>3, <1>5, <1>6, <1>8, ResolveRecord
    <2> QED
      BY <1>5, <1>7, <2>1, SameRecordBoth DEF b
  <1>9. CASE ~Posts(a, key, points)
    BY <1>3, <1>6, <1>9, ResolveRecord DEF b
  <1> QED
    BY <1>8, <1>9

LEMMA MissDayRecord ==
    ASSUME NEW a \in AccountType, NEW d \in Dates
    PROVE  LET b == MissDay(a, d)
           IN  /\ SameRecord(a, b) /\ b.days[d].status = "missed"
               /\ \A e \in Dates \ {d} : b.days[e] = a.days[e]
  <1> DEFINE penalty == PenaltyForMiss(a.total_points)
             fine == -penalty
             key == PenaltyKey(d)
             fined == PostTransaction(a, key, fine)
             moved == [fined EXCEPT !.current_streak = 0]
             b == MissDay(a, d)
  <1>1. fine \in Int /\ a.total_points + fine >= 0
    <2>1. a.total_points \in Nat
      BY DEF AccountType
    <2>2. penalty \in Nat /\ penalty <= a.total_points
      BY <2>1, PenaltyPayable
    <2> QED
      BY <2>1, <2>2
  <1>2. key \in TxnTypes \X Nat
    BY DEF PenaltyKey, TxnTypes, Dates
  <1>3. "missed" \in TerminalStatuses
    BY DEF TerminalStatuses
  <1> HIDE DEF fine, key
  <1>4. /\ fined \in AccountType
        /\ Record(fined) = Record(a) /\ fined.days = a.days
    BY <1>1, <1>2, PostTransactionType, PostingRecord
  <1> HIDE DEF fined
  <1>5. moved \in AccountType
        /\ Record(moved) = Record(a) /\ moved.days = a.days
    BY <1>4 DEF AccountType, Record
  <1>6. b = Resolve(moved, d, "missed", fine)
    BY DEF MissDay, fine, key, fined
  <1> HIDE DEF moved, b
  <1>7. SameRecord(a, moved)
    BY <1>5 DEF SameRecord
  <1>8. /\ SameRecord(moved, b) /\ b.days[d].status = "missed"
        /\ \A e \in Dates \ {d} : b.days[e] = moved.days[e]
    BY <1>1, <1>3, <1>5, <1>6, ResolveRecord
  <1> QED
    BY <1>5, <1>7, <1>8, SameRecordBoth DEF b

LEMMA FreezeDayRecord ==
    ASSUME NEW a \in AccountType, NEW d \in Dates
    PROVE  LET b == FreezeDay(a, d)
           IN  /\ SameRecord(a, b)
               /\ b.days[d].status \in {"missed", "frozen_item"}
               /\ \A e \in Dates \ {d} : b.days[e] = a.days[e]
  <1> DEFINE used == [a EXCEPT !.quantity = @ - 1,
                               !.freezes_consumed = @ + 1,
                               !.usages = @ \cup {d}]
             b == FreezeDay(a, d)
  <1>1. CASE a.quantity <= 0
    BY <1>1, MissDayRecord DEF FreezeDay
  <1>2. CASE ~(a.quantity <= 0)
    <2>1. a.quantity - 1 \in Nat /\ a.freezes_consumed + 1 \in Nat
      BY <1>2 DEF AccountType
    <2>2. a.usages \cup {d} \in SUBSET Dates
      BY DEF AccountType
    <2>3. /\ used \in AccountType
          /\ Record(used) = Record(a) /\ used.days = a.days
      BY <2>1, <2>2 DEF AccountType, Record
    <2>4. b = Resolve(used, d, "frozen_item", 0)
      BY <1>2 DEF FreezeDay
    <2>5. "frozen_item" \in TerminalStatuses
      BY DEF TerminalStatuses, NeutralStatuses
    <2> HIDE DEF used, b
    <2>6. /\ SameRecord(used, b) /\ b.days[d].status = "frozen_item"
          /\ \A e \in Dates \ {d} : b.days[e] = used.days[e]
      BY <2>3, <2>4, <2>5, ResolveRecord
    <2>7. SameRecord(a, used)
      BY <2>3 DEF SameRecord
    <2> QED
      BY <2>3, <2>6, <2>7, SameRecordBoth DEF b
  <1> QED
    BY <1>1, <1>2

LEMMA ApplyRecord ==
    ASSUME NEW a \in AccountType, NEW d \in Dates, NEW decision \in Decisions,
           decision # "carry" => ~Resolved(a, d)
    PROVE  LET b == Apply(a, d, decision)
           IN  /\ SameRecord(a, b)
               /\ \A e \in Dates \ {d} : b.days[e] = a.days[e]
               /\ decision = "carry" => b = a
               /\ decision = "credit" => b.days[d].status = "completed"
               /\ decision \in {"miss", "freeze"} =>
                     b.days[d].status \in {"missed", "frozen_item"}
               /\ decision = "rest" => b.days[d].status = "rest_day"
               /\ decision = "exempt" => b.days[d].status = "exempt"
  <1>1. CASE decision = "carry"
    BY <1>1 DEF Apply, SameRecord
  <1>2. CASE decision = "credit"
    BY <1>2, CreditDayRecord DEF Apply
  <1>3. CASE decision = "miss"
    BY <1>3, MissDayRecord DEF Apply
  <1>4. CASE decision = "freeze"
    BY <1>4, FreezeDayRecord DEF Apply
  <1>5. CASE decision \in {"rest", "exempt"}
    <2>1. "rest_day" \in TerminalStatuses /\ "exempt" \in TerminalStatuses
      BY DEF TerminalStatuses, NeutralStatuses
    <2> QED
      BY <1>5, <2>1, ResolveRecord DEF Apply, NeutralDay
  <1> QED
    BY <1>1, <1>2, <1>3, <1>4, <1>5 DEF Decisions

\* Opening a day records nothing, and a weekday is opened with something to
\* do.
LEMMA GetOrCreateDayRecord ==
    ASSUME NEW a \in AccountType, NEW d \in Dates, HasPlan(a), Recorded(a)
    PROVE  LET b == GetOrCreateDay(a, d)
           IN  /\ Recorded(b) /\ HasDay(b, d) /\ Record(b) = Record(a)
               /\ HasDay(a, d) => b = a
               /\ ~HasDay(a, d) => b.days[d].completed_units = 0
               /\ \A e \in Dates \ {d} : b.days[e] = a.days[e]
  <1> DEFINE kind == ClassifyDay(d, a.study_week)
             row == [day_kind |-> kind,
                     required_units |->
                         RequiredUnitsFor(kind, Plan(a).daily_goal),
                     completed_units |-> 0, status |-> "pending",
                     points_awarded |-> 0, streak_after |-> 0,
                     plan_id |-> PlanId(a)]
             b == GetOrCreateDay(a, d)
  <1>1. CASE HasDay(a, d)
    BY <1>1 DEF GetOrCreateDay
  <1>2. CASE ~HasDay(a, d)
    <2>1. b = [a EXCEPT !.days = [a.days EXCEPT ![d] = row]]
      BY <1>2 DEF GetOrCreateDay
    <2>2. /\ row.status = "pending" /\ row.completed_units = 0
          /\ row.day_kind = "weekday" => row.required_units > 0
      <3>1. Plan(a).daily_goal \in Nat \ {0}
        BY PlanExists DEF StudyPlan
      <3> QED
        BY <3>1 DEF RequiredUnitsFor
    <2> HIDE DEF row, b
    <2>3. /\ Record(b) = Record(a) /\ b.days[d] = row
          /\ \A e \in Dates \ {d} : b.days[e] = a.days[e]
      BY <2>1 DEF AccountType, Record
    <2>4. /\ b.events = a.events /\ b.plans = a.plans
          /\ b.total_units_completed = a.total_units_completed
          /\ Units(b) = Units(a) /\ \A e : EventsOn(b, e) = EventsOn(a, e)
      BY <2>3 DEF Record, Units, EventsOn
    <2>5. HasDay(b, d) /\ \A e \in Dates \ {d} : HasDay(b, e) <=> HasDay(a, e)
      BY <2>2, <2>3 DEF HasDay
    <2>6. \A e \in Dates :
             b.days[e].completed_units = a.days[e].completed_units
      BY <1>2, <2>2, <2>3 DEF Recorded, QuotaStands
    <2>7. QuotaStands(b)
      BY <2>2, <2>3, <2>5 DEF Recorded, QuotaStands
    <2>8. JudgedFairly(b)
      <3>1. FairOn(b, d)
        BY <2>2, <2>3 DEF FairOn
      <3>2. \A e \in Dates \ {d} : FairOn(b, e)
        BY <2>3, <2>4 DEF Recorded, JudgedFairly, FairOn, EndsTractateOn
      <3> QED
        BY <3>1, <3>2 DEF JudgedFairly
    <2>9. UnitsAddUp(b)
      BY <2>4, <2>6 DEF Recorded, UnitsAddUp
    <2>10. KeysOnce(b) /\ EventsInside(b) /\ SomethingLeft(b) /\ OneActive(b)
      BY <2>4 DEF Recorded, KeysOnce, EventsInside, SomethingLeft, OneActive,
                  ActivePlans
    <2> QED
      BY <1>2, <2>2, <2>3, <2>5, <2>7, <2>8, <2>9, <2>10 DEF Recorded, b
  <1> QED
    BY <1>1, <1>2

\* One iteration of settle_user judges the day by its quota: a fine or a freeze
\* only below it, a credit only at it.
LEMMA SettleDayRecord ==
    ASSUME NEW a \in AccountType, NEW d \in Dates, Sound(a), HasPlan(a),
           Recorded(a)
    PROVE  LET b == SettleDay(a, d)
           IN  /\ Recorded(b) /\ Record(b) = Record(a)
               /\ \A e \in Dates : HasDay(a, e) =>
                     HasDay(b, e) /\ Quota(b.days[e]) = Quota(a.days[e])
  <1> DEFINE opened == GetOrCreateDay(a, d)
             decision == Decide(opened, d, ~HasDay(a, d))
             judged == Apply(opened, d, decision)
             b == SettleDay(a, d)
  <1>1. opened \in AccountType
    BY GetOrCreateDaySound
  <1>2. /\ Recorded(opened) /\ HasDay(opened, d) /\ Record(opened) = Record(a)
        /\ HasDay(a, d) => opened = a
        /\ ~HasDay(a, d) => opened.days[d].completed_units = 0
        /\ \A e \in Dates \ {d} : opened.days[e] = a.days[e]
    BY GetOrCreateDayRecord
  <1>3. /\ decision \in Decisions
        /\ decision # "carry" => ~Resolved(opened, d)
    BY DEF Decide, Decisions
  <1>4. Plan(opened).daily_goal \in Nat \ {0}
    <2>1. HasPlan(opened)
      BY <1>2, SamePlan DEF Record
    <2> QED
      BY <1>1, <2>1, PlanExists DEF StudyPlan
  <1> HIDE DEF opened
  <1>5. LET day == opened.days[d] IN
           /\ day.required_units \in Nat /\ day.completed_units \in Nat
           /\ day.day_kind \in DayKinds
           /\ day.day_kind = "weekday" => day.required_units > 0
    BY <1>1, <1>2 DEF AccountType, StudyDay, Recorded, QuotaStands
  <1> DEFINE day == opened.days[d]
  <1>6. /\ decision = "credit" => day.completed_units >= day.required_units
        /\ decision \in {"miss", "freeze"} /\ day.day_kind = "weekday" =>
              day.completed_units < day.required_units
    <2>1. ~HasDay(a, d) => ~(day.completed_units >= Plan(opened).daily_goal)
      BY <1>2, <1>4
    <2> QED
      BY <1>5, <2>1 DEF Decide
  <1> HIDE DEF decision, day
  <1>7. /\ SameRecord(opened, judged)
        /\ \A e \in Dates \ {d} : judged.days[e] = opened.days[e]
        /\ decision = "carry" => judged = opened
        /\ decision = "credit" => judged.days[d].status = "completed"
        /\ decision \in {"miss", "freeze"} =>
              judged.days[d].status \in {"missed", "frozen_item"}
        /\ decision = "rest" => judged.days[d].status = "rest_day"
        /\ decision = "exempt" => judged.days[d].status = "exempt"
    BY <1>1, <1>3, ApplyRecord
  <1>8. judged \in AccountType
    <2>1. Sound(opened)
      BY GetOrCreateDaySound DEF opened
    <2> QED
      BY <1>1, <1>3, <2>1, ApplySound
  <1>9. b = [judged EXCEPT !.last_settled_date = d]
    BY DEF SettleDay, opened, decision
  <1> HIDE DEF judged, b
  <1>10. Record(b) = Record(judged) /\ b.days = judged.days
    BY <1>8, <1>9 DEF AccountType, Record
  <1>11. SameRecord(opened, b)
    BY <1>7, <1>10 DEF SameRecord
  <1>12. Quota(b.days[d]) = Quota(opened.days[d])
    BY <1>11 DEF SameRecord
  <1>13. /\ b.days[d].day_kind = day.day_kind
         /\ b.days[d].required_units = day.required_units
         /\ b.days[d].completed_units = day.completed_units
    BY <1>12 DEF Quota, day
  <1>14. Recorded(b)
    <2>1. CASE decision = "carry"
      <3>1. \A e \in Dates : b.days[e].status = opened.days[e].status
        BY <1>7, <1>10, <2>1
      <3> QED
        BY <1>2, <1>11, <3>1, SameRecordRecorded
    <2>2. CASE decision # "carry"
      <3>1. HasDay(b, d)
        BY <1>3, <1>7, <1>10, <2>2 DEF HasDay, Decisions
      <3>2. FairOn(b, d)
        BY <1>3, <1>6, <1>7, <1>10, <1>13, <2>2 DEF FairOn, Decisions
      <3>3. \A e \in Dates \ {d} : b.days[e] = opened.days[e]
        BY <1>7, <1>10
      <3> QED
        BY <1>2, <1>11, <3>1, <3>2, <3>3, FairVerdict
    <2> QED
      BY <2>1, <2>2
  <1>15. HasDay(b, d)
    BY <1>2, <1>3, <1>7, <1>10 DEF HasDay, Decisions
  <1>16. \A e \in Dates : HasDay(a, e) =>
            HasDay(b, e) /\ Quota(b.days[e]) = Quota(a.days[e])
    <2>1. \A e \in Dates \ {d} : b.days[e] = a.days[e]
      BY <1>2, <1>7, <1>10
    <2>2. HasDay(a, d) => Quota(b.days[d]) = Quota(a.days[d])
      BY <1>2, <1>12
    <2> QED
      BY <1>15, <2>1, <2>2 DEF HasDay
  <1>17. Record(b) = Record(a)
    BY <1>2, <1>11 DEF SameRecord
  <1> QED
    BY <1>14, <1>16, <1>17 DEF b

-----------------------------------------------------------------------------
\* What logging n units on day d leaves: one event more, its units on the day,
\* in the total and behind the cursor, and perhaps a day completed and a
\* tractate finished.
Logs(a, b, d, n, key, finished) ==
    LET i == PlanId(a)
        event == [key |-> key, plan_id |-> i, credited_local_date |-> d,
                  units |-> n, from_ordinal |-> Plan(a).current_ordinal]
    IN  /\ b.events = Append(a.events, event)
        /\ b.total_units_completed = a.total_units_completed + n
        /\ DOMAIN b.plans = DOMAIN a.plans
        /\ \A j \in DOMAIN a.plans \ {i} : b.plans[j] = a.plans[j]
        /\ b.plans[i].current_ordinal = Plan(a).current_ordinal + n
        /\ b.plans[i].mishnayot_count = Plan(a).mishnayot_count
        /\ b.plans[i].daily_goal = Plan(a).daily_goal
        /\ b.plans[i].status = IF finished THEN "completed" ELSE "active"
        /\ \A e \in Dates \ {d} : b.days[e] = a.days[e]
        /\ b.days[d].day_kind = a.days[d].day_kind
        /\ b.days[d].required_units = a.days[d].required_units
        /\ b.days[d].plan_id = a.days[d].plan_id
        /\ b.days[d].completed_units = a.days[d].completed_units + n
        /\ \/ b.days[d].status = a.days[d].status
           \/ /\ ~Resolved(a, d) /\ b.days[d].status = "completed"
              /\ b.days[d].completed_units >= GoalForDay(a, d) \/ finished

LEMMA RecordUnitsLogs ==
    ASSUME NEW a \in AccountType, NEW d \in Dates, NEW n \in Nat,
           NEW key \in RequestKeys, HasPlan(a)
    PROVE  /\ Logs(a, RecordUnits(a, d, n, key), d, n, key, FALSE)
           /\ RecordUnits(a, d, n, key).days[d].status = a.days[d].status
  <1> DEFINE b == RecordUnits(a, d, n, key)
             event == [key |-> key, plan_id |-> PlanId(a),
                       credited_local_date |-> d, units |-> n,
                       from_ordinal |-> Plan(a).current_ordinal]
             plan == [a.plans[PlanId(a)] EXCEPT !.current_ordinal = @ + n]
             day == [a.days[d] EXCEPT !.completed_units = @ + n]
             plans == [a.plans EXCEPT ![PlanId(a)] = plan]
             days == [a.days EXCEPT ![d] = day]
  <1>1. /\ PlanId(a) \in DOMAIN a.plans /\ Plan(a) = a.plans[PlanId(a)]
        /\ Plan(a) \in StudyPlan /\ Plan(a).status = "active"
    BY PlanExists DEF Plan
  <1>2. a.days \in [Dates -> StudyDay] /\ a.days[d] \in StudyDay
        /\ a.plans \in Seq(StudyPlan)
    BY DEF AccountType
  <1>3. /\ plan.current_ordinal = Plan(a).current_ordinal + n
        /\ plan.mishnayot_count = Plan(a).mishnayot_count
        /\ plan.daily_goal = Plan(a).daily_goal
        /\ plan.status = "active"
    BY <1>1 DEF StudyPlan
  <1>4. /\ day.day_kind = a.days[d].day_kind
        /\ day.required_units = a.days[d].required_units
        /\ day.plan_id = a.days[d].plan_id
        /\ day.completed_units = a.days[d].completed_units + n
        /\ day.status = a.days[d].status
    BY <1>2 DEF StudyDay
  <1> HIDE DEF plan, day
  <1>5. /\ DOMAIN plans = DOMAIN a.plans /\ plans[PlanId(a)] = plan
        /\ \A j \in DOMAIN a.plans \ {PlanId(a)} : plans[j] = a.plans[j]
    BY <1>1
  <1>6. days[d] = day /\ \A e \in Dates \ {d} : days[e] = a.days[e]
    BY <1>2
  <1>7. b = [a EXCEPT !.events = Append(@, event), !.plans = plans,
                      !.total_units_completed = @ + n, !.days = days]
    BY DEF RecordUnits, plan, day
  <1> HIDE DEF plans, days, event, b
  <1>8. /\ b.events = Append(a.events, event) /\ b.plans = plans
        /\ b.total_units_completed = a.total_units_completed + n
        /\ b.days = days
    BY <1>7 DEF AccountType
  <1> QED
    BY <1>3, <1>4, <1>5, <1>6, <1>8 DEF Logs, event, b

LEMMA LogStudyLogs ==
    ASSUME NEW a \in AccountType, NEW d \in Dates, NEW units \in Nat,
           NEW key \in RequestKeys, Sound(a), HasPlan(a), CanLog(a, d),
           NEW left, left = Plan(a).mishnayot_count - Plan(a).current_ordinal,
           NEW n, n = IF units < left THEN units ELSE left
    PROVE  Logs(a, LogStudy(a, d, units, key), d, n, key, units >= left)
  <1> DEFINE logged == RecordUnits(a, d, n, key)
             finished == units >= left
             enough == logged.days[d].completed_units >= GoalForDay(logged, d)
             credited == IF ~Resolved(logged, d) /\ (enough \/ finished)
                         THEN CreditDay(logged, d) ELSE logged
             i == PlanId(a)
             b == LogStudy(a, d, units, key)
  <1>1. n \in Nat /\ left \in Nat
    BY PlanExists DEF CanLog, StudyPlan
  <1>2. /\ logged \in AccountType /\ Sound(logged)
        /\ Logs(a, logged, d, n, key, FALSE)
        /\ logged.days[d].status = a.days[d].status
    BY <1>1, RecordUnitsSound, RecordUnitsLogs
  <1>3. b = IF finished
            THEN [credited EXCEPT !.plans[i].status = "completed"]
            ELSE credited
    BY DEF LogStudy
  <1> HIDE DEF logged
  <1>4. /\ i \in DOMAIN a.plans /\ i \in DOMAIN logged.plans
        /\ Plan(a) = a.plans[i]
    BY <1>2, PlanExists DEF Logs, Plan
  <1>5. ~Resolved(logged, d) <=> ~Resolved(a, d)
    BY <1>2 DEF Resolved
  <1>6. GoalForDay(logged, d) = GoalForDay(a, d)
    <2>1. logged.plans[i].status = "active" /\ a.plans[i].status = "active"
          /\ DOMAIN logged.plans = DOMAIN a.plans
          /\ \A j \in DOMAIN a.plans \ {i} : logged.plans[j] = a.plans[j]
      BY <1>2, <1>4, PlanExists DEF Logs
    <2>2. ActivePlans(logged) = ActivePlans(a)
      BY <2>1 DEF ActivePlans
    <2>3. Plan(logged).daily_goal = Plan(a).daily_goal
      BY <1>2, <2>2 DEF Plan, PlanId, Logs
    <2> QED
      BY <1>2, <2>3 DEF Logs, GoalForDay
  <1> HIDE DEF finished
  <1>7. /\ credited \in AccountType /\ Record(credited) = Record(logged)
        /\ \A e \in Dates \ {d} : credited.days[e] = logged.days[e]
        /\ Quota(credited.days[d]) = Quota(logged.days[d])
        /\ \/ credited.days[d].status = a.days[d].status
           \/ /\ ~Resolved(a, d) /\ credited.days[d].status = "completed"
              /\ enough \/ finished
    <2>1. CASE ~Resolved(logged, d) /\ (enough \/ finished)
      <3>1. credited = CreditDay(logged, d)
        BY <2>1
      <3> QED
        BY <1>2, <1>5, <2>1, <3>1, CreditDaySound, CreditDayRecord
           DEF SameRecord
    <2>2. CASE ~(~Resolved(logged, d) /\ (enough \/ finished))
      BY <1>2, <2>2
    <2> QED
      BY <2>1, <2>2
  <1> HIDE DEF credited
  <1> DEFINE plan == [credited.plans[i] EXCEPT !.status = "completed"]
  <1>8. /\ credited.plans = logged.plans /\ credited.events = logged.events
        /\ credited.total_units_completed = logged.total_units_completed
        /\ credited.plans \in Seq(StudyPlan) /\ i \in DOMAIN credited.plans
        /\ credited.plans[i] \in StudyPlan
    <2>1. /\ credited.plans = logged.plans /\ credited.events = logged.events
          /\ credited.total_units_completed = logged.total_units_completed
      BY <1>7 DEF Record
    <2>2. credited.plans \in Seq(StudyPlan)
      BY <1>7 DEF AccountType
    <2> QED
      BY <1>4, <2>1, <2>2
  <1>9. /\ b.events = logged.events /\ b.days = credited.days
        /\ b.total_units_completed = logged.total_units_completed
        /\ DOMAIN b.plans = DOMAIN logged.plans
        /\ \A j \in DOMAIN logged.plans \ {i} : b.plans[j] = logged.plans[j]
        /\ b.plans[i].current_ordinal = logged.plans[i].current_ordinal
        /\ b.plans[i].mishnayot_count = logged.plans[i].mishnayot_count
        /\ b.plans[i].daily_goal = logged.plans[i].daily_goal
        /\ b.plans[i].status = IF finished THEN "completed"
                                           ELSE logged.plans[i].status
    <2>1. CASE finished
      <3>1. /\ plan.current_ordinal = logged.plans[i].current_ordinal
            /\ plan.mishnayot_count = logged.plans[i].mishnayot_count
            /\ plan.daily_goal = logged.plans[i].daily_goal
            /\ plan.status = "completed"
        BY <1>8 DEF StudyPlan
      <3> HIDE DEF plan
      <3>2. b = [credited EXCEPT !.plans = [credited.plans EXCEPT ![i] = plan]]
        BY <1>3, <2>1 DEF plan
      <3>3. /\ b.plans = [credited.plans EXCEPT ![i] = plan]
            /\ b.events = credited.events /\ b.days = credited.days
            /\ b.total_units_completed = credited.total_units_completed
        BY <1>7, <3>2 DEF AccountType
      <3> QED
        BY <1>8, <2>1, <3>1, <3>3
    <2>2. CASE ~finished
      BY <1>3, <1>8, <2>2
    <2> QED
      BY <2>1, <2>2
  <1> HIDE DEF b
  <1>10. /\ b.events = Append(a.events,
                              [key |-> key, plan_id |-> i,
                               credited_local_date |-> d, units |-> n,
                               from_ordinal |-> Plan(a).current_ordinal])
         /\ b.total_units_completed = a.total_units_completed + n
         /\ DOMAIN b.plans = DOMAIN a.plans
         /\ \A j \in DOMAIN a.plans \ {i} : b.plans[j] = a.plans[j]
         /\ b.plans[i].current_ordinal = Plan(a).current_ordinal + n
         /\ b.plans[i].mishnayot_count = Plan(a).mishnayot_count
         /\ b.plans[i].daily_goal = Plan(a).daily_goal
         /\ b.plans[i].status = IF finished THEN "completed" ELSE "active"
    BY <1>2, <1>9 DEF Logs
  <1>11. /\ \A e \in Dates \ {d} : b.days[e] = a.days[e]
         /\ b.days[d].day_kind = a.days[d].day_kind
         /\ b.days[d].required_units = a.days[d].required_units
         /\ b.days[d].plan_id = a.days[d].plan_id
         /\ b.days[d].completed_units = a.days[d].completed_units + n
    BY <1>2, <1>7, <1>9 DEF Logs, Quota
  <1>12. \/ b.days[d].status = a.days[d].status
         \/ /\ ~Resolved(a, d) /\ b.days[d].status = "completed"
            /\ b.days[d].completed_units >= GoalForDay(a, d) \/ finished
    <2>1. b.days[d].completed_units = logged.days[d].completed_units
      BY <1>7, <1>9 DEF Quota
    <2> QED
      BY <1>6, <1>7, <1>9, <2>1
  <1> QED
    BY <1>10, <1>11, <1>12 DEF Logs, b, finished

\* The sums of units that the models take are these sums.
LEMMA UnitsAreSums ==
    ASSUME NEW a \in AccountType, NEW S \in SUBSET DOMAIN a.events
    PROVE  /\ MapThenSumSet(LAMBDA i : a.events[i].units, S)
                 = SumOf(Units(a), S)
           /\ IsFiniteSet(S) /\ SumOf(Units(a), S) \in Int
           /\ \A i \in S : Units(a)[i] \in Nat
  <1>1. /\ IsFiniteSet(S)
        /\ \A i \in S : Units(a)[i] = a.events[i].units /\ Units(a)[i] \in Nat
    <2>1. a.events \in Seq(StudyEvent) /\ Len(a.events) \in Nat
          /\ DOMAIN a.events = 1..Len(a.events)
      BY DEF AccountType
    <2>2. IsFiniteSet(1..Len(a.events))
      BY <2>1, FS_Interval
    <2>3. \A i \in S : a.events[i] \in StudyEvent
      BY <2>1
    <2>4. \A i \in S : a.events[i].units \in Nat
      BY <2>3 DEF StudyEvent
    <2> QED
      BY <2>1, <2>2, <2>4, FS_Subset DEF Units
  <1> DEFINE Worth(sum) == sum = [s \in SUBSET S |->
                                   IF s = {} THEN 0
                                   ELSE a.events[First(s)].units
                                        + sum[s \ {First(s)}]]
             f == CHOOSE sum : Worth(sum)
  <1>2. MapThenSumSet(LAMBDA i : a.events[i].units, S) = f[S]
    BY DEF MapThenSumSet, MapThenFoldSet, First
  <1>3. \A s \in SUBSET S : s # {} =>
           Units(a)[First(s)] = a.events[First(s)].units
    BY <1>1 DEF First
  <1>4. \A sum : Worth(sum) <=> Summing(Units(a), S, sum)
    BY <1>3 DEF Summing, First
  <1>5. Summing(Units(a), S, f)
    BY <1>1, <1>4, SumExists
  <1> HIDE DEF f
  <1>6. f[S] = SumOf(Units(a), S)
    BY <1>1, <1>5, SumIs
  <1>7. SumOf(Units(a), S) \in Int
    BY <1>1, SumInteger
  <1> QED
    BY <1>1, <1>2, <1>6, <1>7

\* One event more adds its units to every sum it belongs to, and leaves the
\* others.
EventAdded(a, b, event, last) ==
    /\ DOMAIN b.events = DOMAIN a.events \cup {last}
    /\ last \notin DOMAIN a.events /\ b.events[last] = event
    /\ \A i \in DOMAIN a.events : b.events[i] = a.events[i]
    /\ \A S \in SUBSET DOMAIN a.events :
          /\ SumOf(Units(b), S) = SumOf(Units(a), S)
          /\ SumOf(Units(b), S \cup {last}) = event.units + SumOf(Units(a), S)

LEMMA EventAppended ==
    ASSUME NEW a \in AccountType, NEW b, NEW event, event.units \in Nat,
           b.events = Append(a.events, event)
    PROVE  EventAdded(a, b, event, Len(a.events) + 1)
  <1> DEFINE last == Len(a.events) + 1
  <1>1. a.events \in Seq(StudyEvent) /\ Len(a.events) \in Nat
        /\ DOMAIN a.events = 1..Len(a.events)
    BY DEF AccountType
  <1>2. /\ DOMAIN b.events = DOMAIN a.events \cup {last}
        /\ last \notin DOMAIN a.events /\ b.events[last] = event
        /\ \A i \in DOMAIN a.events : b.events[i] = a.events[i]
    BY <1>1, AppendProperties
  <1>3. \A i \in DOMAIN a.events :
           /\ Units(a)[i] \in Int /\ Units(b)[i] = Units(a)[i]
           /\ Units(b)[i] \in Int
    <2>1. \A i \in DOMAIN a.events : a.events[i] \in StudyEvent
      BY <1>1
    <2>2. \A i \in DOMAIN a.events : a.events[i].units \in Nat
      BY <2>1 DEF StudyEvent
    <2> QED
      BY <1>2, <2>2 DEF Units
  <1>4. Units(b)[last] = event.units /\ event.units \in Int
    BY <1>2 DEF Units
  <1>5. ASSUME NEW S \in SUBSET DOMAIN a.events
        PROVE  /\ SumOf(Units(b), S) = SumOf(Units(a), S)
               /\ SumOf(Units(b), S \cup {last})
                     = event.units + SumOf(Units(a), S)
    <2>1. IsFiniteSet(S)
      <3>1. IsFiniteSet(1..Len(a.events))
        BY <1>1, FS_Interval
      <3> QED
        BY <1>1, <3>1, FS_Subset
    <2>2. SumOf(Units(b), S) = SumOf(Units(a), S)
      BY <1>3, <2>1, SumSame
    <2>3. last \notin S /\ \A e \in S \cup {last} : Units(b)[e] \in Int
      BY <1>2, <1>3, <1>4
    <2>4. SumOf(Units(b), S \cup {last})
             = Units(b)[last] + SumOf(Units(b), S)
      BY <2>1, <2>3, SumAdds
    <2> QED
      BY <1>4, <2>2, <2>4
  <1> QED
    BY <1>2, <1>5 DEF EventAdded

\* Logging keeps the account recorded: what is left of the tractate bounds what
\* is logged, and a day is completed only by its quota or by the end of the
\* tractate.
LEMMA LogsRecorded ==
    ASSUME NEW a \in AccountType, NEW b, NEW d \in Dates, NEW n \in Nat,
           NEW key \in RequestKeys, HasPlan(a), Recorded(a), HasDay(a, d),
           CanLog(a, d), ~Replayed(a, key), NEW finished \in BOOLEAN,
           Logs(a, b, d, n, key, finished),
           Plan(a).current_ordinal + n <= Plan(a).mishnayot_count,
           ~finished => Plan(a).current_ordinal + n < Plan(a).mishnayot_count
    PROVE  Recorded(b)
  <1> DEFINE i == PlanId(a)
             last == Len(a.events) + 1
             event == [key |-> key, plan_id |-> i, credited_local_date |-> d,
                       units |-> n, from_ordinal |-> Plan(a).current_ordinal]
  <1>1. /\ i \in DOMAIN a.plans /\ Plan(a) = a.plans[i]
        /\ a.plans[i].status = "active" /\ a.plans[i] \in StudyPlan
    BY PlanExists DEF Plan
  <1>2. /\ event.key = key /\ event.plan_id = i /\ event.units = n
        /\ event.credited_local_date = d
        /\ event.from_ordinal = Plan(a).current_ordinal
    OBVIOUS
  <1>3. /\ b.events = Append(a.events, event)
        /\ b.total_units_completed = a.total_units_completed + n
        /\ DOMAIN b.plans = DOMAIN a.plans
        /\ \A j \in DOMAIN a.plans \ {i} : b.plans[j] = a.plans[j]
        /\ b.plans[i].current_ordinal = a.plans[i].current_ordinal + n
        /\ b.plans[i].mishnayot_count = a.plans[i].mishnayot_count
        /\ b.plans[i].status = IF finished THEN "completed" ELSE "active"
    BY <1>1 DEF Logs
  <1> HIDE DEF event, i
  <1>4. /\ DOMAIN b.events = DOMAIN a.events \cup {last}
        /\ last \notin DOMAIN a.events /\ b.events[last] = event
        /\ \A k \in DOMAIN a.events : b.events[k] = a.events[k]
        /\ \A S \in SUBSET DOMAIN a.events :
              /\ SumOf(Units(b), S) = SumOf(Units(a), S)
              /\ SumOf(Units(b), S \cup {last}) = n + SumOf(Units(a), S)
    <2>1. EventAdded(a, b, event, last)
      BY <1>2, <1>3, EventAppended
    <2> QED
      BY <1>2, <2>1 DEF EventAdded
  <1>5. /\ \A e \in Dates \ {d} : b.days[e] = a.days[e]
        /\ b.days[d].day_kind = a.days[d].day_kind
        /\ b.days[d].required_units = a.days[d].required_units
        /\ b.days[d].completed_units = a.days[d].completed_units + n
        /\ \/ b.days[d].status = a.days[d].status
           \/ /\ ~Resolved(a, d) /\ b.days[d].status = "completed"
              /\ b.days[d].completed_units >= GoalForDay(a, d) \/ finished
    BY DEF Logs
  <1>6. a.days[d].required_units \in Nat /\ a.days[d].completed_units \in Nat
    BY DEF AccountType, StudyDay
  <1> HIDE DEF last
  <1>7. HasDay(b, d) /\ \A e \in Dates \ {d} : HasDay(b, e) <=> HasDay(a, e)
    BY <1>5 DEF HasDay
  <1>8. QuotaStands(b)
    BY <1>5, <1>7 DEF Recorded, QuotaStands
  <1>9. \A e \in Dates : EndsTractateOn(a, e) => EndsTractateOn(b, e)
    <2> SUFFICES ASSUME NEW e \in Dates, EndsTractateOn(a, e)
                 PROVE  EndsTractateOn(b, e)
      OBVIOUS
    <2>1. PICK k \in DOMAIN a.events :
             /\ a.events[k].credited_local_date = e
             /\ a.plans[a.events[k].plan_id].status = "completed"
      BY DEF EndsTractateOn
    <2>2. a.events[k].plan_id \in DOMAIN a.plans \ {i}
      BY <1>1, <2>1 DEF Recorded, EventsInside
    <2> QED
      BY <1>3, <1>4, <2>1, <2>2 DEF EndsTractateOn
  <1>10. FairOn(b, d)
    <2>1. CASE b.days[d].status = a.days[d].status
      <3>1. b.days[d].status \notin {"missed", "frozen_item"}
        BY <2>1 DEF CanLog, Resolved, TerminalStatuses, NeutralStatuses
      <3>2. b.days[d].status = "completed" =>
               \/ a.days[d].completed_units >= a.days[d].required_units
               \/ EndsTractateOn(b, d)
        BY <1>9, <2>1 DEF Recorded, JudgedFairly, FairOn
      <3> QED
        BY <1>5, <1>6, <3>1, <3>2 DEF FairOn
    <2>2. CASE b.days[d].status = "completed"
               /\ b.days[d].completed_units >= GoalForDay(a, d)
      <3>1. b.days[d].completed_units >= b.days[d].required_units
        BY <1>5, <1>6, <2>2 DEF GoalForDay
      <3> QED
        BY <2>2, <3>1 DEF FairOn
    <2>3. CASE b.days[d].status = "completed" /\ finished
      <3>1. EndsTractateOn(b, d)
        BY <1>2, <1>3, <1>4, <2>3 DEF EndsTractateOn
      <3> QED
        BY <2>3, <3>1 DEF FairOn
    <2> QED
      BY <1>5, <2>1, <2>2, <2>3
  <1>11. JudgedFairly(b)
    <2>1. \A e \in Dates \ {d} : FairOn(b, e)
      BY <1>5, <1>9 DEF Recorded, JudgedFairly, FairOn
    <2> QED
      BY <1>10, <2>1 DEF JudgedFairly
  <1>12. UnitsAddUp(b)
    <2>1. EventsOn(b, d) = EventsOn(a, d) \cup {last}
      BY <1>2, <1>4 DEF EventsOn
    <2>2. \A e \in Dates \ {d} : EventsOn(b, e) = EventsOn(a, e)
      BY <1>2, <1>4 DEF EventsOn
    <2>3. /\ DOMAIN a.events \in SUBSET DOMAIN a.events
          /\ \A e : EventsOn(a, e) \in SUBSET DOMAIN a.events
      BY DEF EventsOn
    <2>4. /\ a.total_units_completed = SumOf(Units(a), DOMAIN a.events)
          /\ \A e \in Dates :
                a.days[e].completed_units = SumOf(Units(a), EventsOn(a, e))
          /\ a.total_units_completed \in Nat
      BY DEF Recorded, UnitsAddUp, AccountType
    <2>5. b.total_units_completed = SumOf(Units(b), DOMAIN b.events)
      <3>1. SumOf(Units(b), DOMAIN a.events \cup {last})
               = n + a.total_units_completed
        BY <1>4, <2>3, <2>4
      <3> QED
        BY <1>3, <1>4, <2>4, <3>1
    <2>6. b.days[d].completed_units = SumOf(Units(b), EventsOn(b, d))
      BY <1>4, <1>5, <1>6, <2>1, <2>3, <2>4
    <2>7. \A e \in Dates \ {d} :
             b.days[e].completed_units = SumOf(Units(b), EventsOn(b, e))
      BY <1>4, <1>5, <2>2, <2>3, <2>4
    <2> QED
      BY <2>5, <2>6, <2>7 DEF UnitsAddUp
  <1>13. KeysOnce(b)
    <2>1. \A k \in DOMAIN a.events : a.events[k].key # key \/ key = NoKey
      BY DEF Replayed
    <2> QED
      BY <1>2, <1>4, <2>1 DEF Recorded, KeysOnce
  <1>14. EventsInside(b)
    <2>1. event.from_ordinal + event.units
             <= b.plans[event.plan_id].mishnayot_count
      BY <1>1, <1>2, <1>3
    <2>2. \A j \in DOMAIN a.plans :
             b.plans[j].mishnayot_count = a.plans[j].mishnayot_count
      BY <1>3
    <2>3. event.plan_id \in DOMAIN b.plans
      BY <1>1, <1>2, <1>3
    <2> QED
      BY <1>3, <1>4, <2>1, <2>2, <2>3 DEF Recorded, EventsInside
  <1>15. ActivePlans(b) \subseteq ActivePlans(a)
    BY <1>1, <1>3 DEF ActivePlans
  <1>16. SomethingLeft(b)
    <2>1. i \in ActivePlans(b) =>
             b.plans[i].current_ordinal < b.plans[i].mishnayot_count
      BY <1>1, <1>3 DEF ActivePlans
    <2> QED
      BY <1>3, <1>15, <2>1 DEF Recorded, SomethingLeft, ActivePlans
  <1>17. OneActive(b)
    BY <1>15 DEF Recorded, OneActive
  <1> QED
    BY <1>8, <1>11, <1>12, <1>13, <1>14, <1>16, <1>17 DEF Recorded

LEMMA LogStudyRecord ==
    ASSUME NEW a \in AccountType, NEW d \in Dates, NEW units \in Nat,
           NEW key \in RequestKeys, Sound(a), HasPlan(a), Recorded(a),
           HasDay(a, d), CanLog(a, d), ~Replayed(a, key)
    PROVE  Recorded(LogStudy(a, d, units, key))
  <1> DEFINE left == Plan(a).mishnayot_count - Plan(a).current_ordinal
             n == IF units < left THEN units ELSE left
             finished == units >= left
             b == LogStudy(a, d, units, key)
  <1>1. /\ Plan(a).mishnayot_count \in Nat /\ Plan(a).current_ordinal \in Nat
        /\ Plan(a).current_ordinal < Plan(a).mishnayot_count
    BY PlanExists DEF CanLog, StudyPlan
  <1>2. Logs(a, b, d, n, key, finished)
    BY LogStudyLogs
  <1> HIDE DEF b
  <1>3. /\ n \in Nat /\ finished \in BOOLEAN
        /\ Plan(a).current_ordinal + n <= Plan(a).mishnayot_count
        /\ ~finished =>
              Plan(a).current_ordinal + n < Plan(a).mishnayot_count
    BY <1>1
  <1> HIDE DEF n, finished
  <1>4. Recorded(b)
    BY <1>2, <1>3, LogsRecorded
  <1> QED
    BY <1>4 DEF b

-----------------------------------------------------------------------------
\* Re-planning keeps the account recorded when it leaves the events and the
\* units, the size and the end of every tractate, and rewrites only open rows.
Replans(a, b) ==
    /\ b.events = a.events
    /\ b.total_units_completed = a.total_units_completed
    /\ DOMAIN a.plans \subseteq DOMAIN b.plans
    /\ \A j \in DOMAIN a.plans :
          /\ b.plans[j].mishnayot_count = a.plans[j].mishnayot_count
          /\ a.plans[j].status = "completed" => b.plans[j].status = "completed"
    /\ \A d \in Dates :
          \/ b.days[d] = a.days[d]
          \/ /\ a.days[d].status = "pending" /\ b.days[d].status = "pending"
             /\ b.days[d].completed_units = a.days[d].completed_units
             /\ b.days[d].day_kind = "weekday" =>
                   b.days[d].required_units > 0

LEMMA ReplansRecorded ==
    ASSUME NEW a, NEW b, Recorded(a), Replans(a, b),
           SomethingLeft(b), OneActive(b)
    PROVE  Recorded(b)
  <1>1. /\ Units(b) = Units(a) /\ b.events = a.events
        /\ \A e : EventsOn(b, e) = EventsOn(a, e)
    BY DEF Replans, Units, EventsOn
  <1>2. QuotaStands(b)
    BY DEF Replans, Recorded, QuotaStands, HasDay
  <1>3. \A e \in Dates : EndsTractateOn(a, e) => EndsTractateOn(b, e)
    BY DEF Replans, Recorded, EventsInside, EndsTractateOn
  <1>4. JudgedFairly(b)
    BY <1>3 DEF Replans, Recorded, JudgedFairly, FairOn
  <1>5. UnitsAddUp(b)
    BY <1>1 DEF Replans, Recorded, UnitsAddUp
  <1>6. EventsInside(b)
    <2> SUFFICES ASSUME NEW k \in DOMAIN b.events
                 PROVE  LET event == b.events[k] IN
                        /\ event.plan_id \in DOMAIN b.plans
                        /\ event.from_ordinal + event.units
                              <= b.plans[event.plan_id].mishnayot_count
      BY DEF EventsInside
    <2>1. LET event == a.events[k] IN
             /\ event.plan_id \in DOMAIN a.plans
             /\ event.from_ordinal + event.units
                   <= a.plans[event.plan_id].mishnayot_count
      BY <1>1 DEF Recorded, EventsInside
    <2> QED
      BY <1>1, <2>1 DEF Replans
  <1>7. KeysOnce(b)
    BY <1>1 DEF Recorded, KeysOnce
  <1> QED
    BY <1>2, <1>4, <1>5, <1>6, <1>7 DEF Recorded

\* The plan i takes another row, of the same tractate.
LEMMA PlanReplans ==
    ASSUME NEW a \in AccountType, NEW b, NEW i \in ActivePlans(a), NEW plan,
           b.plans = [a.plans EXCEPT ![i] = plan],
           plan.mishnayot_count = a.plans[i].mishnayot_count,
           plan.status = "active" =>
              plan.current_ordinal < plan.mishnayot_count,
           Recorded(a)
    PROVE  /\ DOMAIN b.plans = DOMAIN a.plans
           /\ \A j \in DOMAIN a.plans :
                 /\ b.plans[j].mishnayot_count = a.plans[j].mishnayot_count
                 /\ a.plans[j].status = "completed" =>
                       b.plans[j].status = "completed"
           /\ SomethingLeft(b) /\ OneActive(b)
           /\ ActivePlans(b) = IF plan.status = "active" THEN ActivePlans(a)
                                                         ELSE {}
  <1>1. /\ i \in DOMAIN a.plans /\ a.plans[i].status = "active"
        /\ \A j \in ActivePlans(a) : j = i
    BY DEF ActivePlans, Recorded, OneActive
  <1>2. /\ DOMAIN b.plans = DOMAIN a.plans /\ b.plans[i] = plan
        /\ \A j \in DOMAIN a.plans \ {i} : b.plans[j] = a.plans[j]
    BY <1>1
  <1>3. ActivePlans(b) = IF plan.status = "active" THEN ActivePlans(a) ELSE {}
    BY <1>1, <1>2 DEF ActivePlans
  <1>4. SomethingLeft(b) /\ OneActive(b)
    BY <1>1, <1>2, <1>3 DEF SomethingLeft, OneActive
  <1>5. \A j \in DOMAIN a.plans :
           /\ b.plans[j].mishnayot_count = a.plans[j].mishnayot_count
           /\ a.plans[j].status = "completed" =>
                 b.plans[j].status = "completed"
    BY <1>1, <1>2
  <1> QED
    BY <1>2, <1>3, <1>4, <1>5

LEMMA ChangeGoalRecord ==
    ASSUME NEW a \in AccountType, NEW goal \in Nat \ {0}, NEW d \in Dates,
           HasPlan(a), Recorded(a)
    PROVE  Recorded(ChangeGoal(a, goal, d))
  <1> DEFINE b == ChangeGoal(a, goal, d)
             i == PlanId(a)
             kind == ClassifyDay(d, a.study_week)
             required == RequiredUnitsFor(kind, goal)
             row == [a.days[d] EXCEPT !.day_kind = kind,
                                      !.required_units = required]
             days == IF a.days[d].status = "pending"
                     THEN [a.days EXCEPT ![d] = row] ELSE a.days
             plan == [a.plans[i] EXCEPT !.daily_goal = goal]
  <1>1. /\ i \in ActivePlans(a) /\ a.plans[i] \in StudyPlan
        /\ a.plans[i].status = "active"
    BY PlanExists DEF Plan, ActivePlans
  <1>2. a.days \in [Dates -> StudyDay] /\ a.days[d] \in StudyDay
    BY DEF AccountType
  <1>3. kind = "weekday" => required > 0
    BY DEF RequiredUnitsFor
  <1> HIDE DEF kind, required
  <1>4. /\ row.status = a.days[d].status
        /\ row.completed_units = a.days[d].completed_units
        /\ row.day_kind = "weekday" => row.required_units > 0
    BY <1>2, <1>3 DEF StudyDay
  <1>5. /\ plan.mishnayot_count = a.plans[i].mishnayot_count
        /\ plan.status = "active"
        /\ plan.current_ordinal < plan.mishnayot_count
    BY <1>1 DEF StudyPlan, Recorded, SomethingLeft
  <1> HIDE DEF row, plan
  <1>6. \A e \in Dates :
           \/ days[e] = a.days[e]
           \/ e = d /\ a.days[e].status = "pending" /\ days[e] = row
    BY <1>2
  <1>7. b = [a EXCEPT !.plans = [a.plans EXCEPT ![i] = plan], !.days = days]
    BY DEF ChangeGoal, kind, required, row, plan
  <1> HIDE DEF days, b, i
  <1>8. /\ b.plans = [a.plans EXCEPT ![i] = plan] /\ b.days = days
        /\ b.events = a.events
        /\ b.total_units_completed = a.total_units_completed
    BY <1>7 DEF AccountType
  <1>9. /\ DOMAIN b.plans = DOMAIN a.plans
        /\ \A j \in DOMAIN a.plans :
              /\ b.plans[j].mishnayot_count = a.plans[j].mishnayot_count
              /\ a.plans[j].status = "completed" =>
                    b.plans[j].status = "completed"
        /\ SomethingLeft(b) /\ OneActive(b)
    BY <1>1, <1>5, <1>8, PlanReplans
  <1>10. Replans(a, b)
    BY <1>4, <1>6, <1>8, <1>9 DEF Replans
  <1>11. Recorded(b)
    BY <1>9, <1>10, ReplansRecorded
  <1> QED
    BY <1>11 DEF b

LEMMA SetPositionRecord ==
    ASSUME NEW a \in AccountType, NEW ordinal \in Nat, HasPlan(a),
           Recorded(a), ordinal < Plan(a).mishnayot_count
    PROVE  Recorded(SetPosition(a, ordinal))
  <1> DEFINE b == SetPosition(a, ordinal)
             i == PlanId(a)
             plan == [a.plans[i] EXCEPT !.current_ordinal = ordinal]
  <1>1. /\ i \in ActivePlans(a) /\ a.plans[i] \in StudyPlan
        /\ Plan(a) = a.plans[i]
    BY PlanExists DEF Plan, ActivePlans
  <1>2. /\ plan.mishnayot_count = a.plans[i].mishnayot_count
        /\ plan.current_ordinal < plan.mishnayot_count
    BY <1>1 DEF StudyPlan
  <1> HIDE DEF plan
  <1>3. b = [a EXCEPT !.plans = [a.plans EXCEPT ![i] = plan]]
    BY DEF SetPosition, plan
  <1> HIDE DEF b, i
  <1>4. /\ b.plans = [a.plans EXCEPT ![i] = plan] /\ b.days = a.days
        /\ b.events = a.events
        /\ b.total_units_completed = a.total_units_completed
    BY <1>3 DEF AccountType
  <1>5. /\ DOMAIN b.plans = DOMAIN a.plans
        /\ \A j \in DOMAIN a.plans :
              /\ b.plans[j].mishnayot_count = a.plans[j].mishnayot_count
              /\ a.plans[j].status = "completed" =>
                    b.plans[j].status = "completed"
        /\ SomethingLeft(b) /\ OneActive(b)
    BY <1>1, <1>2, <1>4, PlanReplans
  <1>6. Replans(a, b)
    BY <1>4, <1>5 DEF Replans
  <1>7. Recorded(b)
    BY <1>5, <1>6, ReplansRecorded
  <1> QED
    BY <1>7 DEF b

LEMMA AbandonRecord ==
    ASSUME NEW a \in AccountType, Recorded(a)
    PROVE  Recorded(Abandon(a)) /\ ~HasPlan(Abandon(a))
  <1> DEFINE b == Abandon(a)
             i == PlanId(a)
             plan == [a.plans[i] EXCEPT !.status = "abandoned"]
  <1>1. CASE ~HasPlan(a)
    BY <1>1 DEF Abandon
  <1>2. CASE HasPlan(a)
    <2>1. i \in ActivePlans(a) /\ a.plans[i] \in StudyPlan
      BY <1>2, PlanExists DEF Plan, ActivePlans
    <2>2. /\ plan.mishnayot_count = a.plans[i].mishnayot_count
          /\ plan.status = "abandoned"
      BY <2>1 DEF StudyPlan
    <2> HIDE DEF plan
    <2>3. b = [a EXCEPT !.plans = [a.plans EXCEPT ![i] = plan]]
      BY <1>2 DEF Abandon, plan
    <2> HIDE DEF b, i
    <2>4. /\ b.plans = [a.plans EXCEPT ![i] = plan] /\ b.days = a.days
          /\ b.events = a.events
          /\ b.total_units_completed = a.total_units_completed
      BY <2>3 DEF AccountType
    <2>5. /\ DOMAIN b.plans = DOMAIN a.plans
          /\ \A j \in DOMAIN a.plans :
                /\ b.plans[j].mishnayot_count = a.plans[j].mishnayot_count
                /\ a.plans[j].status = "completed" =>
                      b.plans[j].status = "completed"
          /\ SomethingLeft(b) /\ OneActive(b) /\ ActivePlans(b) = {}
      BY <2>1, <2>2, <2>4, PlanReplans
    <2>6. Replans(a, b)
      BY <2>4, <2>5 DEF Replans
    <2>7. Recorded(b) /\ ~HasPlan(b)
      BY <2>5, <2>6, ReplansRecorded DEF HasPlan
    <2> QED
      BY <2>7 DEF b
  <1> QED
    BY <1>1, <1>2

LEMMA CreatePlanRecord ==
    ASSUME NEW a \in AccountType, NEW goal \in Nat \ {0},
           NEW size \in Nat \ {0}, NEW start, NEW created, Recorded(a),
           ~HasPlan(a)
    PROVE  LET b == CreatePlan(a, goal, size, start, created)
           IN  Recorded(b) /\ Plan(b).mishnayot_count = size
  <1> DEFINE plan == [daily_goal |-> goal, start_date |-> start,
                      created |-> created, current_ordinal |-> 0,
                      mishnayot_count |-> size, status |-> "active"]
             b == CreatePlan(a, goal, size, start, created)
             n == Len(a.plans)
  <1>1. /\ plan.mishnayot_count = size /\ plan.status = "active"
        /\ plan.current_ordinal < plan.mishnayot_count
    OBVIOUS
  <1>2. b = [a EXCEPT !.plans = Append(a.plans, plan)]
    BY DEF CreatePlan
  <1> HIDE DEF b, plan
  <1>3. /\ b.plans = Append(a.plans, plan) /\ b.days = a.days
        /\ b.events = a.events
        /\ b.total_units_completed = a.total_units_completed
    BY <1>2 DEF AccountType
  <1>4. /\ DOMAIN b.plans = DOMAIN a.plans \cup {n + 1}
        /\ \A i \in DOMAIN a.plans : b.plans[i] = a.plans[i]
        /\ b.plans[n + 1] = plan
    <2>1. a.plans \in Seq(StudyPlan) /\ DOMAIN a.plans = 1..n /\ n \in Nat
      BY DEF AccountType
    <2> QED
      BY <1>3, <2>1, AppendProperties
  <1>5. ActivePlans(b) = {n + 1}
    BY <1>1, <1>4 DEF ActivePlans, HasPlan
  <1>6. SomethingLeft(b) /\ OneActive(b)
    BY <1>1, <1>4, <1>5 DEF SomethingLeft, OneActive
  <1>7. Replans(a, b)
    BY <1>3, <1>4 DEF Replans
  <1>8. Recorded(b)
    BY <1>6, <1>7, ReplansRecorded
  <1>9. Plan(b).mishnayot_count = size
    BY <1>1, <1>4, <1>5 DEF Plan, PlanId
  <1> QED
    BY <1>8, <1>9 DEF b

LEMMA SwitchTractateRecord ==
    ASSUME NEW a \in AccountType, NEW goal \in Nat \ {0},
           NEW size \in Nat \ {0}, NEW ordinal \in Nat, ordinal < size,
           NEW utcDate \in Dates, NEW created \in Dates, Sound(a),
           Recorded(a)
    PROVE  Recorded(SwitchTractate(a, goal, size, ordinal, utcDate, created))
  <1> DEFINE left == Abandon(a)
             fresh == CreatePlan(left, goal, size, utcDate, created)
             placed == SetPosition(fresh, ordinal)
             b == ChangeGoal(placed, goal, utcDate)
  <1>0. SwitchTractate(a, goal, size, ordinal, utcDate, created) = b
    BY DEF SwitchTractate
  <1>1. /\ left \in AccountType /\ Sound(left)
        /\ Recorded(left) /\ ~HasPlan(left)
    BY AbandonSound, AbandonRecord
  <1> HIDE DEF left, b
  <1>2. /\ fresh \in AccountType /\ Sound(fresh) /\ HasPlan(fresh)
        /\ Recorded(fresh) /\ ordinal < Plan(fresh).mishnayot_count
    BY <1>1, CreatePlanSound, CreatePlanRecord
  <1> HIDE DEF fresh
  <1>3. /\ placed \in AccountType /\ HasPlan(placed) /\ Recorded(placed)
    BY <1>2, SetPositionSound, SetPositionRecord
  <1> HIDE DEF placed
  <1>4. Recorded(b)
    BY <1>3, ChangeGoalRecord DEF b
  <1> QED
    BY <1>0, <1>4

\* Buying is not studying.
LEMMA PurchaseRecord ==
    ASSUME NEW a \in AccountType, NEW key \in RequestKeys, Recorded(a)
    PROVE  Recorded(Purchase(a, key))
  <1> DEFINE b == Purchase(a, key)
  <1>1. Record(b) = Record(a) /\ b.days = a.days
    BY DEF Purchase, PostTransaction, Record, AccountType
  <1> HIDE DEF b
  <1>2. Recorded(b)
    BY <1>1, SameRecordRecorded DEF SameRecord
  <1> QED
    BY <1>2 DEF b

LEMMA NewAccountRecord ==
    ASSUME NEW week, NEW zone
    PROVE  Recorded(NewAccount(week, zone))
  <1> DEFINE a == NewAccount(week, zone)
  <1>1. /\ a.events = <<>> /\ a.plans = <<>> /\ a.total_units_completed = 0
        /\ \A d \in Dates : a.days[d] = NoDay
    BY DEF NewAccount
  <1> HIDE DEF a
  <1>2. DOMAIN a.events = {} /\ DOMAIN a.plans = {}
    BY <1>1
  <1>3. QuotaStands(a) /\ JudgedFairly(a)
    BY <1>1 DEF QuotaStands, JudgedFairly, FairOn, HasDay, NoDay
  <1>4. SumOf(Units(a), {}) = 0
    BY FS_EmptySet, SumUnfolds
  <1>5. UnitsAddUp(a)
    <2>1. \A d : EventsOn(a, d) = {}
      BY <1>2 DEF EventsOn
    <2>2. \A d \in Dates : a.days[d].completed_units = 0
      BY <1>1 DEF NoDay
    <2>3. a.total_units_completed = SumOf(Units(a), DOMAIN a.events)
      BY <1>1, <1>2, <1>4
    <2>4. \A d \in Dates :
             a.days[d].completed_units = SumOf(Units(a), EventsOn(a, d))
      BY <1>4, <2>1, <2>2
    <2> QED
      BY <2>3, <2>4 DEF UnitsAddUp
  <1>6. KeysOnce(a) /\ EventsInside(a) /\ SomethingLeft(a) /\ OneActive(a)
    BY <1>2 DEF KeysOnce, EventsInside, SomethingLeft, OneActive, ActivePlans
  <1>7. Recorded(a)
    BY <1>3, <1>5, <1>6 DEF Recorded
  <1> QED
    BY <1>7 DEF a
-----------------------------------------------------------------------------
\* From a to b the ledger has only got longer.
Grows(a, b) ==
    /\ Len(a.ledger) <= Len(b.ledger)
    /\ \A i \in 1..Len(a.ledger) : b.ledger[i] = a.ledger[i]

\* An operation that posts at most one transaction.
PostsOnce(a, b) ==
    \/ b.ledger = a.ledger
    \/ \E txn : b.ledger = Append(a.ledger, txn)

LEMMA PostsOnceGrows ==
    ASSUME NEW a \in AccountType, NEW b, PostsOnce(a, b)
    PROVE  Grows(a, b)
  <1>1. a.ledger \in Seq(PointTransaction) /\ Len(a.ledger) \in Nat
    BY LenProperties DEF AccountType
  <1>2. CASE b.ledger = a.ledger
    BY <1>1, <1>2 DEF Grows
  <1>3. ASSUME NEW txn, b.ledger = Append(a.ledger, txn)
        PROVE  Grows(a, b)
    <2> DEFINE S == PointTransaction \cup {txn}
    <2>1. a.ledger \in Seq(S) /\ txn \in S
      <3>1. a.ledger \in [1..Len(a.ledger) -> S]
        BY <1>1, LenProperties
      <3> QED
        BY <1>1, <3>1, IsASeq
    <2> HIDE DEF S
    <2>2. /\ Len(b.ledger) = Len(a.ledger) + 1
          /\ \A i \in 1..Len(a.ledger) : b.ledger[i] = a.ledger[i]
      BY <1>3, <2>1, AppendProperties
    <2> QED
      BY <1>1, <2>2 DEF Grows
  <1> QED
    BY <1>2, <1>3 DEF PostsOnce

LEMMA GrowsBoth ==
    ASSUME NEW a \in AccountType, NEW b \in AccountType,
           NEW c \in AccountType, Grows(a, b), Grows(b, c)
    PROVE  Grows(a, c)
  <1>1. Len(a.ledger) \in Nat /\ Len(b.ledger) \in Nat /\ Len(c.ledger) \in Nat
    BY LenProperties DEF AccountType
  <1>2. \A i \in 1..Len(a.ledger) : i \in 1..Len(b.ledger)
    BY <1>1 DEF Grows
  <1> QED
    BY <1>1, <1>2 DEF Grows

\* Judging a day, recording units and buying post at most one transaction.
LEMMA CreditDayPosts ==
    ASSUME NEW a \in AccountType, NEW d
    PROVE  PostsOnce(a, CreditDay(a, d))
  BY DEF PostsOnce, CreditDay, PostTransaction, Resolve, AccountType

LEMMA MissDayPosts ==
    ASSUME NEW a \in AccountType, NEW d
    PROVE  PostsOnce(a, MissDay(a, d))
  BY DEF PostsOnce, MissDay, PostTransaction, Resolve, AccountType

LEMMA ApplyPosts ==
    ASSUME NEW a \in AccountType, NEW d, NEW decision \in Decisions
    PROVE  PostsOnce(a, Apply(a, d, decision))
  <1>1. PostsOnce(a, a)
    BY DEF PostsOnce
  <1>2. PostsOnce(a, FreezeDay(a, d))
    <2>1. CASE a.quantity <= 0
      BY <2>1, MissDayPosts DEF FreezeDay
    <2>2. CASE ~(a.quantity <= 0)
      BY <2>2 DEF FreezeDay, Resolve, AccountType, PostsOnce
    <2> QED
      BY <2>1, <2>2
  <1>3. \A status : PostsOnce(a, NeutralDay(a, d, status))
    BY DEF PostsOnce, NeutralDay, Resolve, AccountType
  <1> QED
    BY <1>1, <1>2, <1>3, CreditDayPosts, MissDayPosts DEF Apply, Decisions

LEMMA SettleDayGrows ==
    ASSUME NEW a \in AccountType, NEW d \in Dates, Sound(a), HasPlan(a)
    PROVE  Grows(a, SettleDay(a, d))
  <1> DEFINE opened == GetOrCreateDay(a, d)
             decision == Decide(opened, d, ~HasDay(a, d))
             judged == Apply(opened, d, decision)
             b == SettleDay(a, d)
  <1>1. opened \in AccountType /\ Sound(opened) /\ opened.ledger = a.ledger
    BY GetOrCreateDaySound DEF GetOrCreateDay, AccountType
  <1>2. /\ decision \in Decisions
        /\ decision # "carry" => ~Resolved(opened, d)
    BY DEF Decide, Decisions
  <1>3. b = [judged EXCEPT !.last_settled_date = d]
    BY DEF SettleDay
  <1> HIDE DEF opened, decision
  <1>4. judged \in AccountType /\ PostsOnce(opened, judged)
    BY <1>1, <1>2, ApplySound, ApplyPosts
  <1> HIDE DEF judged
  <1>5. b.ledger = judged.ledger
    BY <1>3, <1>4 DEF AccountType
  <1> QED
    BY <1>1, <1>4, <1>5, PostsOnceGrows DEF PostsOnce

\* Settling a day records no study.
LEMMA SettleDayEvents ==
    ASSUME NEW a \in AccountType, NEW d \in Dates, Sound(a), HasPlan(a)
    PROVE  SettleDay(a, d).events = a.events
  <1> DEFINE opened == GetOrCreateDay(a, d)
             decision == Decide(opened, d, ~HasDay(a, d))
             judged == Apply(opened, d, decision)
             b == SettleDay(a, d)
  <1>1. opened \in AccountType /\ Sound(opened) /\ opened.events = a.events
    BY GetOrCreateDaySound DEF GetOrCreateDay, AccountType
  <1>2. /\ decision \in Decisions
        /\ decision # "carry" => ~Resolved(opened, d)
    BY DEF Decide, Decisions
  <1>3. b = [judged EXCEPT !.last_settled_date = d]
    BY DEF SettleDay
  <1> HIDE DEF opened, decision
  <1>4. /\ CreditDay(opened, d).events = opened.events
        /\ MissDay(opened, d).events = opened.events
        /\ \A status : NeutralDay(opened, d, status).events = opened.events
    BY <1>1 DEF CreditDay, MissDay, NeutralDay, PostTransaction, Resolve,
          AccountType
  <1>5. FreezeDay(opened, d).events = opened.events
    BY <1>1, <1>4 DEF FreezeDay, Resolve, AccountType
  <1>6. judged \in AccountType /\ judged.events = opened.events
    <2>1. judged \in AccountType
      BY <1>1, <1>2, ApplySound
    <2> QED
      BY <1>2, <1>4, <1>5, <2>1 DEF Apply, Decisions
  <1> HIDE DEF judged
  <1> QED
    BY <1>1, <1>3, <1>6 DEF AccountType

LEMMA LogStudyPosts ==
    ASSUME NEW a \in AccountType, NEW d \in Dates, NEW units \in Nat,
           NEW key \in RequestKeys, Sound(a), HasPlan(a), CanLog(a, d)
    PROVE  PostsOnce(a, LogStudy(a, d, units, key))
  <1> DEFINE left == Plan(a).mishnayot_count - Plan(a).current_ordinal
             n == IF units < left THEN units ELSE left
             logged == RecordUnits(a, d, n, key)
             enough == logged.days[d].completed_units >= GoalForDay(logged, d)
             credited == IF ~Resolved(logged, d) /\ (enough \/ units >= left)
                         THEN CreditDay(logged, d) ELSE logged
             b == LogStudy(a, d, units, key)
  <1>1. n \in Nat
    BY PlanExists DEF CanLog, StudyPlan
  <1>2. b = IF units >= left
            THEN [credited EXCEPT !.plans[PlanId(a)].status = "completed"]
            ELSE credited
    BY DEF LogStudy
  <1> HIDE DEF n, left
  <1>3. logged \in AccountType /\ Sound(logged) /\ logged.ledger = a.ledger
    <2>1. RecordUnits(a, d, n, key).ledger = a.ledger
      BY DEF RecordUnits, AccountType
    <2> QED
      BY <1>1, <2>1, RecordUnitsSound
  <1> HIDE DEF logged
  <1>4. credited \in AccountType /\ PostsOnce(logged, credited)
    <2>1. /\ CreditDay(logged, d) \in AccountType
          /\ PostsOnce(logged, CreditDay(logged, d))
          /\ PostsOnce(logged, logged)
      BY <1>3, CreditDaySound, CreditDayPosts DEF PostsOnce
    <2> HIDE DEF enough
    <2> QED
      BY <1>3, <2>1
  <1> HIDE DEF credited, b
  <1>5. b.ledger = credited.ledger
    BY <1>2, <1>4 DEF AccountType
  <1> QED
    BY <1>3, <1>4, <1>5 DEF PostsOnce, b

LEMMA PurchasePosts ==
    ASSUME NEW a \in AccountType, NEW key
    PROVE  PostsOnce(a, Purchase(a, key))
  BY DEF PostsOnce, Purchase, PostTransaction, AccountType

-----------------------------------------------------------------------------
\* What the ledger, the verdicts and the freezes are made of.
Money(a) == <<a.total_points, a.ledger, a.quantity, a.freezes_consumed,
              a.usages>>

Agree(a, b) ==
    Money(b) = Money(a) /\ \A d \in Dates : Paid(b, d) = Paid(a, d)

LEMMA AgreeSound ==
    ASSUME NEW a, NEW b, Agree(a, b)
    PROVE  /\ Sound(a) => Sound(b)
           /\ FreezesAccounted(a) => FreezesAccounted(b)
  <1>1. /\ b.ledger = a.ledger /\ b.total_points = a.total_points
        /\ b.quantity = a.quantity /\ b.usages = a.usages
        /\ b.freezes_consumed = a.freezes_consumed
    BY DEF Agree, Money
  <1>2. \A d \in Dates : /\ b.days[d].status = a.days[d].status
                         /\ b.days[d].points_awarded = a.days[d].points_awarded
    BY DEF Agree, Paid
  <1>3. Sound(a) => Sound(b)
    BY <1>1, <1>2 DEF Sound, LedgerReconciles, VerdictsPaidOnce, UniqueKeys,
          HasTransaction, Posted
  <1>4. FreezesAccounted(a) => FreezesAccounted(b)
    BY <1>1, <1>2 DEF FreezesAccounted, Purchases
  <1> QED
    BY <1>3, <1>4

\* Changing the goal, the tractate or the week moves nothing of that.
LEMMA ChangeGoalAgrees ==
    ASSUME NEW a \in AccountType, NEW goal, NEW d \in Dates
    PROVE  Agree(a, ChangeGoal(a, goal, d))
  BY DEF Agree, Money, Paid, ChangeGoal, AccountType, StudyDay

=============================================================================
