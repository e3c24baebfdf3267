------------------------------ MODULE Scoring ------------------------------
(***************************************************************************)
(* The scoring rules of app/services/scoring.py: pure functions of the     *)
(* streak and of the balance.  A multiplier is a Decimal with one binary   *)
(* place in the source (1.0, 1.5, 2.0, 2.5); it is kept here in halves, so *)
(* 3 stands for 1.5.                                                       *)
(***************************************************************************)
EXTENDS Integers, Sequences

CONSTANTS BasePoints,   \* points of a completed day before the multiplier
          MissPenalty,  \* points a missed day costs at most
          MinBalance,   \* the balance a penalty never goes below
          Tiers         \* sequence of tiers, in the order tier_for tries them

Tier == [min_streak : Nat, halves : Nat \ {0}]

\* A completed day is worth at least one point: base_points is positive in
\* every configuration, and no tier multiplies by zero.
ASSUME BasePointsAssumption == BasePoints \in Nat \ {0}
ASSUME MissPenaltyAssumption == MissPenalty \in Nat
ASSUME MinBalanceAssumption == MinBalance \in Nat
ASSUME TiersAssumption == Tiers \in Seq(Tier)

\* The first tier of the sequence that the streak has reached, and the plain
\* multiplier 1.0 when there is none.
MultiplierFor(streak) ==
    LET reached == {i \in DOMAIN Tiers : streak >= Tiers[i].min_streak}
        first == CHOOSE i \in reached : \A j \in reached : i <= j
    IN  IF reached = {} THEN 2 ELSE Tiers[first].halves

\* base_points * multiplier, rounded half up to a whole point.
PointsForCompletion(streakAfter) ==
    (BasePoints * MultiplierFor(streakAfter) + 1) \div 2

\* Fault: the penalty is not clamped to the balance.
PenaltyUnclamped(balance) == MissPenalty

\* The magnitude of a penalty, clamped to what the balance can lose.
PenaltyForMiss(balance) ==
    LET headroom == IF balance > MinBalance THEN balance - MinBalance ELSE 0
    IN  IF MissPenalty <= headroom THEN MissPenalty ELSE headroom

=============================================================================
