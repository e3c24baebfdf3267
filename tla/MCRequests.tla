----------------------------- MODULE MCRequests -----------------------------
(***************************************************************************)
(* Values of the constants for model checking.  The thresholds are small,  *)
(* so that a streak of two or three days already crosses a tier.           *)
(***************************************************************************)
EXTENDS Portion

\* 2.0 from the third day, 1.5 from the second, 1.0 before.
MCTiers == << [min_streak |-> 3, halves |-> 4],
              [min_streak |-> 2, halves |-> 3],
              [min_streak |-> 1, halves |-> 2] >>

\* East and west of UTC (a cfg has no negative numbers).
MCFarZones == {-1, 1}

=============================================================================
