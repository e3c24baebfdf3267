---------------------------- MODULE MCConcurrent ----------------------------
(***************************************************************************)
(* Two overlapping requests, for model checking.                           *)
(***************************************************************************)
EXTENDS Concurrent

MCTiers == << [min_streak |-> 2, halves |-> 3],
              [min_streak |-> 1, halves |-> 2] >>

MCEast == {-1}

=============================================================================
