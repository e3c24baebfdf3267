------------------------------ MODULE MCSweep ------------------------------
(***************************************************************************)
(* The sweep for model checking: an eastern and a western learner, and one *)
(* at the line whose settlement fails.                                     *)
(***************************************************************************)
EXTENDS Sweep

CONSTANTS east, west, broken

MCZone ==
    [u \in Learners |-> CASE u = east -> -1 [] u = west -> 1 [] OTHER -> 0]

=============================================================================
