---------------------------- MODULE MCProjection ----------------------------
(***************************************************************************)
(* The completion estimate for model checking: all constants are numbers   *)
(* and sets of numbers, given in the cfg.                                  *)
(***************************************************************************)
EXTENDS Projection

=============================================================================
