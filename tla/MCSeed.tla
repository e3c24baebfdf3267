------------------------------- MODULE MCSeed -------------------------------
(***************************************************************************)
(* The seeding of a few tractates for model checking.                      *)
(***************************************************************************)
EXTENDS Seed

MCPayload == <<"berakhot", "peah", "demai">>

=============================================================================
