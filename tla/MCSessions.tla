----------------------------- MODULE MCSessions -----------------------------
(***************************************************************************)
(* Two tabs of one browser.                                                *)
(***************************************************************************)
EXTENDS Sessions

=============================================================================
