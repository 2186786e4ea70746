--------------------------- MODULE MCMockTimeBar ---------------------------
(***************************************************************************)
(* Instances of MockTimeBar for TLC: a short year with both clock changes, *)
(* two ticks to the second.                                                *)
(***************************************************************************)
EXTENDS MockTimeBar
=============================================================================
