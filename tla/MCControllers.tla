--------------------------- MODULE MCControllers ---------------------------
(***************************************************************************)
(* Instances of Controllers for TLC.                                       *)
(***************************************************************************)
EXTENDS Controllers, TLC

CONSTANTS c1, c2, c3

\* The controllers are interchangeable to an invariant.
ControllerSymmetry == Permutations(Controllers)
=============================================================================
