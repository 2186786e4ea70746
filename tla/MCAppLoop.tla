----------------------------- MODULE MCAppLoop -----------------------------
(***************************************************************************)
(* Instances of AppLoop for TLC: the user edits a rule for every process   *)
(* and one for the first alone; a third rule never compiles.               *)
(***************************************************************************)
EXTENDS AppLoop

CONSTANTS p1, p2, every, first, broken

Matches12 == [r \in Rules |-> IF r = first THEN {p1} ELSE Pids]
=============================================================================
