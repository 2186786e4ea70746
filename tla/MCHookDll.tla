----------------------------- MODULE MCHookDll -----------------------------
(***************************************************************************)
(* Instances of HookDll for TLC.  A half has four values, an i64 runs      *)
(* from -8 to 7.  The deltas are further apart than the bound of the       *)
(* clock, so a time tells which delta it was made with; the largest one    *)
(* overflows, the smallest one leads to before 1601.                       *)
(***************************************************************************)
EXTENDS HookDll

CONSTANTS t1, t2

FarDeltas == {-5, 0, 6}
TwoDeltas == {0, 6}
SomeFail == {"GetSystemTimeAsFileTime", "GetSystemTimePreciseAsFileTime"}
=============================================================================
