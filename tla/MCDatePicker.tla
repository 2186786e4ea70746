---------------------------- MODULE MCDatePicker ----------------------------
(***************************************************************************)
(* Instances of DatePicker for TLC.                                        *)
(***************************************************************************)
EXTENDS DatePicker

\* A leap day among the days the real clock may show.
SomeDays == {[year |-> MaxYear, month |-> 2, day |-> MonthLength(MaxYear, 2)],
             [year |-> MinYear, month |-> 12, day |-> 31]}
=============================================================================
