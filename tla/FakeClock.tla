----------------------------- MODULE FakeClock -----------------------------
(***************************************************************************)
(* What the whole tool promises about the clocks of the processes, with    *)
(* mappings, hooks and controllers left out.                               *)
(*                                                                         *)
(* shown[p] is the offset process p sees between its clock and the real    *)
(* one.  offers is the set of offsets a clock may be moved to: the one the *)
(* user chose last, together with an earlier one as long as it is being    *)
(* replaced, and real time (0) alone when no controller runs.  Clocks move *)
(* one at a time, to an offset on offer or back to real time.              *)
(***************************************************************************)
EXTENDS Integers

CONSTANTS Pids, Deltas

VARIABLES offers, shown

clockVars == <<offers, shown>>

ClockInit ==
    /\ offers = {0}
    /\ shown = [p \in Pids |-> 0]

Fewer == (SUBSET offers) \ {{}}

\* The user chooses d; some of what was on offer may stay for a while.
Choose(d) ==
    /\ \E kept \in SUBSET offers : offers' = kept \cup {d}
    /\ UNCHANGED shown

\* The clock of p moves to an offset on offer.
Follow(p) ==
    /\ \E o \in offers : shown' = [shown EXCEPT ![p] = o]
    /\ offers' \in Fewer

\* The clock of p is back at real time.
Revert(p) ==
    /\ shown' = [shown EXCEPT ![p] = 0]
    /\ offers' \in Fewer

\* Offers lapse, all of them when the controller ends; no clock moves.
Lapse ==
    /\ offers' \in Fewer \cup {{0}}
    /\ UNCHANGED shown

ClockNext ==
    \/ \E d \in Deltas : Choose(d)
    \/ \E p \in Pids : Follow(p) \/ Revert(p)
    \/ Lapse

ClockSpec == ClockInit /\ [][ClockNext]_clockVars
=============================================================================
