---------------------------- MODULE MockTimeBar ----------------------------
(***************************************************************************)
(* The Mock Time bar: the time the user picks, its conversion through the  *)
(* time zone to a delta, and the local time a hooked process then shows.   *)
(* The controller lists its own process too, and reads the clock through   *)
(* its own hook once it is injected there.                                 *)
(*                                                                         *)
(* Instants are ticks of UTC.  Clocks go forward at Forward and back at    *)
(* Back, by Saving ticks; the picker's fields hold whole seconds, of       *)
(* Second ticks.                                                           *)
(***************************************************************************)
EXTENDS Integers, FiniteSets

CONSTANTS
    Forward, Back, Saving, Second,
    MaxTime,    \* bound of the real time
    MaxDelta    \* bound of the delta, either way

ASSUME ZoneAssumption ==
    /\ {Forward, Back, MaxTime, MaxDelta} \subseteq Nat
    /\ {Saving, Second} \subseteq Nat \ {0}
    /\ Forward + Saving < Back
    /\ {Forward % Second, Back % Second, Saving % Second} = {0}

VARIABLES
    now,        \* the real time, UTC
    picked,     \* the local time in the picker's fields
    delta,      \* current_delta_ticks
    status,     \* status_msg: "none" or "transition"
    own         \* the controller's own process is in the manager's list

vars == <<now, picked, delta, status, own>>

Offset(u) == IF u \in Forward..Back - 1 THEN Saving ELSE 0
LocalTime(u) == u + Offset(u)

\* Mutant: standard time all year.
InstantsStandard(l) == {u \in {l} : LocalTime(u) = l}

\* The instants with local time l: none where the clocks have gone forward,
\* two where they have gone back.
Instants(l) == {u \in {l, l - Saving} : LocalTime(u) = l}

Seconds(l) == l - (l % Second)

\* The fields the user can set: any whole second of the days in reach.
Fields == {l \in 0..MaxTime + Saving : l % Second = 0}

\* What Utc::now and Local::now return: they call the very function
\* hook_get_system_time_precise_as_filetime replaces.  Where own is not set
\* the hook is not there, or reads the zero that disabling it wrote.
OwnClock == now + (IF own THEN delta ELSE 0)

TypeOK ==
    /\ now \in 0..MaxTime
    /\ picked \in Fields
    /\ delta \in -MaxDelta..MaxDelta
    /\ status \in {"none", "transition"}
    /\ own \in BOOLEAN

\* TimeMockerApp::new
Init ==
    /\ now = 0
    /\ picked = Seconds(LocalTime(now))
    /\ delta = 0
    /\ status = "none"
    /\ own = FALSE

\* Mutant: the delta is taken from the real time, whatever the own hook says.
ApplyFromReal(l) ==
    \/ \E u \in Instants(l) :
          /\ Cardinality(Instants(l)) = 1
          /\ u - now \in -MaxDelta..MaxDelta
          /\ delta' = u - now
          /\ status' = "none"
    \/ /\ Cardinality(Instants(l)) # 1
       /\ status' = "transition"
       /\ UNCHANGED delta

\* apply_fake_time of the fields l: only a local time that one instant has is
\* applied, anything else is reported and changes nothing.
ApplyFakeTime(l) ==
    \/ \E u \in Instants(l) :
          /\ Cardinality(Instants(l)) = 1
          /\ u - OwnClock \in -MaxDelta..MaxDelta
          /\ delta' = u - OwnClock
          /\ status' = "none"
    \/ /\ Cardinality(Instants(l)) # 1
       /\ status' = "transition"
       /\ UNCHANGED delta

\* The fields of the popup, its calendar and its buttons.
Pick(l) ==
    /\ picked' = l
    /\ UNCHANGED <<now, delta, status, own>>

Apply ==
    /\ ApplyFakeTime(picked)
    /\ UNCHANGED <<now, picked, own>>

\* Mutant: the fields keep the fraction of the second.
NowWithFraction ==
    /\ OwnClock \in 0..MaxTime
    /\ picked' = LocalTime(OwnClock)
    /\ ApplyFakeTime(picked')
    /\ UNCHANGED <<now, own>>

\* reset_to_now_and_apply, the Now button of the bar.  A clock that is out of
\* the bound of the times is left out.
Now ==
    /\ OwnClock \in 0..MaxTime
    /\ picked' = Seconds(LocalTime(OwnClock))
    /\ ApplyFakeTime(picked')
    /\ UNCHANGED <<now, own>>

\* The check box of the controller's own row, or a rule that matches it: the
\* mapping starts with the current delta, and disable leaves a zero in it.
InjectSelf ==
    /\ ~own
    /\ own' = TRUE
    /\ UNCHANGED <<now, picked, delta, status>>

DisableSelf ==
    /\ own
    /\ own' = FALSE
    /\ UNCHANGED <<now, picked, delta, status>>

Tick ==
    /\ now < MaxTime
    /\ now' = now + 1
    /\ UNCHANGED <<picked, delta, status, own>>

Next ==
    \/ Apply \/ Now \/ Tick \/ InjectSelf \/ DisableSelf
    \/ \E l \in Fields : Pick(l)

Spec == Init /\ [][Next]_vars

\* Mutant: FileTimeToLocalFileTime takes the offset of today.
ShownToday == now + delta + Offset(now)

\* What hook_get_local_time shows: the fake instant in local time, with the
\* offset of its own date.
Shown == LocalTime(now + delta)

-----------------------------------------------------------------------------
(***************************************************************************)
(* Properties.                                                             *)
(***************************************************************************)

\* A time that is applied is the time a hooked process shows at that moment,
\* on whichever side of a clock change the two dates are: the conversion of
\* the picker and the one of the hook undo each other.
AppliedShown ==
    [][(Apply \/ Now) /\ ~own /\ status' = "none" => Shown' = picked']_vars

\* The same of every time that is applied, which is what the documentation
\* says: "The hook reads the delta on every time API call and returns
\* `real_filetime + delta`. The controller writes the delta whenever the user
\* picks a new fake time."  The controller must know the real time for it.
AppliedAlwaysShown ==
    [][(Apply \/ Now) /\ status' = "none" => Shown' = picked']_vars

\* Where Now is not refused it takes every process back to real time, to the
\* second, even where the controller itself runs on a fake time.
NowRestores == [][Now /\ status' = "none" => delta' \in 1 - Second..0]_vars

\* Now is refused only in the hours before and after the clocks go back, on
\* the clock the controller reads.
NowRefusedInFold ==
    [][Now /\ status' = "transition" => OwnClock \in Back - Saving..Back + Saving - 1]_vars
=============================================================================
