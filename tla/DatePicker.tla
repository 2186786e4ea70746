----------------------------- MODULE DatePicker -----------------------------
(***************************************************************************)
(* The calendar popup of the Mock Time bar: the selected date, the month   *)
(* being browsed and the page of 42 days that is shown for it.  The time   *)
(* of day, which no step relates to the date, is left to MockTimeBar.      *)
(***************************************************************************)
EXTENDS Integers

CONSTANTS
    MinYear, MaxYear,   \* the years the picker supports
    Todays              \* days the real clock may show

Leap(y) == y % 4 = 0 /\ (y % 100 # 0 \/ y % 400 = 0)

MonthLength(y, m) ==
    CASE m \in {4, 6, 9, 11} -> 30
      [] m = 2 -> IF Leap(y) THEN 29 ELSE 28
      [] OTHER -> 31

\* The days of year y before its month m.
DaysBefore(y, m) ==
    <<0, 31, 59, 90, 120, 151, 181, 212, 243, 273, 304, 334>>[m]
        + (IF m > 2 /\ Leap(y) THEN 1 ELSE 0)

\* The dates of the given years, in chrono's proleptic Gregorian calendar.
DatesOf(years) ==
    {d \in [year : years, month : 1..12, day : 1..31] : d.day <= MonthLength(d.year, d.month)}

\* The neighbouring years are those a click or a step may stray into.
Dates == DatesOf(MinYear - 1..MaxYear + 1)
Supported == DatesOf(MinYear..MaxYear)

\* The code takes the clock's day as it is.  Outside the supported years a clock
\* is only where it was set wrong, or was the fake one of a controller injected
\* into itself; such clocks are left out.
ASSUME YearsAssumption ==
    /\ {MinYear, MaxYear} \subseteq Nat
    /\ MinYear <= MaxYear
    /\ Todays \subseteq Supported

\* Days since the first of January of the year 0, a Saturday.
YearStart(y) ==
    366 + 365 * (y - 1) + (y - 1) \div 4 - (y - 1) \div 100 + (y - 1) \div 400
DayNumber(d) == YearStart(d.year) + DaysBefore(d.year, d.month) + d.day - 1

Numbers == [d \in Dates |-> DayNumber(d)]
DateNumbered ==
    [n \in {Numbers[d] : d \in Dates} |-> CHOOSE d \in Dates : Numbers[d] = n]

FromSunday(d) == (Numbers[d] + 6) % 7

MonthOf(d) == [year |-> d.year, month |-> d.month]
Months == [year : MinYear..MaxYear, month : 1..12]

\* Mutant: five rows.
PageFiveRows(v) ==
    LET first == [year |-> v.year, month |-> v.month, day |-> 1]
        start == Numbers[first] - FromSunday(first)
    IN  {DateNumbered[n] : n \in start..start + 34}

\* 6 rows of 7 days, from the Sunday on or before the first of month v.
Page(v) ==
    LET first == [year |-> v.year, month |-> v.month, day |-> 1]
        start == Numbers[first] - FromSunday(first)
    IN  {DateNumbered[n] : n \in start..start + 41}

\* Mutant: only the upper bound.
ClampAbove(d) == [d EXCEPT !.year = IF @ > MaxYear THEN MaxYear ELSE @]

Clamp(d) ==
    [d EXCEPT !.year = IF @ < MinYear THEN MinYear ELSE IF @ > MaxYear THEN MaxYear ELSE @]

VARIABLES
    date,   \* fake_year, fake_month, fake_day
    view,   \* picker_view_year, picker_view_month
    open    \* the popup is open

vars == <<date, view, open>>

TypeOK ==
    /\ date \in [year : Int, month : 1..12, day : 1..31]
    /\ view \in [year : Int, month : 1..12]
    /\ open \in BOOLEAN

Init ==
    /\ date \in Todays
    /\ view = MonthOf(date)
    /\ open = FALSE

-----------------------------------------------------------------------------

\* The button with the date syncs the view and toggles the popup.
Toggle ==
    /\ view' = MonthOf(date)
    /\ open' = ~open
    /\ UNCHANGED date

\* Escape, Apply, Enter or a click elsewhere.
Close ==
    /\ open
    /\ open' = FALSE
    /\ UNCHANGED <<date, view>>

\* The Now button of the bar, outside the popup: the view stays.
Now ==
    /\ date' \in Todays
    /\ open' = FALSE
    /\ UNCHANGED view

\* Mutant: the button is never disabled.
PrevMonthUnbounded ==
    /\ open
    /\ view' = IF view.month = 1 THEN [year |-> view.year - 1, month |-> 12]
               ELSE [view EXCEPT !.month = @ - 1]
    /\ UNCHANGED <<date, open>>

PrevMonth ==
    /\ open
    /\ view.year > MinYear \/ view.month > 1
    /\ view' = IF view.month = 1 THEN [year |-> view.year - 1, month |-> 12]
               ELSE [view EXCEPT !.month = @ - 1]
    /\ UNCHANGED <<date, open>>

\* Mutant: December is not followed by January.
NextMonthUnwrapped ==
    /\ open
    /\ view.year < MaxYear \/ view.month < 12
    /\ view' = [view EXCEPT !.month = @ + 1]
    /\ UNCHANGED <<date, open>>

NextMonth ==
    /\ open
    /\ view.year < MaxYear \/ view.month < 12
    /\ view' = IF view.month = 12 THEN [year |-> view.year + 1, month |-> 1]
               ELSE [view EXCEPT !.month = @ + 1]
    /\ UNCHANGED <<date, open>>

\* Mutant: the view never follows.
ClickViewFixed(cell) ==
    /\ open
    /\ date' = Clamp(cell)
    /\ UNCHANGED <<view, open>>

\* A click on a day of the page; one of another month takes the view along.
Click(cell) ==
    /\ open
    /\ date' = Clamp(cell)
    /\ view' = IF MonthOf(cell) = view THEN view ELSE MonthOf(date')
    /\ UNCHANGED open

\* The Now button of the popup.
PopupNow ==
    /\ open
    /\ date' \in Todays
    /\ view' = MonthOf(date')
    /\ UNCHANGED open

\* Mutant: the day wraps around inside its month.
ShiftDayInMonth(k) ==
    /\ open
    /\ date' = [date EXCEPT !.day =
                   ((@ + k - 1) % MonthLength(date.year, date.month)) + 1]
    /\ view' = MonthOf(date')
    /\ UNCHANGED open

\* The buttons -1d and +1d.
ShiftDay(k) ==
    /\ open
    /\ date' = Clamp(DateNumbered[Numbers[date] + k])
    /\ view' = MonthOf(date')
    /\ UNCHANGED open

Next ==
    \/ Toggle \/ Close \/ Now \/ PrevMonth \/ NextMonth \/ PopupNow
    \/ \E cell \in Page(view) : Click(cell)
    \/ \E k \in {-1, 1} : ShiftDay(k)

Spec == Init /\ [][Next]_vars

-----------------------------------------------------------------------------
(***************************************************************************)
(* Properties.                                                             *)
(***************************************************************************)

\* Whatever is clicked and stepped, from any day of the supported years that the
\* clock shows, the fields hold a date that exists, in a
\* supported year: "invalid date/time fields" is never reported, and the
\* conversion to FILETIME never overflows.
DateSupported == date \in Supported

\* The month being browsed stays among the supported ones, so that its first
\* day exists and the fallback of the calendar grid is never taken.
ViewSupported == view \in Months

\* The page shows every day of the month being browsed.
PageComplete ==
    {[year |-> view.year, month |-> view.month, day |-> k] :
        k \in 1..MonthLength(view.year, view.month)} \subseteq Page(view)

\* A date chosen in the open popup is in the month the popup shows then.
ChoiceInView == [][open' /\ date' # date => view' = MonthOf(date')]_vars

NewYear(y) == [year |-> y, month |-> 1, day |-> 1]
NewYearsEve(y) == [year |-> y, month |-> 12, day |-> 31]

\* -1d and +1d move the date by one day, over the ends of months and years and
\* over leap days.  The clamp of the year takes effect in two steps alone: one
\* past the last supported day lands on the first day of the same year, and one
\* before the first supported day on the last day of the same year.
StepsOneDay ==
    [][\A k \in {-1, 1} :
          ShiftDay(k) =>
             \/ Numbers[date'] = Numbers[date] + k
             \/ k = 1 /\ date = NewYearsEve(MaxYear) /\ date' = NewYear(MaxYear)
             \/ k = -1 /\ date = NewYear(MinYear) /\ date' = NewYearsEve(MinYear)]_vars
=============================================================================
