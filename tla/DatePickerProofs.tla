-------------------------- MODULE DatePickerProofs --------------------------
(***************************************************************************)
(* Theorems about DatePicker, for any years the picker may support.  They  *)
(* rest on the calendar: the numbers of the days grow with the date, and a *)
(* page never leaves the month before and the month after.                 *)
(***************************************************************************)
EXTENDS DatePicker, TLAPS

DaysIn(y) == IF Leap(y) THEN 366 ELSE 365

LEMMA MonthTable ==
    ASSUME NEW y \in Int
    PROVE  /\ DaysBefore(y, 1) = 0
           /\ \A m \in 1..11 : DaysBefore(y, m + 1) = DaysBefore(y, m) + MonthLength(y, m)
           /\ DaysBefore(y, 12) + 31 = DaysIn(y)
           /\ \A m \in 1..12 : MonthLength(y, m) \in 28..31
           /\ MonthLength(y, 1) = 31 /\ MonthLength(y, 12) = 31
<1>1. DaysBefore(y, 1) = 0 /\ DaysBefore(y, 12) + 31 = DaysIn(y)
    BY DEF DaysBefore, DaysIn
<1>2. ASSUME NEW m \in 1..11
      PROVE  DaysBefore(y, m + 1) = DaysBefore(y, m) + MonthLength(y, m)
  <2>1. m \in {1, 2, 3, 4, 5, 6, 7, 8, 9, 10, 11}
      OBVIOUS
  <2> QED BY <2>1 DEF DaysBefore, MonthLength
<1>3. \A m \in 1..12 : MonthLength(y, m) \in 28..31
    BY DEF MonthLength
<1>4. MonthLength(y, 1) = 31 /\ MonthLength(y, 12) = 31
    BY DEF MonthLength
<1> QED BY <1>1, <1>2, <1>3, <1>4

LEMMA YearTable ==
    ASSUME NEW y \in Int
    PROVE  /\ YearStart(y) \in Int
           /\ YearStart(y + 1) = YearStart(y) + DaysIn(y)
<1>1. /\ y \div 4 = (y - 1) \div 4 + (IF y % 4 = 0 THEN 1 ELSE 0)
      /\ y \div 100 = (y - 1) \div 100 + (IF y % 100 = 0 THEN 1 ELSE 0)
      /\ y \div 400 = (y - 1) \div 400 + (IF y % 400 = 0 THEN 1 ELSE 0)
    OBVIOUS
<1>2. (y % 400 = 0 => y % 100 = 0) /\ (y % 100 = 0 => y % 4 = 0)
    OBVIOUS
<1>3. (y - 1) \div 4 \in Int /\ (y - 1) \div 100 \in Int /\ (y - 1) \div 400 \in Int
    OBVIOUS
<1> QED BY <1>1, <1>2, <1>3 DEF YearStart, DaysIn, Leap

LEMMA YearsGrow ==
    ASSUME NEW y \in Int, NEW z \in Int, y <= z
    PROVE  YearStart(y) <= YearStart(z)
<1>1. /\ (y - 1) \div 4 <= (z - 1) \div 4
      /\ (z - 1) \div 100 <= (y - 1) \div 100 + (z - y)
      /\ (y - 1) \div 400 <= (z - 1) \div 400
    OBVIOUS
<1> QED BY <1>1 DEF YearStart

LEMMA MonthsGrow ==
    ASSUME NEW y \in Int, NEW m \in 1..12, NEW k \in 1..12, m < k
    PROVE  DaysBefore(y, m) + MonthLength(y, m) <= DaysBefore(y, k)
<1> DEFINE B(i) == DaysBefore(y, i)
<1>1. /\ B(1) <= B(2) /\ B(2) <= B(3) /\ B(3) <= B(4) /\ B(4) <= B(5)
      /\ B(5) <= B(6) /\ B(6) <= B(7) /\ B(7) <= B(8) /\ B(8) <= B(9)
      /\ B(9) <= B(10) /\ B(10) <= B(11) /\ B(11) <= B(12)
      /\ B(1) \in Int /\ B(2) \in Int /\ B(3) \in Int /\ B(4) \in Int
      /\ B(5) \in Int /\ B(6) \in Int /\ B(7) \in Int /\ B(8) \in Int
      /\ B(9) \in Int /\ B(10) \in Int /\ B(11) \in Int /\ B(12) \in Int
    BY DEF DaysBefore
<1>2. m + 1 \in 1..12 /\ m + 1 <= k /\ m \in 1..11
    OBVIOUS
<1>3. \A i \in 1..12 : i <= k => B(i) <= B(k)
  <2> HIDE DEF B
  <2> SUFFICES ASSUME NEW i \in 1..12, i <= k PROVE B(i) <= B(k)
      OBVIOUS
  <2>1. k \in {1, 2, 3, 4, 5, 6, 7, 8, 9, 10, 11, 12}
      OBVIOUS
  <2>2. i \in {1, 2, 3, 4, 5, 6, 7, 8, 9, 10, 11, 12}
      OBVIOUS
  <2> QED BY <1>1, <2>1, <2>2
<1>4. B(m + 1) <= B(k)
    BY <1>2, <1>3
<1>5. B(m + 1) = B(m) + MonthLength(y, m)
    BY <1>2, MonthTable
<1> QED BY <1>4, <1>5

\* The day of the year of a date.
LEMMA DayOfYear ==
    ASSUME NEW d \in Dates
    PROVE  /\ d.year \in Int /\ d.month \in 1..12 /\ d.day \in 1..MonthLength(d.year, d.month)
           /\ MonthLength(d.year, d.month) \in 28..31
           /\ d = [year |-> d.year, month |-> d.month, day |-> d.day]
           /\ DaysBefore(d.year, d.month) \in Nat
           /\ DaysBefore(d.year, d.month) + d.day \in 1..DaysIn(d.year)
           /\ Numbers[d] \in Int
           /\ Numbers[d] = YearStart(d.year) + DaysBefore(d.year, d.month) + d.day - 1
<1>1. /\ d.year \in Int /\ d.month \in 1..12 /\ d.day \in 1..31
      /\ d.day <= MonthLength(d.year, d.month)
      /\ d = [year |-> d.year, month |-> d.month, day |-> d.day]
    BY YearsAssumption DEF Dates, DatesOf
<1>2. DaysBefore(d.year, d.month) \in Nat
  <2>1. d.month \in {1, 2, 3, 4, 5, 6, 7, 8, 9, 10, 11, 12}
      BY <1>1
  <2> QED BY <2>1 DEF DaysBefore
<1>3. MonthLength(d.year, d.month) \in 28..31
    BY <1>1, MonthTable
<1>4. DaysBefore(d.year, d.month) + MonthLength(d.year, d.month) <= DaysIn(d.year)
  <2>1. CASE d.month = 12
      BY <1>1, <2>1, MonthTable
  <2>2. CASE d.month # 12
    <3>1. d.month < 12 /\ 12 \in 1..12
        BY <1>1, <2>2
    <3>2. DaysBefore(d.year, d.month) + MonthLength(d.year, d.month) <= DaysBefore(d.year, 12)
        BY <1>1, <3>1, MonthsGrow
    <3>3. DaysBefore(d.year, 12) + 31 = DaysIn(d.year) /\ DaysIn(d.year) \in Int
        BY <1>1, MonthTable DEF DaysIn
    <3>4. DaysBefore(d.year, 12) \in Int
        BY DEF DaysBefore
    <3> QED BY <1>2, <1>3, <3>2, <3>3, <3>4
  <2> QED BY <2>1, <2>2
<1>5. DaysIn(d.year) \in Nat
    BY DEF DaysIn
<1>6. Numbers[d] = YearStart(d.year) + DaysBefore(d.year, d.month) + d.day - 1
    BY DEF Numbers, DayNumber
<1>7. YearStart(d.year) \in Int
    BY <1>1, YearTable
<1> QED BY <1>1, <1>2, <1>3, <1>4, <1>5, <1>6, <1>7

\* No two dates have the same number.
LEMMA NumbersApart ==
    ASSUME NEW d \in Dates, NEW e \in Dates, Numbers[d] = Numbers[e]
    PROVE  d = e
<1>1. \A f \in Dates : \A g \in Dates : f.year < g.year => Numbers[f] < Numbers[g]
  <2> SUFFICES ASSUME NEW f \in Dates, NEW g \in Dates, f.year < g.year
               PROVE  Numbers[f] < Numbers[g]
      OBVIOUS
  <2>1. f.year \in Int /\ g.year \in Int /\ f.year + 1 \in Int /\ f.year + 1 <= g.year
      BY DayOfYear
  <2>2. YearStart(f.year) + DaysIn(f.year) <= YearStart(g.year)
      BY <2>1, YearTable, YearsGrow
  <2>3. YearStart(f.year) \in Int /\ YearStart(g.year) \in Int /\ DaysIn(f.year) \in Int
      BY <2>1, YearTable DEF DaysIn
  <2>4. Numbers[f] \in Int /\ Numbers[f] <= YearStart(f.year) + DaysIn(f.year) - 1
      BY <2>3, DayOfYear
  <2>5. Numbers[g] \in Int /\ Numbers[g] >= YearStart(g.year)
      BY <2>3, DayOfYear
  <2> QED BY <2>2, <2>3, <2>4, <2>5
<1>2. d.year = e.year
    BY <1>1, DayOfYear
<1>3. \A f \in Dates : \A g \in Dates :
          f.year = g.year /\ f.month < g.month => Numbers[f] < Numbers[g]
  <2> SUFFICES ASSUME NEW f \in Dates, NEW g \in Dates, f.year = g.year, f.month < g.month
               PROVE  Numbers[f] < Numbers[g]
      OBVIOUS
  <2>1. DaysBefore(f.year, f.month) + MonthLength(f.year, f.month) <= DaysBefore(g.year, g.month)
      BY DayOfYear, MonthsGrow
  <2>2. YearStart(f.year) \in Int
      BY DayOfYear, YearTable
  <2> QED BY <2>1, <2>2, DayOfYear
<1>4. d.month = e.month
    BY <1>2, <1>3, DayOfYear
<1>5. d.day = e.day
  <2>1. YearStart(d.year) \in Int
      BY DayOfYear, YearTable
  <2> QED BY <1>2, <1>4, <2>1, DayOfYear
<1> QED BY <1>2, <1>4, <1>5, DayOfYear

\* Going to a number and back leads to the same date.
LEMMA DateOfNumber ==
    ASSUME NEW d \in Dates
    PROVE  DateNumbered[Numbers[d]] = d
<1>1. Numbers[d] \in {Numbers[e] : e \in Dates}
    OBVIOUS
<1>2. DateNumbered[Numbers[d]] = CHOOSE e \in Dates : Numbers[e] = Numbers[d]
    BY <1>1 DEF DateNumbered
<1>3. \E e \in Dates : Numbers[e] = Numbers[d]
    OBVIOUS
<1>4. /\ DateNumbered[Numbers[d]] \in Dates
      /\ Numbers[DateNumbered[Numbers[d]]] = Numbers[d]
    BY <1>2, <1>3
<1> QED BY <1>4, NumbersApart

First(v) == [year |-> v.year, month |-> v.month, day |-> 1]

\* The clamp changes the year alone, and only January and December stray out.
LEMMA ClampSupported ==
    ASSUME NEW e \in Dates, e.year \in MinYear..MaxYear \/ e.month \in {1, 12}
    PROVE  Clamp(e) \in Supported /\ MonthOf(Clamp(e)) \in Months
<1> DEFINE c == Clamp(e)
           y == IF e.year < MinYear THEN MinYear ELSE IF e.year > MaxYear THEN MaxYear ELSE e.year
<1>1. e.year \in Int /\ e = [year |-> e.year, month |-> e.month, day |-> e.day]
    BY DayOfYear
<1>2. c = [year |-> y, month |-> e.month, day |-> e.day]
    BY <1>1 DEF Clamp
<1>3. y \in MinYear..MaxYear
    BY <1>1, YearsAssumption
<1>4. e.month \in 1..12 /\ e.day \in 1..31 /\ e.day <= MonthLength(e.year, e.month)
    BY <1>1, DayOfYear
<1>5. e.day <= MonthLength(y, e.month)
  <2>1. CASE e.year \in MinYear..MaxYear
    <3>1. y = e.year
        BY <2>1, YearsAssumption
    <3> QED BY <1>4, <3>1
  <2>2. CASE e.month \in {1, 12}
    <3>1. y \in Int
        BY <1>3, YearsAssumption
    <3>2. MonthLength(y, e.month) = 31
        BY <2>2, <3>1, MonthTable
    <3> QED BY <1>4, <3>2
  <2> QED BY <2>1, <2>2
<1>6. c.year = y /\ c.month = e.month /\ c.day = e.day
    BY <1>2
<1>7. c \in [year : MinYear..MaxYear, month : 1..12, day : 1..31]
    BY <1>2, <1>3, <1>4
<1>8. c \in Supported
    BY <1>5, <1>6, <1>7 DEF Supported, DatesOf
<1>9. MonthOf(c) \in Months
    BY <1>3, <1>4, <1>6 DEF MonthOf, Months
<1> QED BY <1>8, <1>9

\* A date made of its parts.
LEMMA MakeDate ==
    ASSUME NEW y \in MinYear - 1..MaxYear + 1, NEW m \in 1..12,
           NEW k \in 1..31, k <= MonthLength(y, m)
    PROVE  LET e == [year |-> y, month |-> m, day |-> k] IN
           /\ e \in Dates
           /\ Numbers[e] = YearStart(y) + DaysBefore(y, m) + k - 1
<1> DEFINE e == [year |-> y, month |-> m, day |-> k]
<1>1. e \in Dates
    BY DEF Dates, DatesOf
<1> QED BY <1>1, DayOfYear

\* The days of a page, and of a step from a day of the month, lie in the month,
\* the one before or the one after.
LEMMA NearMonth ==
    ASSUME NEW v \in Months, NEW j \in -6..41
    PROVE  \E e \in Dates : /\ Numbers[e] = Numbers[First(v)] + j
                            /\ e.year \in MinYear..MaxYear \/ e.month \in {1, 12}
<1> DEFINE y == v.year
           m == v.month
           len == MonthLength(y, m)
           Day(a, b, c) == [year |-> a, month |-> b, day |-> c]
<1>1. y \in MinYear..MaxYear /\ m \in 1..12 /\ y \in Int /\ MinYear \in Int /\ MaxYear \in Int
    BY YearsAssumption DEF Months
<1>2. len \in 28..31
    BY <1>1, MonthTable
<1>3. y \in MinYear - 1..MaxYear + 1 /\ y - 1 \in MinYear - 1..MaxYear + 1
      /\ y + 1 \in MinYear - 1..MaxYear + 1 /\ y - 1 \in Int /\ y + 1 \in Int
    BY <1>1
<1>4. First(v) \in Dates /\ Numbers[First(v)] = YearStart(y) + DaysBefore(y, m) + 1 - 1
  <2>1. 1 \in 1..31 /\ 1 <= len
      BY <1>2
  <2> HIDE DEF y, m
  <2>2. /\ Day(y, m, 1) \in Dates
        /\ Numbers[Day(y, m, 1)] = YearStart(y) + DaysBefore(y, m) + 1 - 1
      BY <1>1, <1>3, <2>1, MakeDate
  <2> QED BY <2>2 DEF First, y, m
<1>5. YearStart(y) \in Int /\ YearStart(y - 1) \in Int /\ DaysBefore(y, m) \in Int
      /\ YearStart(y + 1) = YearStart(y) + DaysIn(y)
      /\ YearStart(y) = YearStart(y - 1) + DaysIn(y - 1)
      /\ DaysIn(y) \in Int /\ DaysIn(y - 1) \in Int
  <2>1. DaysBefore(y, m) \in Nat
      BY <1>4, DayOfYear DEF First
  <2>2. y - 1 + 1 = y
      BY <1>1
  <2> QED BY <1>1, <1>3, <2>1, <2>2, YearTable DEF DaysIn
<1>6. CASE j < 0
  <2>1. CASE m = 1
    <3>1. 32 + j \in 1..31 /\ MonthLength(y - 1, 12) = 31
        BY <1>3, <1>6, MonthTable
    <3>2. /\ Day(y - 1, 12, 32 + j) \in Dates
          /\ Numbers[Day(y - 1, 12, 32 + j)] = YearStart(y - 1) + DaysBefore(y - 1, 12) + (32 + j) - 1
      <4> DEFINE z == y - 1
                 k == 32 + j
      <4>1. z \in MinYear - 1..MaxYear + 1 /\ 12 \in 1..12 /\ k \in 1..31
          BY <1>3, <3>1
      <4>2. k <= MonthLength(z, 12)
          BY <3>1
      <4> HIDE DEF z, k
      <4>3. /\ Day(z, 12, k) \in Dates
            /\ Numbers[Day(z, 12, k)] = YearStart(z) + DaysBefore(z, 12) + k - 1
          BY <4>1, <4>2, MakeDate
      <4> QED BY <4>3 DEF z, k
    <3>3. DaysBefore(y, m) = 0 /\ DaysBefore(y - 1, 12) + 31 = DaysIn(y - 1)
        BY <1>1, <1>3, <2>1, MonthTable
    <3>4. DaysBefore(y - 1, 12) \in Int
        BY DEF DaysBefore
    <3>5. Numbers[Day(y - 1, 12, 32 + j)] = Numbers[First(v)] + j
        BY <1>4, <1>5, <3>2, <3>3, <3>4
    <3> QED BY <3>2, <3>5
  <2>2. CASE m > 1
    <3>1. m - 1 \in 1..11 /\ m - 1 \in 1..12 /\ (m - 1) + 1 = m
        BY <1>1, <2>2
    <3> DEFINE before == MonthLength(y, m - 1)
    <3>3. before \in 28..31
        BY <1>1, <3>1, MonthTable
    <3>4. DaysBefore(y, m) = DaysBefore(y, m - 1) + before
        BY <1>1, <3>1, MonthTable
    <3>5. before + 1 + j \in 1..31 /\ before + 1 + j <= before
        BY <1>6, <3>3
    <3>6. /\ Day(y, m - 1, before + 1 + j) \in Dates
          /\ Numbers[Day(y, m - 1, before + 1 + j)]
                 = YearStart(y) + DaysBefore(y, m - 1) + (before + 1 + j) - 1
        BY <1>3, <3>1, <3>5, MakeDate
    <3>7. DaysBefore(y, m - 1) \in Int
        BY <3>6, DayOfYear
    <3>8. Numbers[Day(y, m - 1, before + 1 + j)] = Numbers[First(v)] + j
      <4> HIDE DEF before
      <4> QED BY <1>4, <1>5, <3>3, <3>4, <3>6, <3>7
    <3> QED BY <1>1, <3>6, <3>8
  <2> QED BY <1>1, <2>1, <2>2
<1>7. CASE j >= 0 /\ j < len
  <2>1. j + 1 \in 1..31 /\ j + 1 <= len
      BY <1>2, <1>7
  <2>2. /\ Day(y, m, j + 1) \in Dates
        /\ Numbers[Day(y, m, j + 1)] = YearStart(y) + DaysBefore(y, m) + (j + 1) - 1
      BY <1>1, <1>3, <2>1, MakeDate
  <2>3. Numbers[Day(y, m, j + 1)] = Numbers[First(v)] + j
      BY <1>4, <1>5, <2>2
  <2> QED BY <1>1, <2>2, <2>3
<1>8. CASE j >= len
  <2> DEFINE k == j - len + 1
  <2>1. k \in 1..14 /\ k \in 1..31
      BY <1>2, <1>8
  <2>2. CASE m = 12
    <3>1. MonthLength(y + 1, 1) = 31 /\ DaysBefore(y + 1, 1) = 0 /\ len = 31
          /\ DaysBefore(y, 12) + 31 = DaysIn(y)
        BY <1>1, <1>3, <2>2, MonthTable
    <3>2. /\ Day(y + 1, 1, k) \in Dates
          /\ Numbers[Day(y + 1, 1, k)] = YearStart(y + 1) + DaysBefore(y + 1, 1) + k - 1
      <4>1. 1 \in 1..12 /\ k <= MonthLength(y + 1, 1)
          BY <2>1, <3>1
      <4> QED BY <1>3, <2>1, <4>1, MakeDate
    <3>3. Numbers[Day(y + 1, 1, k)] = Numbers[First(v)] + j
        BY <1>4, <1>5, <2>2, <3>1, <3>2
    <3> QED BY <3>2, <3>3
  <2>3. CASE m < 12
    <3>1. m \in 1..11 /\ m + 1 \in 1..12
        BY <1>1, <2>3
    <3>2. MonthLength(y, m + 1) \in 28..31 /\ DaysBefore(y, m + 1) = DaysBefore(y, m) + len
        BY <1>1, <3>1, MonthTable
    <3>3. /\ Day(y, m + 1, k) \in Dates
          /\ Numbers[Day(y, m + 1, k)] = YearStart(y) + DaysBefore(y, m + 1) + k - 1
      <4>1. k <= MonthLength(y, m + 1)
          BY <2>1, <3>2
      <4> QED BY <1>3, <2>1, <3>1, <4>1, MakeDate
    <3>4. Numbers[Day(y, m + 1, k)] = Numbers[First(v)] + j
        BY <1>2, <1>4, <1>5, <3>2, <3>3
    <3> QED BY <1>1, <3>3, <3>4
  <2> QED BY <1>1, <2>2, <2>3
<1> QED BY <1>2, <1>6, <1>7, <1>8

\* The same through the numbers, as the code takes it.
LEMMA NearDate ==
    ASSUME NEW v \in Months, NEW j \in -6..41
    PROVE  LET e == DateNumbered[Numbers[First(v)] + j] IN
           /\ e \in Dates
           /\ Numbers[e] = Numbers[First(v)] + j
           /\ Clamp(e) \in Supported
           /\ MonthOf(Clamp(e)) \in Months
<1>1. PICK e \in Dates : /\ Numbers[e] = Numbers[First(v)] + j
                         /\ e.year \in MinYear..MaxYear \/ e.month \in {1, 12}
    BY NearMonth
<1>2. DateNumbered[Numbers[First(v)] + j] = e
    BY <1>1, DateOfNumber
<1> QED BY <1>1, <1>2, ClampSupported

LEMMA SupportedDate ==
    ASSUME NEW d \in Supported
    PROVE  d \in Dates /\ MonthOf(d) \in Months /\ Clamp(d) = d
<1>1. d \in Dates /\ d.year \in MinYear..MaxYear /\ d.month \in 1..12
    BY YearsAssumption DEF Supported, Dates, DatesOf
<1>2. MonthOf(d) \in Months
    BY <1>1 DEF MonthOf, Months
<1>3. Clamp(d) = d
    BY <1>1, DayOfYear, YearsAssumption DEF Clamp
<1> QED BY <1>1, <1>2, <1>3

\* The offsets of a page start with the Sunday, six days before at most.
LEMMA PageOffset ==
    ASSUME NEW v \in Months
    PROVE  /\ Numbers[First(v)] \in Int
           /\ FromSunday(First(v)) \in 0..6
           /\ Page(v) = {DateNumbered[n] :
                n \in Numbers[First(v)] - FromSunday(First(v))..
                      Numbers[First(v)] - FromSunday(First(v)) + 41}
<1>1. First(v) \in Dates
  <2>1. MonthLength(v.year, v.month) \in 28..31
      BY MonthTable, YearsAssumption DEF Months
  <2>2. v.year \in MinYear - 1..MaxYear + 1 /\ v.month \in 1..12
      BY YearsAssumption DEF Months
  <2>3. 1 \in 1..31 /\ 1 <= MonthLength(v.year, v.month)
      BY <2>1
  <2> QED BY <2>2, <2>3, MakeDate DEF First
<1>2. Numbers[First(v)] \in Int
    BY <1>1, DayOfYear
<1>3. FromSunday(First(v)) \in 0..6
    BY <1>2 DEF FromSunday
<1> QED BY <1>2, <1>3 DEF Page, First

LEMMA PageDate ==
    ASSUME NEW v \in Months, NEW e \in Page(v)
    PROVE  /\ e \in Dates
           /\ Clamp(e) \in Supported
           /\ MonthOf(Clamp(e)) \in Months
<1>1. PICK n \in Numbers[First(v)] - FromSunday(First(v))..
                 Numbers[First(v)] - FromSunday(First(v)) + 41 : e = DateNumbered[n]
    BY PageOffset
<1>2. PICK j \in -6..41 : n = Numbers[First(v)] + j
    BY PageOffset, n - Numbers[First(v)] \in -6..41
<1> QED BY <1>1, <1>2, NearDate

\* A step of one day stays near the month of the date.
LEMMA StepDate ==
    ASSUME NEW d \in Supported, NEW k \in {-1, 1}
    PROVE  LET e == DateNumbered[Numbers[d] + k] IN
           /\ e \in Dates
           /\ Numbers[e] = Numbers[d] + k
           /\ Clamp(e) \in Supported
           /\ MonthOf(Clamp(e)) \in Months
<1> DEFINE v == MonthOf(d)
<1>1. d \in Dates /\ v \in Months
    BY SupportedDate
<1>2. First(v) = [year |-> d.year, month |-> d.month, day |-> 1] /\ d.day \in 1..31
    BY <1>1, DayOfYear DEF First, MonthOf
<1>3. First(v) \in Dates
  <2>1. 1 \in 1..31 /\ 1 <= MonthLength(d.year, d.month) /\ d.month \in 1..12
      BY <1>1, DayOfYear
  <2>2. d.year \in MinYear - 1..MaxYear + 1
      BY <1>1 DEF Dates, DatesOf
  <2> QED BY <1>2, <2>1, <2>2, MakeDate
<1>4. Numbers[d] = Numbers[First(v)] + d.day - 1 /\ Numbers[First(v)] \in Int
  <2>1. YearStart(d.year) \in Int /\ DaysBefore(d.year, d.month) \in Int
      BY <1>1, DayOfYear, YearTable
  <2>2. /\ Numbers[d] = YearStart(d.year) + DaysBefore(d.year, d.month) + d.day - 1
        /\ Numbers[First(v)] = YearStart(d.year) + DaysBefore(d.year, d.month) + 1 - 1
      BY <1>1, <1>2, <1>3, DayOfYear
  <2> QED BY <1>2, <2>1, <2>2
<1>5. PICK j \in -6..41 : Numbers[d] + k = Numbers[First(v)] + j
    BY <1>2, <1>4, d.day - 1 + k \in -6..41
<1> QED BY <1>1, <1>5, NearDate

-----------------------------------------------------------------------------

PickerInv == DateSupported /\ ViewSupported /\ open \in BOOLEAN

LEMMA TodaySupported ==
    ASSUME NEW d \in Todays
    PROVE  d \in Supported /\ MonthOf(d) \in Months
BY YearsAssumption, SupportedDate

LEMMA PickerStep == PickerInv /\ [Next]_vars => PickerInv'
<1> SUFFICES ASSUME PickerInv, [Next]_vars PROVE PickerInv'
    OBVIOUS
<1> USE DEF PickerInv, DateSupported, ViewSupported
<1>1. CASE Toggle
    BY <1>1, SupportedDate DEF Toggle
<1>2. CASE Close
    BY <1>2 DEF Close
<1>3. CASE Now
    BY <1>3, TodaySupported DEF Now
<1>4. CASE PrevMonth
  <2>1. view.year \in MinYear..MaxYear /\ view.month \in 1..12 /\ view \in Months
        /\ view = [year |-> view.year, month |-> view.month]
      BY DEF Months
  <2>2. CASE view.month = 1
      BY <1>4, <2>1, <2>2, YearsAssumption DEF PrevMonth, Months
  <2>3. CASE view.month # 1
      BY <1>4, <2>1, <2>3, YearsAssumption DEF PrevMonth, Months
  <2> QED BY <2>2, <2>3
<1>5. CASE NextMonth
  <2>1. view.year \in MinYear..MaxYear /\ view.month \in 1..12 /\ view \in Months
        /\ view = [year |-> view.year, month |-> view.month]
      BY DEF Months
  <2>2. CASE view.month = 12
      BY <1>5, <2>1, <2>2, YearsAssumption DEF NextMonth, Months
  <2>3. CASE view.month # 12
      BY <1>5, <2>1, <2>3, YearsAssumption DEF NextMonth, Months
  <2> QED BY <2>2, <2>3
<1>6. CASE PopupNow
    BY <1>6, TodaySupported DEF PopupNow
<1>7. ASSUME NEW cell \in Page(view), Click(cell) PROVE PickerInv'
    BY <1>7, PageDate DEF Click
<1>8. ASSUME NEW k \in {-1, 1}, ShiftDay(k) PROVE PickerInv'
    BY <1>8, StepDate DEF ShiftDay
<1>9. CASE UNCHANGED vars
    BY <1>9 DEF vars
<1> QED BY <1>1, <1>2, <1>3, <1>4, <1>5, <1>6, <1>7, <1>8, <1>9 DEF Next

LEMMA PickerCorrect == Spec => []PickerInv
<1>1. Init => PickerInv
    BY TodaySupported DEF Init, PickerInv, DateSupported, ViewSupported
<1> QED BY <1>1, PickerStep, PTL DEF Spec

\* The fields of the picker hold a date that exists, in a supported year,
\* whatever is clicked, for any years and any days the clock shows.
THEOREM DatesSupported == Spec => []DateSupported
<1>1. PickerInv => DateSupported
    BY DEF PickerInv
<1> QED BY <1>1, PickerCorrect, PTL

\* The month being browsed is a supported one.
THEOREM ViewsSupported == Spec => []ViewSupported
<1>1. PickerInv => ViewSupported
    BY DEF PickerInv
<1> QED BY <1>1, PickerCorrect, PTL

\* Date, month and popup keep their types.
THEOREM PickerTypeInvariant == Spec => []TypeOK
<1>1. PickerInv => TypeOK
    BY YearsAssumption DEF PickerInv, DateSupported, ViewSupported, TypeOK, Supported,
                           DatesOf, Months
<1> QED BY <1>1, PickerCorrect, PTL

\* Six rows are enough for the longest month, whatever day it starts on.
THEOREM PagesComplete == Spec => []PageComplete
<1>1. PickerInv => PageComplete
  <2> SUFFICES ASSUME view \in Months, NEW k \in 1..MonthLength(view.year, view.month)
               PROVE  [year |-> view.year, month |-> view.month, day |-> k] \in Page(view)
      BY DEF PickerInv, ViewSupported, PageComplete
  <2> DEFINE e == [year |-> view.year, month |-> view.month, day |-> k]
             n == Numbers[e]
  <2>1. /\ view.year \in MinYear - 1..MaxYear + 1 /\ view.month \in 1..12 /\ view.year \in Int
        /\ MonthLength(view.year, view.month) \in 28..31
    <3>1. view.year \in MinYear - 1..MaxYear + 1 /\ view.month \in 1..12 /\ view.year \in Int
        BY YearsAssumption DEF Months
    <3> QED BY <3>1, MonthTable
  <2>2. e \in Dates
    <3>1. k \in 1..31 /\ k <= MonthLength(view.year, view.month)
        BY <2>1
    <3> QED BY <2>1, <3>1, MakeDate
  <2>3. First(view) \in Dates
    <3>1. 1 \in 1..31 /\ 1 <= MonthLength(view.year, view.month)
        BY <2>1
    <3> QED BY <2>1, <3>1, MakeDate DEF First
  <2>4. n = Numbers[First(view)] + k - 1 /\ Numbers[First(view)] \in Int
    <3>1. YearStart(view.year) \in Int /\ DaysBefore(view.year, view.month) \in Int
        BY <2>1, <2>2, DayOfYear, YearTable
    <3>2. /\ n = YearStart(view.year) + DaysBefore(view.year, view.month) + k - 1
          /\ Numbers[First(view)]
                = YearStart(view.year) + DaysBefore(view.year, view.month) + 1 - 1
        BY <2>2, <2>3, DayOfYear DEF First
    <3> QED BY <2>1, <3>1, <3>2
  <2>5. n \in Numbers[First(view)] - FromSunday(First(view))..
              Numbers[First(view)] - FromSunday(First(view)) + 41
      BY <2>1, <2>4, PageOffset
  <2>6. DateNumbered[n] = e
      BY <2>2, DateOfNumber
  <2> QED BY <2>5, <2>6, PageOffset
<1> QED BY <1>1, PickerCorrect, PTL

\* The open popup shows the month of the date that has just been chosen.
THEOREM ChoiceAlwaysInView == Spec => ChoiceInView
<1>1. PickerInv /\ [Next]_vars => [open' /\ date' # date => view' = MonthOf(date')]_vars
  <2> SUFFICES ASSUME PickerInv, Next, open', date' # date
               PROVE  view' = MonthOf(date')
      OBVIOUS
  <2>1. CASE Toggle \/ Close \/ Now \/ PrevMonth \/ NextMonth
      BY <2>1 DEF Toggle, Close, Now, PrevMonth, NextMonth, PickerInv
  <2>2. CASE PopupNow
      BY <2>2 DEF PopupNow
  <2>3. ASSUME NEW cell \in Page(view), Click(cell) PROVE view' = MonthOf(date')
    <3>1. CASE MonthOf(cell) # view
        BY <2>3, <3>1 DEF Click
    <3>2. CASE MonthOf(cell) = view
      <4>1. cell \in Dates /\ view \in Months
          BY PageDate DEF PickerInv, ViewSupported
      <4>2. cell.year \in MinYear..MaxYear
          BY <3>2, <4>1 DEF MonthOf, Months
      <4>3. Clamp(cell) = cell
          BY <4>1, <4>2, DayOfYear, YearsAssumption DEF Clamp
      <4> QED BY <2>3, <3>2, <4>3 DEF Click
    <3> QED BY <3>1, <3>2
  <2>4. ASSUME NEW k \in {-1, 1}, ShiftDay(k) PROVE view' = MonthOf(date')
      BY <2>4 DEF ShiftDay
  <2> QED BY <2>1, <2>2, <2>3, <2>4 DEF Next
<1> QED BY <1>1, PickerCorrect, PTL DEF Spec, ChoiceInView

\* A supported date lies between the ends of the supported years, and these
\* ends are one day from the years next to them.
LEMMA EndsOfYears ==
    /\ \A d \in Supported :
          /\ Numbers[d] >= YearStart(MinYear)
          /\ Numbers[d] < YearStart(MaxYear + 1)
    /\ {NewYear(MinYear), NewYear(MaxYear + 1)} \subseteq Dates
    /\ {NewYearsEve(MinYear - 1), NewYearsEve(MaxYear)} \subseteq Dates
    /\ Numbers[NewYear(MinYear)] = YearStart(MinYear)
    /\ Numbers[NewYear(MaxYear + 1)] = YearStart(MaxYear + 1)
    /\ Numbers[NewYearsEve(MinYear - 1)] = YearStart(MinYear) - 1
    /\ Numbers[NewYearsEve(MaxYear)] = YearStart(MaxYear + 1) - 1
    /\ YearStart(MinYear) \in Int /\ YearStart(MaxYear + 1) \in Int
<1> DEFINE Near == MinYear - 1..MaxYear + 1
<1>1. /\ MinYear \in Near /\ MaxYear \in Near /\ MinYear - 1 \in Near /\ MaxYear + 1 \in Near
      /\ Near \subseteq Int /\ MinYear \in Int /\ MaxYear \in Int /\ MaxYear + 1 \in Int
    BY YearsAssumption
<1>2. ASSUME NEW y \in Near
      PROVE  NewYear(y) \in Dates /\ Numbers[NewYear(y)] = YearStart(y)
  <2>1. MonthLength(y, 1) = 31 /\ DaysBefore(y, 1) = 0 /\ YearStart(y) \in Int
      BY <1>1, MonthTable, YearTable
  <2>2. y \in MinYear - 1..MaxYear + 1 /\ 1 \in 1..12 /\ 1 \in 1..31 /\ 1 <= MonthLength(y, 1)
      BY <2>1
  <2>3. /\ NewYear(y) \in Dates
        /\ Numbers[NewYear(y)] = YearStart(y) + DaysBefore(y, 1) + 1 - 1
      BY <2>2, MakeDate DEF NewYear
  <2> QED BY <2>1, <2>3
<1>3. ASSUME NEW y \in Near
      PROVE  /\ NewYearsEve(y) \in Dates
             /\ Numbers[NewYearsEve(y)] = YearStart(y + 1) - 1
  <2>1. /\ MonthLength(y, 12) = 31 /\ DaysBefore(y, 12) + 31 = DaysIn(y)
        /\ YearStart(y) \in Int /\ YearStart(y + 1) = YearStart(y) + DaysIn(y)
      BY <1>1, MonthTable, YearTable
  <2>2. DaysBefore(y, 12) \in Int /\ DaysIn(y) \in Int
      BY DEF DaysBefore, DaysIn
  <2>3. /\ y \in MinYear - 1..MaxYear + 1 /\ 12 \in 1..12 /\ 31 \in 1..31
        /\ 31 <= MonthLength(y, 12)
      BY <2>1
  <2>4. /\ NewYearsEve(y) \in Dates
        /\ Numbers[NewYearsEve(y)] = YearStart(y) + DaysBefore(y, 12) + 31 - 1
      BY <2>3, MakeDate DEF NewYearsEve
  <2> QED BY <2>1, <2>2, <2>4
<1>4. YearStart(MinYear) \in Int /\ YearStart(MaxYear + 1) \in Int
    BY <1>1, YearTable
<1>5. ASSUME NEW d \in Supported
      PROVE  Numbers[d] >= YearStart(MinYear) /\ Numbers[d] < YearStart(MaxYear + 1)
  <2>1. d \in Dates /\ d.year \in MinYear..MaxYear
      BY SupportedDate DEF Supported, DatesOf
  <2>2. d.year \in Int /\ d.year + 1 \in Int /\ MinYear <= d.year /\ d.year + 1 <= MaxYear + 1
      BY <1>1, <2>1
  <2>3. YearStart(MinYear) <= YearStart(d.year) /\ YearStart(d.year + 1) <= YearStart(MaxYear + 1)
      BY <1>1, <2>2, YearsGrow
  <2>4. /\ YearStart(d.year) \in Int /\ DaysIn(d.year) \in Int
        /\ YearStart(d.year + 1) = YearStart(d.year) + DaysIn(d.year)
      BY <2>2, YearTable DEF DaysIn
  <2>5. /\ DaysBefore(d.year, d.month) + d.day \in 1..DaysIn(d.year)
        /\ DaysBefore(d.year, d.month) \in Nat /\ d.day \in Int
        /\ Numbers[d] = YearStart(d.year) + DaysBefore(d.year, d.month) + d.day - 1
      BY <2>1, DayOfYear
  <2> QED BY <1>4, <2>3, <2>4, <2>5
<1>6. MinYear - 1 + 1 = MinYear
    BY <1>1
<1> QED BY <1>1, <1>2, <1>3, <1>4, <1>5, <1>6

\* One day on from a supported date is supported, or a step over an end.
LEMMA StepOrEnd ==
    ASSUME NEW d \in Supported, NEW k \in {-1, 1}
    PROVE  LET e == Clamp(DateNumbered[Numbers[d] + k]) IN
           \/ Numbers[e] = Numbers[d] + k
           \/ k = 1 /\ d = NewYearsEve(MaxYear) /\ e = NewYear(MaxYear)
           \/ k = -1 /\ d = NewYear(MinYear) /\ e = NewYearsEve(MinYear)
<1> DEFINE f == DateNumbered[Numbers[d] + k]
<1>1. f \in Dates /\ Numbers[f] = Numbers[d] + k /\ d \in Dates
    BY StepDate, SupportedDate
<1>2. Numbers[d] \in Int /\ Numbers[f] \in Int /\ f.year \in MinYear - 1..MaxYear + 1
    BY <1>1, DayOfYear DEF Dates, DatesOf
<1> HIDE DEF f
<1>3. CASE f.year \in MinYear..MaxYear
  <2>1. Clamp(f) = f
      BY <1>1, <1>3, DayOfYear, YearsAssumption DEF Clamp
  <2> QED BY <1>1, <2>1 DEF f
<1>4. CASE f.year = MaxYear + 1
  <2>1. Numbers[f] >= YearStart(MaxYear + 1)
    <3>1. /\ DaysBefore(f.year, f.month) \in Nat /\ f.day \in 1..31
          /\ Numbers[f] = YearStart(f.year) + DaysBefore(f.year, f.month) + f.day - 1
        BY <1>1, DayOfYear
    <3> QED BY <1>4, <3>1, EndsOfYears
  <2>2. k = 1 /\ Numbers[d] = YearStart(MaxYear + 1) - 1 /\ Numbers[f] = YearStart(MaxYear + 1)
      BY <1>1, <1>2, <2>1, EndsOfYears
  <2>3. d = NewYearsEve(MaxYear) /\ f = NewYear(MaxYear + 1)
      BY <1>1, <2>2, EndsOfYears, NumbersApart
  <2>4. Clamp(f) = NewYear(MaxYear)
      BY <2>3, YearsAssumption DEF Clamp, NewYear
  <2> QED BY <2>2, <2>3, <2>4 DEF f
<1>5. CASE f.year = MinYear - 1
  <2>1. Numbers[f] < YearStart(MinYear)
    <3>1. /\ DaysBefore(f.year, f.month) + f.day \in 1..DaysIn(f.year)
          /\ DaysBefore(f.year, f.month) \in Nat /\ f.day \in 1..31
          /\ Numbers[f] = YearStart(f.year) + DaysBefore(f.year, f.month) + f.day - 1
        BY <1>1, DayOfYear
    <3>2. MinYear - 1 \in Int /\ (MinYear - 1) + 1 = MinYear
        BY YearsAssumption
    <3>3. /\ YearStart(f.year) \in Int /\ DaysIn(f.year) \in Int
          /\ YearStart(MinYear) = YearStart(f.year) + DaysIn(f.year)
        BY <1>5, <3>2, YearTable DEF DaysIn
    <3> QED BY <3>1, <3>3
  <2>2. k = -1 /\ Numbers[d] = YearStart(MinYear) /\ Numbers[f] = YearStart(MinYear) - 1
      BY <1>1, <1>2, <2>1, EndsOfYears
  <2>3. d = NewYear(MinYear) /\ f = NewYearsEve(MinYear - 1)
      BY <1>1, <2>2, EndsOfYears, NumbersApart
  <2>4. Clamp(f) = NewYearsEve(MinYear)
      BY <2>3, YearsAssumption DEF Clamp, NewYearsEve
  <2> QED BY <2>2, <2>3, <2>4 DEF f
<1>6. f.year \in MinYear..MaxYear \/ f.year = MaxYear + 1 \/ f.year = MinYear - 1
    BY <1>2, YearsAssumption
<1> QED BY <1>3, <1>4, <1>5, <1>6

\* -1d and +1d move the date by one day; only over the two ends of the supported
\* years does the clamp turn them back, to the other end of the same year.
THEOREM StepsAreOneDay == Spec => StepsOneDay
<1> DEFINE Exact == \A k \in {-1, 1} :
                ShiftDay(k) =>
                   \/ Numbers[date'] = Numbers[date] + k
                   \/ k = 1 /\ date = NewYearsEve(MaxYear) /\ date' = NewYear(MaxYear)
                   \/ k = -1 /\ date = NewYear(MinYear) /\ date' = NewYearsEve(MinYear)
<1>1. PickerInv /\ [Next]_vars => [Exact]_vars
    BY StepOrEnd DEF PickerInv, DateSupported, ShiftDay
<1> QED BY <1>1, PickerCorrect, PTL DEF Spec, StepsOneDay
=============================================================================
