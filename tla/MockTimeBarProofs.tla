------------------------- MODULE MockTimeBarProofs -------------------------
(***************************************************************************)
(* Theorems about MockTimeBar, for clock changes at any two whole seconds  *)
(* and a saving of any length.                                             *)
(***************************************************************************)
EXTENDS MockTimeBar, FiniteSetTheorems, TLAPS

\* What is cut off to whole seconds is the tick within the second.
LEMMA SecondsBound ==
    ASSUME NEW l \in Int
    PROVE  Seconds(l) \in l - Second + 1..l /\ Seconds(l) % Second = 0
<1>1. Second \in Nat /\ Second > 0
    BY ZoneAssumption
<1>2. l % Second \in 0..Second - 1
    BY <1>1
<1>3. (l - (l % Second)) % Second = 0
    BY <1>1
<1>4. PICK r \in 0..Second - 1 : r = l % Second
    BY <1>2
<1>5. Seconds(l) = l - r
    BY <1>4 DEF Seconds
<1>6. l - r \in l - Second + 1..l
    BY <1>1, <1>4
<1>7. Seconds(l) % Second = 0
    BY <1>3, <1>4, <1>5
<1> QED BY <1>5, <1>6, <1>7

\* Cut off to whole seconds, a time in reach is one the fields can hold.
LEMMA SecondsField ==
    ASSUME NEW l \in 0..MaxTime + Saving
    PROVE  Seconds(l) \in Fields
<1>1. Second \in Nat /\ Second > 0 /\ MaxTime + Saving \in Nat /\ l \in Nat
    BY ZoneAssumption
<1>2. l % Second <= l
    BY <1>1
<1>3. Seconds(l) >= 0
    BY <1>1, <1>2 DEF Seconds
<1>4. Seconds(l) \in Int /\ Seconds(l) <= l /\ Seconds(l) % Second = 0
    BY <1>1, SecondsBound
<1> QED BY <1>1, <1>3, <1>4 DEF Fields

\* The conversion of the picker is an inverse of the one of the hook.
LEMMA InstantsInverse ==
    ASSUME NEW l \in Int, NEW u \in Instants(l)
    PROVE  u \in Int /\ LocalTime(u) = l
BY ZoneAssumption DEF Instants

LEMMA LocalTimeReach ==
    ASSUME NEW u \in 0..MaxTime
    PROVE  LocalTime(u) \in 0..MaxTime + Saving
BY ZoneAssumption DEF LocalTime, Offset

LEMMA TypeStep == TypeOK /\ [Next]_vars => TypeOK'
<1> SUFFICES ASSUME TypeOK, [Next]_vars PROVE TypeOK'
    OBVIOUS
<1>1. \A l \in Int : ApplyFakeTime(l) =>
          delta' \in -MaxDelta..MaxDelta /\ status' \in {"none", "transition"}
    BY DEF ApplyFakeTime, TypeOK
<1>2. OwnClock \in 0..MaxTime => Seconds(LocalTime(OwnClock)) \in Fields
    BY LocalTimeReach, SecondsField
<1>3. CASE Apply
    BY <1>1, <1>3, ZoneAssumption DEF Apply, TypeOK, Fields
<1>4. CASE Now
    BY <1>1, <1>2, <1>4, ZoneAssumption DEF Now, TypeOK, Fields
<1>5. CASE Tick
    BY <1>5, ZoneAssumption DEF Tick, TypeOK
<1>6. ASSUME NEW l \in Fields, Pick(l) PROVE TypeOK'
    BY <1>6 DEF Pick, TypeOK
<1>7. CASE InjectSelf \/ DisableSelf
    BY <1>7 DEF InjectSelf, DisableSelf, TypeOK
<1>8. CASE UNCHANGED vars
    BY <1>8 DEF vars, TypeOK
<1> QED BY <1>3, <1>4, <1>5, <1>6, <1>7, <1>8 DEF Next

LEMMA OwnClockInteger == TypeOK => now \in Nat /\ OwnClock \in Int
BY ZoneAssumption DEF TypeOK, OwnClock

\* The fields always hold whole seconds in reach of the picker.
THEOREM BarTypeInvariant == Spec => []TypeOK
<1>1. Init => TypeOK
  <2> SUFFICES ASSUME Init PROVE TypeOK
      OBVIOUS
  <2>1. now \in 0..MaxTime
      BY ZoneAssumption DEF Init
  <2>2. picked \in Fields
      BY <2>1, LocalTimeReach, SecondsField DEF Init
  <2>3. delta \in -MaxDelta..MaxDelta
      BY ZoneAssumption DEF Init
  <2> QED BY <2>1, <2>2, <2>3 DEF Init, TypeOK
<1> QED BY <1>1, TypeStep, PTL DEF Spec

\* A time that is applied is the time a hooked process shows, whatever the
\* clock changes between today and that date, as long as the controller reads
\* the real clock.
THEOREM AppliedTimeShown == Spec => AppliedShown
<1>1. TypeOK /\ [Next]_vars =>
          [(Apply \/ Now) /\ ~own /\ status' = "none" => Shown' = picked']_vars
  <2> SUFFICES ASSUME TypeOK, Apply \/ Now, ~own, status' = "none" PROVE Shown' = picked'
      OBVIOUS
  <2>1. now' = now /\ now \in Int /\ OwnClock = now
      BY ZoneAssumption DEF Apply, Now, TypeOK, OwnClock
  <2>2. ApplyFakeTime(picked')
      BY DEF Apply, Now
  <2>3. picked' \in Fields
      BY LocalTimeReach, SecondsField DEF Apply, Now, TypeOK
  <2>4. picked' \in Int
      BY <2>3, ZoneAssumption DEF Fields
  <2>5. PICK u \in Instants(picked') : delta' = u - now
      BY <2>1, <2>2 DEF ApplyFakeTime
  <2>6. u \in Int /\ LocalTime(u) = picked'
      BY <2>4, <2>5, InstantsInverse
  <2>7. now' + delta' = u
      BY <2>1, <2>5, <2>6
  <2> QED BY <2>6, <2>7 DEF Shown, LocalTime, Offset
<1> QED BY <1>1, BarTypeInvariant, PTL DEF Spec, AppliedShown

\* Multiples of the same number are at least that number apart.
LEMMA MultiplesApart ==
    ASSUME NEW n \in Nat \ {0}, NEW a \in Int, NEW b \in Int,
           a % n = 0, b % n = 0, a < b
    PROVE  a + n <= b
<1>1. a = n * (a \div n) /\ a \div n \in Int
    OBVIOUS
<1>2. b = n * (b \div n) /\ b \div n \in Int
    OBVIOUS
<1>3. PICK i \in Int, j \in Int : a = n * i /\ b = n * j
    BY <1>1, <1>2
<1>4. i < j
    BY <1>3
<1>5. n * j >= n * (i + 1)
    BY <1>4
<1>6. n * (i + 1) = n * i + n
    BY <1>3
<1> QED BY <1>3, <1>5, <1>6

LEMMA MultiplesSum ==
    ASSUME NEW n \in Nat \ {0}, NEW a \in Int, NEW b \in Int, a % n = 0, b % n = 0
    PROVE  (a + b) % n = 0
<1>1. a = n * (a \div n) /\ a \div n \in Int
    OBVIOUS
<1>2. b = n * (b \div n) /\ b \div n \in Int
    OBVIOUS
<1>3. PICK i \in Int, j \in Int : a = n * i /\ b = n * j
    BY <1>1, <1>2
<1>4. a + b = n * (i + j)
    BY <1>3
<1>5. \A k \in Int : (n * k) % n = 0
    OBVIOUS
<1> QED BY <1>3, <1>4, <1>5

\* Cutting off the fraction of a second never crosses a whole second.
LEMMA SecondsMonotone ==
    ASSUME NEW l \in Int, NEW m \in Int, m % Second = 0, m <= l
    PROVE  m <= Seconds(l)
<1>1. Second \in Nat \ {0}
    BY ZoneAssumption
<1>2. Seconds(l) \in l - Second + 1..l /\ Seconds(l) % Second = 0
    BY SecondsBound
<1>3. Seconds(l) \in Int /\ Seconds(l) > l - Second
    BY <1>1, <1>2
<1>4. Seconds(l) < m => Seconds(l) + Second <= m
    BY <1>1, <1>2, <1>3, MultiplesApart
<1> QED BY <1>1, <1>3, <1>4

\* Outside the hours around Back, the local time of now is that of one
\* instant alone.
LEMMA NowUnambiguous ==
    ASSUME NEW u \in Nat, u \notin Back - Saving..Back + Saving - 1
    PROVE  Cardinality(Instants(Seconds(LocalTime(u)))) = 1
<1> DEFINE l == Seconds(LocalTime(u))
<1>1. Forward \in Nat /\ Back \in Nat /\ Saving \in Nat /\ Saving > 0 /\ Forward + Saving < Back
    BY ZoneAssumption
<1>2. LocalTime(u) \in Int /\ l \in Int /\ l <= LocalTime(u)
  <2>1. LocalTime(u) \in Int
      BY <1>1 DEF LocalTime, Offset
  <2>2. Second \in Nat \ {0} /\ l \in LocalTime(u) - Second + 1..LocalTime(u)
      BY <2>1, SecondsBound, ZoneAssumption
  <2> HIDE DEF l
  <2> QED BY <2>1, <2>2
<1>3. (Forward + Saving) % Second = 0 /\ (Back + Saving) % Second = 0
  <2>1. Second \in Nat \ {0}
      BY ZoneAssumption
  <2>2. Forward % Second = 0 /\ Back % Second = 0 /\ Saving % Second = 0
      BY ZoneAssumption
  <2> HIDE DEF l
  <2>3. Forward \in Int /\ Back \in Int /\ Saving \in Int
      BY <1>1
  <2> QED BY <2>1, <2>2, <2>3, MultiplesSum, Zenon
<1> HIDE DEF l
<1>4. \E x : Instants(l) = {x}
  <2>1. CASE u < Forward
    <3>1. LocalTime(l) = l /\ LocalTime(l - Saving) # l
        BY <1>1, <1>2, <2>1 DEF LocalTime, Offset
    <3> QED BY <3>1 DEF Instants
  <2>2. CASE u \in Forward..Back - Saving - 1
    <3>1. LocalTime(u) = u + Saving
        BY <1>1, <2>2 DEF LocalTime, Offset
    <3>2. Forward + Saving <= l
        BY <1>1, <1>2, <1>3, <2>2, <3>1, SecondsMonotone DEF l
    <3>3. LocalTime(l - Saving) = l /\ LocalTime(l) # l
        BY <1>1, <1>2, <2>2, <3>1, <3>2 DEF LocalTime, Offset
    <3> QED BY <3>3 DEF Instants
  <2>3. CASE u >= Back + Saving
    <3>1. LocalTime(u) = u
        BY <1>1, <2>3 DEF LocalTime, Offset
    <3>2. Back + Saving <= l
        BY <1>1, <1>2, <1>3, <2>3, <3>1, SecondsMonotone DEF l
    <3>3. LocalTime(l) = l /\ LocalTime(l - Saving) # l
        BY <1>1, <1>2, <3>2 DEF LocalTime, Offset
    <3> QED BY <3>3 DEF Instants
  <2>4. u < Forward \/ u \in Forward..Back - Saving - 1 \/ u >= Back + Saving
      BY <1>1
  <2> QED BY <2>1, <2>2, <2>3, <2>4
<1> QED BY <1>4, FS_Singleton DEF l

\* Now is refused only in the hours before and after the clocks go back.
THEOREM NowRefusedOnlyInFold == Spec => NowRefusedInFold
<1>1. TypeOK /\ [Next]_vars =>
          [Now /\ status' = "transition" =>
              OwnClock \in Back - Saving..Back + Saving - 1]_vars
  <2> SUFFICES ASSUME TypeOK, Now, status' = "transition"
               PROVE  OwnClock \in Back - Saving..Back + Saving - 1
      OBVIOUS
  <2>1. OwnClock \in Nat
      BY ZoneAssumption DEF Now
  <2>2. Cardinality(Instants(Seconds(LocalTime(OwnClock)))) # 1
      BY DEF Now, ApplyFakeTime
  <2> QED BY <2>1, <2>2, NowUnambiguous
<1> QED BY <1>1, BarTypeInvariant, PTL DEF Spec, NowRefusedInFold

\* The offset does not change within a second.
LEMMA OffsetOfSeconds ==
    ASSUME NEW u \in Nat
    PROVE  /\ Seconds(u) \in u - Second + 1..u
           /\ Offset(Seconds(u)) = Offset(u)
<1>1. Forward \in Nat /\ Back \in Nat /\ Second \in Nat \ {0}
    BY ZoneAssumption
<1>2. Forward % Second = 0 /\ Back % Second = 0
    BY ZoneAssumption
<1>3. Seconds(u) \in u - Second + 1..u
    BY SecondsBound
<1>4. Forward <= u => Forward <= Seconds(u)
    BY <1>1, <1>2, SecondsMonotone
<1>5. Back <= u => Back <= Seconds(u)
    BY <1>1, <1>2, SecondsMonotone
<1>6. Seconds(u) <= u /\ Seconds(u) \in Int
    BY <1>1, <1>3
<1>7. u \in Forward..Back - 1 <=> Seconds(u) \in Forward..Back - 1
    BY <1>1, <1>4, <1>5, <1>6
<1> QED BY <1>3, <1>7 DEF Offset

\* The picked second of an instant is the local time of the instant's second.
LEMMA SecondsOfLocalTime ==
    ASSUME NEW u \in Nat
    PROVE  Seconds(LocalTime(u)) = LocalTime(Seconds(u))
<1>1. Second \in Nat \ {0} /\ Saving \in Nat /\ Saving % Second = 0
    BY ZoneAssumption
<1>2. Offset(u) \in Nat /\ Offset(u) % Second = 0
    BY <1>1 DEF Offset
<1>3. PICK a \in u - Second + 1..u : a = Seconds(u) /\ a % Second = 0
    BY SecondsBound
<1>4. LocalTime(u) = u + Offset(u) /\ LocalTime(Seconds(u)) = a + Offset(u)
    BY <1>3, OffsetOfSeconds DEF LocalTime
<1>5. LocalTime(u) \in Int
    BY <1>2, <1>4
<1>6. PICK b \in LocalTime(u) - Second + 1..LocalTime(u) :
          b = Seconds(LocalTime(u)) /\ b % Second = 0
    BY <1>5, SecondsBound
<1>7. (a + Offset(u)) % Second = 0
    BY <1>1, <1>2, <1>3, MultiplesSum
<1>8. a + Offset(u) \in Int /\ b \in Int
    BY <1>1, <1>2, <1>3, <1>5, <1>6
<1>9. ~(a + Offset(u) < b)
  <2> SUFFICES ASSUME a + Offset(u) < b PROVE FALSE
      OBVIOUS
  <2>1. a + Offset(u) + Second <= b
      BY <1>1, <1>6, <1>7, <1>8, MultiplesApart
  <2> QED BY <1>1, <1>2, <1>3, <1>4, <1>6, <2>1
<1>10. ~(b < a + Offset(u))
  <2> SUFFICES ASSUME b < a + Offset(u) PROVE FALSE
      OBVIOUS
  <2>1. b + Second <= a + Offset(u)
      BY <1>1, <1>6, <1>7, <1>8, MultiplesApart
  <2> QED BY <1>1, <1>2, <1>3, <1>4, <1>5, <1>6, <2>1
<1> QED BY <1>4, <1>6, <1>8, <1>9, <1>10

\* Where Now is not refused, every process is back at real time to the second.
THEOREM NowRestoresRealTime == Spec => NowRestores
<1>1. TypeOK /\ [Next]_vars =>
          [Now /\ status' = "none" => delta' \in 1 - Second..0]_vars
  <2> SUFFICES ASSUME TypeOK, Now, status' = "none"
               PROVE  delta' \in 1 - Second..0
      OBVIOUS
  <2> DEFINE v == OwnClock
             l == Seconds(LocalTime(v))
             s == Seconds(v)
  <2>1. v \in Nat /\ Second \in Nat \ {0} /\ Saving \in Nat /\ Offset(v) \in Nat
      BY ZoneAssumption DEF Now, Offset
  <2>2. s \in v - Second + 1..v /\ l = LocalTime(s)
      BY <2>1, OffsetOfSeconds, SecondsOfLocalTime
  <2>3. Cardinality(Instants(l)) = 1 /\ \E u \in Instants(l) : delta' = u - v
      BY DEF Now, ApplyFakeTime
  <2> HIDE DEF v, l
  <2>4. s \in Int /\ l \in Int
    <3>1. s \in Int
        BY <2>1, <2>2
    <3> HIDE DEF s
    <3> QED BY <2>1, <2>2, <3>1 DEF LocalTime, Offset
  <2> HIDE DEF s
  <2>5. s \in Instants(l)
      BY <2>1, <2>2, <2>4 DEF Instants, LocalTime, Offset
  <2>6. \A u \in Instants(l) : u = s
    <3>1. IsFiniteSet(Instants(l))
      <4>1. IsFiniteSet({l} \cup {l - Saving})
          BY FS_Singleton, FS_AddElement
      <4>2. Instants(l) \in SUBSET ({l} \cup {l - Saving})
          BY DEF Instants
      <4> QED BY <4>1, <4>2, FS_Subset
    <3>2. PICK x : Instants(l) = {x}
        BY <2>3, <3>1, FS_Singleton
    <3> QED BY <2>5, <3>2
  <2>7. delta' = s - v
      BY <2>3, <2>6
  <2> QED BY <2>1, <2>2, <2>4, <2>7
<1> QED BY <1>1, BarTypeInvariant, PTL DEF Spec, NowRestores
=============================================================================
